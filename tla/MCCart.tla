-------------------------------- MODULE MCCart --------------------------------
(* Pages, and items sold in twos and threes; twos of the one have an exact  *)
(* half of a paisa in their tax where prices include it, threes of the      *)
(* other where they do not.                                                 *)
EXTENDS Cart

CONSTANTS load, first, second, other, home, away, murukku, laddu

MCPageOf == [r \in Requests |-> IF r = other THEN away ELSE home]
MCMinQty == [v \in Variants |-> 2]
MCPrice == [v \in Variants |-> IF v = murukku THEN 63 ELSE 30]
MCTaxRate == [v \in Variants |-> IF v = murukku THEN 12 ELSE 5]
===============================================================================
