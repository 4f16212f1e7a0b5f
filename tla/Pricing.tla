------------------------------- MODULE Pricing -------------------------------
(***************************************************************************)
(* Money in minor units, and how the price of a line splits into net and   *)
(* tax.  Math.round works on a binary fraction that stands for the exact   *)
(* quotient, so an exact half may go either way: 14 paise with 12 % inside *)
(* come out as 12 and 2, not 13 and 1.                                     *)
(*                                                                         *)
(* An amount goes out as a string with two decimals, here the two numbers  *)
(* on either side of its point.                                            *)
(***************************************************************************)
EXTENDS Integers

fromMinorUnits(minor) == [whole |-> minor \div 100, cents |-> minor % 100]

(* Number(amount) * 100 is off by less than half a unit, which Math.round   *)
(* takes away.                                                              *)
toMinorUnits(amount) == 100 * amount.whole + amount.cents

(* Slip: the fraction is cut off. *)
RoundedDown(n, d) == {n \div d}

(* What rounding n/d to an integer can give, for n \in Nat, d positive. *)
Rounded(n, d) ==
    {k \in {n \div d, n \div d + 1} : 2 * n - d <= 2 * k * d /\ 2 * k * d <= 2 * n + d}

Split(net, tax) == [net |-> net, tax |-> tax, gross |-> net + tax]

(* Slip: net and tax are each rounded on their own. *)
splitTaxApart(minor, rate, inclusive) ==
    IF rate = 0 THEN {Split(minor, 0)}
    ELSE IF inclusive
    THEN {Split(net, tax) : net \in Rounded(100 * minor, 100 + rate),
                            tax \in Rounded(rate * minor, 100 + rate)}
    ELSE {Split(minor, tax) : tax \in Rounded(rate * minor, 100)}

(* Tax is extracted from a tax-inclusive price (minor / (1 + rate/100) is   *)
(* the net) and added to an exclusive one.                                  *)
splitTax(minor, rate, inclusive) ==
    IF rate = 0 THEN {Split(minor, 0)}
    ELSE IF inclusive
    THEN {Split(net, minor - net) : net \in Rounded(100 * minor, 100 + rate)}
    ELSE {Split(minor, tax) : tax \in Rounded(rate * minor, 100)}

(* The platform serves markets that show prices with tax and markets that   *)
(* show them without: what is added to a net amount at a rate is what is    *)
(* extracted from the sum at the same rate, however halves are rounded.     *)
TaxRoundTrips(minor, rate) ==
    \A added \in splitTax(minor, rate, FALSE) :
        \A extracted \in splitTax(added.gross, rate, TRUE) : extracted = added
=============================================================================
