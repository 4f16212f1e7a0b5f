----------------------------- MODULE MCCapacity -----------------------------
(* Capacity on small instances: requests a (two units), b and c (one each)  *)
(* compete for the two units of mon; d is alone on tue.                     *)
EXTENDS Capacity

CONSTANTS a, b, c, d, mon, tue

MCRowOf == [r \in Res |-> IF r = d THEN tue ELSE mon]
MCQty == [r \in Res |-> IF r = a THEN 2 ELSE 1]
MCDailyCapacity == [k \in Rows |-> IF k = mon THEN 2 ELSE 1]
=============================================================================
