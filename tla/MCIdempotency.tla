---------------------------- MODULE MCIdempotency ----------------------------
(* Requests r1 to r3 carry one key, r3 with another body; r4 is alone with  *)
(* its key.                                                                 *)
EXTENDS Idempotency

CONSTANTS r1, r2, r3, r4, r5, k1, k2

MCKeyOf == [r \in Requests |-> IF r = r4 THEN k2 ELSE k1]
MCBodyOf == [r \in Requests |-> IF r = r3 THEN "other" ELSE "first"]
==============================================================================
