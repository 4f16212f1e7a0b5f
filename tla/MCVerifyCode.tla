----------------------------- MODULE MCVerifyCode -----------------------------
(* Two devices of a new customer with the right code and two wrong answers   *)
(* to it, and another new customer.                                         *)
EXTENDS VerifyCode

CONSTANTS a1, a2, b1, w1, w2, a, b

MCPhoneOf == [s \in SignIns |-> IF s = b1 THEN b ELSE a]
================================================================================
