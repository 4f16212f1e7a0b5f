----------------------------- MODULE MCOtpRequest -----------------------------
(* Two requests at once for one number, that differ in nothing but their   *)
(* names, and one for another number from the same address.                *)
EXTENDS OtpRequest, TLC

CONSTANTS r1, r2, other, mine, yours

MCPhoneOf == [r \in Requests |-> IF r = other THEN yours ELSE mine]
MCIpOf == [r \in Requests |-> CHOOSE i \in Ips : TRUE]
MCSymmetry == Permutations({r1, r2})
===============================================================================
