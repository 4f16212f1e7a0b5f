--------------------------- MODULE MCEdgeCapacity ---------------------------
(* Three requests for the two units of mon, each served by either port. *)
EXTENDS EdgeCapacity

CONSTANTS a, b, c, mon

MCRowOf == [r \in Res |-> mon]
MCQty == [r \in Res |-> IF r = a THEN 2 ELSE 1]
MCDailyCapacity == [k \in Rows |-> 2]
=============================================================================
