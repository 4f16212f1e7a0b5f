---------------------------- MODULE EdgeCapacity ----------------------------
(***************************************************************************)
(* The Cloudflare port of the capacity engine beside the original, on one  *)
(* database, as they run while the platform moves over module by module.   *)
(* The port has the same guarded statements, drawn differently into        *)
(* transactions: the row is ensured by a request of its own, committed at  *)
(* once; the hold transaction starts at the guarded UPDATE; a refusal is   *)
(* rolled back.                                                            *)
(***************************************************************************)
EXTENDS Capacity

(* ensureRow has something to insert. *)
Missing(k) == rowStatus[k] = "NONE" /\ \A r \in Res : ~Inserting(r, k)

(* POST /capacity/ensure outside any transaction.  With the row there the   *)
(* insert does nothing.                                                     *)
EdgeEnsure(k) ==
    /\ Missing(k)
    /\ rowStatus' = [rowStatus EXCEPT ![k] = "OPEN"]
    /\ UNCHANGED <<reservedUnits, status, expired, hold, answer,
                   queue, relPc, relId, confIds, confLocked>>

(* Slip: the reservation is granted on the remaining count the client was   *)
(* shown, without the guarded UPDATE.                                       *)
EdgeReserveUnguarded(r) ==
    /\ hold[r] = "idle" /\ status[r] = "NONE"
    /\ rowStatus[RowOf[r]] # "NONE"
    /\ hold' = [hold EXCEPT ![r] = "granted"]
    /\ answer' = [answer EXCEPT ![r] = NoAnswer]
    /\ UNCHANGED <<rowStatus, reservedUnits, status, expired,
                   queue, relPc, relId, confIds, confLocked>>

(* POST /capacity/reserve: BEGIN, for a row id the client already has.  The *)
(* guarded UPDATE and the commit that follow are those of Capacity.         *)
EdgeReserve(r) ==
    /\ hold[r] = "idle" /\ status[r] = "NONE"
    /\ rowStatus[RowOf[r]] # "NONE"
    /\ hold' = [hold EXCEPT ![r] = "ensured"]
    /\ answer' = [answer EXCEPT ![r] = NoAnswer]
    /\ UNCHANGED <<rowStatus, reservedUnits, status, expired,
                   queue, relPc, relId, confIds, confLocked>>

(* A refusal rolls the transaction back and answers 409 with the reason. *)
EdgeRollback(r) ==
    LET k == RowOf[r] IN
    /\ hold[r] = "refused" /\ rowStatus[k] # "NONE"
    /\ hold' = [hold EXCEPT ![r] = "idle"]
    /\ answer' = [answer EXCEPT ![r] =
          IF rowStatus[k] # "OPEN"
          THEN [reason |-> "CAPACITY_LOCKED", remainingUnits |-> 0]
          ELSE [reason |-> "CAPACITY_EXHAUSTED",
                remainingUnits |-> DailyCapacity[k] - reservedUnits[k]]]
    /\ UNCHANGED <<rowStatus, reservedUnits, status, expired,
                   queue, relPc, relId, confIds, confLocked>>

(* The guarded UPDATE of its repository is the original's. *)
EdgeUpdate(r) == Reserve(r) \/ ReserveRefused(r)

(* INSERT of the reservation and COMMIT, or ROLLBACK of what has failed. *)
EdgeCommit(r) == CommitHold(r) \/ AbortHold(r)

(* POST /capacity/release: its own transaction around the original's two    *)
(* statements, for any id a client knows.  No route confirms or sweeps.     *)
EdgeRelease(c) == CallRelease(c) \/ ReleaseStep(c)

EdgeNext ==
    \/ \E k \in Rows : EdgeEnsure(k)
    \/ \E r \in Res : EdgeReserve(r) \/ EdgeRollback(r) \/ EdgeUpdate(r) \/ EdgeCommit(r)
    \/ \E c \in Cancellers : EdgeRelease(c)

BothNext == Next \/ EdgeNext

BothSpec == Init /\ [][BothNext]_vars

=============================================================================
