------------------------------ MODULE Capacity ------------------------------
(***************************************************************************)
(* The capacity engine: CapacityService and CapacityRepository over        *)
(* PostgreSQL at READ COMMITTED.                                           *)
(*                                                                         *)
(* Committed rows are in rowStatus, reservedUnits, status and expired.     *)
(* What an open transaction has written is not there yet: it follows from  *)
(* the transaction's program counter and is applied by its Commit action,  *)
(* or forgotten by its Abort action.  A row an open transaction has        *)
(* written is locked; an UPDATE whose WHERE clause holds on the committed  *)
(* row waits for the lock and is evaluated again on what it then finds,    *)
(* and one whose WHERE clause is false on it skips the row without         *)
(* waiting.                                                                *)
(*                                                                         *)
(* A hold request and the reservation it would create are one element of   *)
(* Res: a request that is refused or lost may be sent again, a second      *)
(* request for the same cart line is another element.                      *)
(***************************************************************************)
EXTENDS Integers, FiniteSets

CONSTANTS
    Rows, Res, RowOf, Qty, MaxOrderQty, DailyCapacity,  \* see CapacityLedger
    Workers,        \* worker processes, each sweeping expired holds
    Cancellers,     \* other callers of CapacityService.release
    Orders,         \* callers of confirmForOrder
    SweepLimit      \* the LIMIT of findExpiredHolds

Releasers == Workers \cup Cancellers

ASSUME CapacityAssumption ==
    /\ IsFiniteSet(Res)
    /\ RowOf \in [Res -> Rows]
    /\ MaxOrderQty \in Nat \ {0}
    /\ Qty \in [Res -> 1..MaxOrderQty]
    /\ DailyCapacity \in [Rows -> Nat]
    /\ SweepLimit \in Nat \ {0}
    /\ Workers \cap Cancellers = {}

VARIABLES
    rowStatus,      \* production_capacity.status; "NONE": no such row yet
    reservedUnits,  \* production_capacity.reservedUnits
    status,         \* capacity_reservations.status; "NONE": no such row yet
    expired,        \* reservations whose expiresAt is set and has passed
    hold,           \* where the hold transaction of a request stands
    answer,         \* what the last hold of a request told its caller
    queue,          \* ids a releaser has still to release
    relPc,          \* where its open release transaction stands
    relId,          \* the reservation that transaction releases
    confIds,        \* ids an order's UPDATE has still to visit
    confLocked      \* reservations that UPDATE has written and locked

vars == <<rowStatus, reservedUnits, status, expired, hold, answer,
          queue, relPc, relId, confIds, confLocked>>

CapacityStatus == {"NONE", "OPEN", "LOCKED", "CLOSED"}
ReservationStatus == {"NONE", "HELD", "CONFIRMED", "RELEASED"}
Active == {"HELD", "CONFIRMED"}
Reasons == {"NONE", "OK", "CAPACITY_LOCKED", "CAPACITY_EXHAUSTED"}
NoAnswer == [reason |-> "NONE", remainingUnits |-> 0]

TypeOK ==
    /\ rowStatus \in [Rows -> CapacityStatus]
    /\ reservedUnits \in [Rows -> Nat]
    /\ status \in [Res -> ReservationStatus]
    /\ expired \in SUBSET Res
    /\ hold \in [Res -> {"idle", "ensured", "granted", "refused"}]
    /\ answer \in [Res -> [reason : Reasons, remainingUnits : Int]]
    /\ queue \in [Releasers -> SUBSET Res]
    /\ relPc \in [Releasers -> {"idle", "marked", "decremented"}]
    /\ relId \in [Releasers -> Res \cup {"none"}]
    /\ \A p \in Releasers : relPc[p] # "idle" => relId[p] \in Res
    /\ confIds \in [Orders -> SUBSET Res]
    /\ confLocked \in [Orders -> SUBSET Res]

Init ==
    /\ rowStatus = [k \in Rows |-> "NONE"]
    /\ reservedUnits = [k \in Rows |-> 0]
    /\ status = [r \in Res |-> "NONE"]
    /\ expired = {}
    /\ hold = [r \in Res |-> "idle"]
    /\ answer = [r \in Res |-> NoAnswer]
    /\ queue = [p \in Releasers |-> {}]
    /\ relPc = [p \in Releasers |-> "idle"]
    /\ relId = [p \in Releasers |-> "none"]
    /\ confIds = [o \in Orders |-> {}]
    /\ confLocked = [o \in Orders |-> {}]

-----------------------------------------------------------------------------
(* Row locks, read off the transactions that hold them. *)

HoldsRow(r, k) == hold[r] = "granted" /\ RowOf[r] = k
DecrementsRow(p, k) == relPc[p] = "decremented" /\ RowOf[relId[p]] = k
Inserting(r, k) == hold[r] # "idle" /\ RowOf[r] = k /\ rowStatus[k] = "NONE"

RowFree(k) ==
    /\ \A r \in Res : ~HoldsRow(r, k)
    /\ \A p \in Releasers : ~DecrementsRow(p, k)

ReleasesRes(p, r) == relPc[p] # "idle" /\ relId[p] = r

ResFree(r) ==
    /\ \A p \in Releasers : ~ReleasesRes(p, r)
    /\ \A o \in Orders : r \notin confLocked[o]

-----------------------------------------------------------------------------
(* CapacityService.hold: one transaction, ensureRow; reserve; create. *)

(* The row as the transaction that is creating it sees it. *)
SeenStatus(k) == IF rowStatus[k] = "NONE" THEN "OPEN" ELSE rowStatus[k]

(* Slip: the guarded UPDATE without its status = 'OPEN'. *)
CanReserveAnyStatus(r) ==
    reservedUnits[RowOf[r]] + Qty[r] <= DailyCapacity[RowOf[r]]

CanReserve(r) ==
    /\ SeenStatus(RowOf[r]) = "OPEN"
    /\ reservedUnits[RowOf[r]] + Qty[r] <= DailyCapacity[RowOf[r]]

(* INSERT .. ON CONFLICT DO NOTHING waits for another open transaction that *)
(* is inserting the same key; with nobody inserting it, it inserts the row  *)
(* or finds it.                                                             *)
EnsureRow(r) ==
    /\ hold[r] = "idle" /\ status[r] = "NONE"
    /\ \A q \in Res : ~Inserting(q, RowOf[r])
    /\ hold' = [hold EXCEPT ![r] = "ensured"]
    /\ answer' = [answer EXCEPT ![r] = NoAnswer]
    /\ UNCHANGED <<rowStatus, reservedUnits, status, expired,
                   queue, relPc, relId, confIds, confLocked>>

(* The guarded UPDATE finds room. *)
Reserve(r) ==
    /\ hold[r] = "ensured"
    /\ RowFree(RowOf[r])
    /\ CanReserve(r)
    /\ hold' = [hold EXCEPT ![r] = "granted"]
    /\ UNCHANGED <<rowStatus, reservedUnits, status, expired, answer,
                   queue, relPc, relId, confIds, confLocked>>

(* The guarded UPDATE returns no row. *)
ReserveRefused(r) ==
    /\ hold[r] = "ensured"
    /\ ~CanReserve(r)
    /\ hold' = [hold EXCEPT ![r] = "refused"]
    /\ UNCHANGED <<rowStatus, reservedUnits, status, expired, answer,
                   queue, relPc, relId, confIds, confLocked>>

(* The SELECT that explains a refusal reads the row afresh, then the        *)
(* transaction commits all the same: a row it created stays.                *)
CommitRefusal(r) ==
    LET k == RowOf[r] IN
    /\ hold[r] = "refused"
    /\ hold' = [hold EXCEPT ![r] = "idle"]
    /\ rowStatus' = [rowStatus EXCEPT ![k] = SeenStatus(k)]
    /\ answer' = [answer EXCEPT ![r] =
          IF SeenStatus(k) # "OPEN"
          THEN [reason |-> "CAPACITY_LOCKED", remainingUnits |-> 0]
          ELSE [reason |-> "CAPACITY_EXHAUSTED",
                remainingUnits |-> DailyCapacity[k] - reservedUnits[k]]]
    /\ UNCHANGED <<reservedUnits, status, expired,
                   queue, relPc, relId, confIds, confLocked>>

(* The reservation is inserted, which nothing can contend for, and the      *)
(* transaction commits.                                                     *)
CommitHold(r) ==
    LET k == RowOf[r] IN
    /\ hold[r] = "granted"
    /\ hold' = [hold EXCEPT ![r] = "idle"]
    /\ rowStatus' = [rowStatus EXCEPT ![k] = SeenStatus(k)]
    /\ reservedUnits' = [reservedUnits EXCEPT ![k] = @ + Qty[r]]
    /\ status' = [status EXCEPT ![r] = "HELD"]
    /\ answer' = [answer EXCEPT ![r] =
          [reason |-> "OK",
           remainingUnits |-> DailyCapacity[k] - reservedUnits[k] - Qty[r]]]
    /\ UNCHANGED <<expired, queue, relPc, relId, confIds, confLocked>>

(* A lost connection, a timeout or a crash of the API process. *)
AbortHold(r) ==
    /\ hold[r] # "idle"
    /\ hold' = [hold EXCEPT ![r] = "idle"]
    /\ UNCHANGED <<rowStatus, reservedUnits, status, expired, answer,
                   queue, relPc, relId, confIds, confLocked>>

(* expiresAt passes. *)
Expire(r) ==
    /\ status[r] = "HELD" /\ r \notin expired
    /\ expired' = expired \cup {r}
    /\ UNCHANGED <<rowStatus, reservedUnits, status, hold, answer,
                   queue, relPc, relId, confIds, confLocked>>

-----------------------------------------------------------------------------
(* CapacityService.release and the worker's sweep. *)

ExpiredHolds == {r \in expired : status[r] = "HELD"}

(* findExpiredHolds is a plain SELECT outside any transaction: the ids it   *)
(* returns are acted on one by one later.  Which come first within the      *)
(* LIMIT depends on expiresAt, of which only "passed" is kept.              *)
Sweep(w) ==
    /\ relPc[w] = "idle" /\ queue[w] = {} /\ ExpiredHolds # {}
    /\ \E S \in SUBSET ExpiredHolds :
          /\ \/ Cardinality(S) = SweepLimit
             \/ Cardinality(S) < SweepLimit /\ S = ExpiredHolds
          /\ queue' = [queue EXCEPT ![w] = S]
    /\ UNCHANGED <<rowStatus, reservedUnits, status, expired, hold, answer,
                   relPc, relId, confIds, confLocked>>

(* A cancellation, a duplicate webhook, a retried call: any id that was     *)
(* ever handed out, however often.                                          *)
CallRelease(c) ==
    /\ relPc[c] = "idle" /\ queue[c] = {}
    /\ \E r \in Res : status[r] # "NONE" /\ queue' = [queue EXCEPT ![c] = {r}]
    /\ UNCHANGED <<rowStatus, reservedUnits, status, expired, hold, answer,
                   relPc, relId, confIds, confLocked>>

(* Slips: a release that does not look at the status, and one that has lost *)
(* 'HELD' from its IN list.                                                 *)
ReleasableTwice(r) == status[r] # "NONE"
ReleasableConfirmedOnly(r) == status[r] = "CONFIRMED"

Releasable(r) == status[r] \in Active

(* UPDATE capacity_reservations .. WHERE status IN ('HELD','CONFIRMED'). *)
ReleaseMark(p) ==
    /\ relPc[p] = "idle"
    /\ \E r \in queue[p] :
          /\ Releasable(r) /\ ResFree(r)
          /\ relPc' = [relPc EXCEPT ![p] = "marked"]
          /\ relId' = [relId EXCEPT ![p] = r]
          /\ queue' = [queue EXCEPT ![p] = @ \ {r}]
    /\ UNCHANGED <<rowStatus, reservedUnits, status, expired, hold, answer,
                   confIds, confLocked>>

(* The same UPDATE matches no row: released is false, nothing is written. *)
ReleaseNothing(p) ==
    /\ relPc[p] = "idle"
    /\ \E r \in queue[p] :
          ~Releasable(r) /\ queue' = [queue EXCEPT ![p] = @ \ {r}]
    /\ UNCHANGED <<rowStatus, reservedUnits, status, expired, hold, answer,
                   relPc, relId, confIds, confLocked>>

(* UPDATE production_capacity waits for the row and locks it. *)
ReleaseDecrement(p) ==
    /\ relPc[p] = "marked"
    /\ RowFree(RowOf[relId[p]])
    /\ relPc' = [relPc EXCEPT ![p] = "decremented"]
    /\ UNCHANGED <<rowStatus, reservedUnits, status, expired, hold, answer,
                   queue, relId, confIds, confLocked>>

(* GREATEST(0, reservedUnits - qty). *)
Decremented(k, qty) ==
    IF reservedUnits[k] >= qty THEN reservedUnits[k] - qty ELSE 0

ReleaseCommit(p) ==
    LET r == relId[p]
        k == RowOf[r] IN
    /\ relPc[p] = "decremented"
    /\ relPc' = [relPc EXCEPT ![p] = "idle"]
    /\ relId' = [relId EXCEPT ![p] = "none"]
    /\ status' = [status EXCEPT ![r] = "RELEASED"]
    /\ reservedUnits' = [reservedUnits EXCEPT ![k] = Decremented(k, Qty[r])]
    /\ UNCHANGED <<rowStatus, expired, hold, answer, queue,
                   confIds, confLocked>>

(* The release fails or its process stops: the transaction is rolled back   *)
(* and, the exception ending the tick, the rest of the list is dropped.     *)
AbortRelease(p) ==
    /\ relPc[p] # "idle" \/ queue[p] # {}
    /\ relPc' = [relPc EXCEPT ![p] = "idle"]
    /\ relId' = [relId EXCEPT ![p] = "none"]
    /\ queue' = [queue EXCEPT ![p] = {}]
    /\ UNCHANGED <<rowStatus, reservedUnits, status, expired, hold, answer,
                   confIds, confLocked>>

-----------------------------------------------------------------------------
(* CapacityService.confirmForOrder: one UPDATE over a list of ids, which    *)
(* locks the rows it matches one after the other, in an order of the        *)
(* database's choosing.                                                     *)

CallConfirm(o) ==
    /\ confIds[o] = {} /\ confLocked[o] = {}
    /\ \E S \in SUBSET {r \in Res : status[r] # "NONE"} :
          S # {} /\ confIds' = [confIds EXCEPT ![o] = S]
    /\ UNCHANGED <<rowStatus, reservedUnits, status, expired, hold, answer,
                   queue, relPc, relId, confLocked>>

(* Slip: a payment confirms a reservation that was swept before it came. *)
ConfirmableLate(r) == status[r] \in {"HELD", "RELEASED"}

Confirmable(r) == status[r] = "HELD"

ConfirmRow(o) ==
    /\ \E r \in confIds[o] :
          /\ Confirmable(r) => ResFree(r)
          /\ confIds' = [confIds EXCEPT ![o] = @ \ {r}]
          /\ confLocked' = IF Confirmable(r)
                           THEN [confLocked EXCEPT ![o] = @ \cup {r}]
                           ELSE confLocked
    /\ UNCHANGED <<rowStatus, reservedUnits, status, expired, hold, answer,
                   queue, relPc, relId>>

(* status CONFIRMED, expiresAt NULL. *)
ConfirmCommit(o) ==
    /\ confIds[o] = {} /\ confLocked[o] # {}
    /\ status' = [r \in Res |->
                     IF r \in confLocked[o] THEN "CONFIRMED" ELSE status[r]]
    /\ expired' = expired \ confLocked[o]
    /\ confLocked' = [confLocked EXCEPT ![o] = {}]
    /\ UNCHANGED <<rowStatus, reservedUnits, hold, answer,
                   queue, relPc, relId, confIds>>

(* A crash, a lost connection, or the database breaking a lock cycle. *)
AbortConfirm(o) ==
    /\ confIds[o] # {} \/ confLocked[o] # {}
    /\ confIds' = [confIds EXCEPT ![o] = {}]
    /\ confLocked' = [confLocked EXCEPT ![o] = {}]
    /\ UNCHANGED <<rowStatus, reservedUnits, status, expired, hold, answer,
                   queue, relPc, relId>>

(* The kitchen opens, locks or closes a day: a write the schema allows and  *)
(* no code of the repository makes yet.                                     *)
SetRowStatus(k) ==
    /\ rowStatus[k] # "NONE" /\ RowFree(k)
    /\ \E s \in CapacityStatus \ {"NONE", rowStatus[k]} :
          rowStatus' = [rowStatus EXCEPT ![k] = s]
    /\ UNCHANGED <<reservedUnits, status, expired, hold, answer,
                   queue, relPc, relId, confIds, confLocked>>

-----------------------------------------------------------------------------
HoldStep(r) ==
    \/ EnsureRow(r) \/ Reserve(r) \/ ReserveRefused(r)
    \/ CommitRefusal(r) \/ CommitHold(r) \/ AbortHold(r) \/ Expire(r)

ReleaseStep(p) ==
    \/ ReleaseMark(p) \/ ReleaseNothing(p) \/ ReleaseDecrement(p)
    \/ ReleaseCommit(p) \/ AbortRelease(p)

ConfirmStep(o) ==
    CallConfirm(o) \/ ConfirmRow(o) \/ ConfirmCommit(o) \/ AbortConfirm(o)

Next ==
    \/ \E r \in Res : HoldStep(r)
    \/ \E w \in Workers : Sweep(w)
    \/ \E c \in Cancellers : CallRelease(c)
    \/ \E p \in Releasers : ReleaseStep(p)
    \/ \E o \in Orders : ConfirmStep(o)
    \/ \E k \in Rows : SetRowStatus(k)

Spec == Init /\ [][Next]_vars

(* An UPDATE of which every remaining row is locked by somebody else. *)
ConfirmBlocked(o) ==
    /\ confIds[o] # {}
    /\ \A r \in confIds[o] : Confirmable(r) /\ ~ResFree(r)

(* A tick cut short, as against a last id that there was nothing to release *)
(* of, which leaves the worker in the same state.                           *)
TickFails(w) == AbortRelease(w) /\ ~ReleaseNothing(w)

(* The worker ticks for ever, an open transaction goes on, and the database *)
(* serves the waiters of a lock in turn and breaks the lock cycles of two   *)
(* confirmations.  Any transaction may abort at any time, for ever, but     *)
(* some worker's ticks stop failing.                                        *)
Fairness ==
    /\ \A w \in Workers : WF_vars(Sweep(w))
    /\ \A p \in Releasers :
          /\ SF_vars(ReleaseMark(p))
          /\ WF_vars(ReleaseNothing(p))
          /\ SF_vars(ReleaseDecrement(p))
          /\ WF_vars(ReleaseCommit(p))
    /\ \E w \in Workers : <>[][~TickFails(w)]_vars
    /\ \A r \in Res : WF_vars(CommitHold(r))
    /\ \A o \in Orders :
          /\ WF_vars(ConfirmRow(o))
          /\ WF_vars(ConfirmCommit(o))
          /\ WF_vars(ConfirmBlocked(o) /\ AbortConfirm(o))

FairSpec == Spec /\ Fairness

-----------------------------------------------------------------------------
(* Properties. *)

(* The units claimed on row k by the reservations that are HELD or          *)
(* CONFIRMED, one element per unit.                                         *)
Claimed(k) ==
    {c \in Res \X (1..MaxOrderQty) :
        RowOf[c[1]] = k /\ status[c[1]] \in Active /\ c[2] <= Qty[c[1]]}

(* The column reservedUnits says exactly what the reservations of the row   *)
(* add up to, whatever order holds, confirmations, cancellations, sweeps    *)
(* and crashes of them came in: no unit is lost and none is returned twice. *)
Conservation == \A k \in Rows : reservedUnits[k] = Cardinality(Claimed(k))

(* A day is never sold beyond its capacity, however many requests reach for *)
(* its last units at once.  Stated of the reservations, not of the column.  *)
NeverOversold == \A k \in Rows : Cardinality(Claimed(k)) <= DailyCapacity[k]

(* A day the kitchen has locked or closed takes no new unit, not even from  *)
(* a hold that had already been granted room when the day was locked.       *)
LockedDaySellsNothing ==
    [][\A k \in Rows : rowStatus[k] \in {"LOCKED", "CLOSED"} =>
          reservedUnits'[k] <= reservedUnits[k]]_vars

(* A reservation whose time has run out does not keep its units for ever:   *)
(* the worker gives them back, or a payment confirms them, though workers   *)
(* crash, ticks are cut short and the list they work from grows stale.      *)
ExpiredHoldsSettle ==
    \A r \in Res :
        (status[r] = "HELD" /\ r \in expired)
            ~> status[r] \in {"CONFIRMED", "RELEASED"}

(* Every step of the engine is a step of the ledger or changes nothing of   *)
(* it: the guard on a counter behaves like a guard on the reservations.     *)
Ledger == INSTANCE CapacityLedger WITH status <- status
ImplementsLedger == Ledger!LedgerSpec

(* "A HELD row past this is swept by the worker": the sweep releases only   *)
(* reservations that are still HELD when it releases them.                  *)
SweepReleasesOnlyHeld ==
    [][\A w \in Workers : ReleaseCommit(w) => status[relId[w]] = "HELD"]_vars
=============================================================================
