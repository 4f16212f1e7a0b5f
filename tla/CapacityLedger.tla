--------------------------- MODULE CapacityLedger ---------------------------
(***************************************************************************)
(* What the capacity engine promises, with no counter, lock or transaction *)
(* in sight.  A capacity row is a (kitchen, variant, production day); a    *)
(* reservation claims its quantity on one row from the moment it is        *)
(* granted until it is released.  What is left to sell is computed from    *)
(* the reservations themselves, so the book cannot disagree with them.     *)
(***************************************************************************)
EXTENDS Integers, FiniteSets

CONSTANTS
    Rows,           \* capacity rows: one per warehouse, variant and production day
    Res,            \* the reservations that may ever be made
    RowOf,          \* the row a reservation is made on
    Qty,            \* the units its hold request asks for
    MaxOrderQty,    \* production rule: the most units one request may ask for
    DailyCapacity   \* the units a row is created with

VARIABLE status     \* status[r]: "NONE" until r is granted

ReservationStatus == {"NONE", "HELD", "CONFIRMED", "RELEASED"}
Active == {"HELD", "CONFIRMED"}

-----------------------------------------------------------------------------
(* The units claimed on row k, one element per unit, under the statuses s. *)
ClaimedBy(s, k) ==
    {c \in Res \X (1..MaxOrderQty) :
        RowOf[c[1]] = k /\ s[c[1]] \in Active /\ c[2] <= Qty[c[1]]}

Sold(k) == Cardinality(ClaimedBy(status, k))

LedgerInit == status = [r \in Res |-> "NONE"]

(* Units are granted only while they are there. *)
LedgerGrant(r) ==
    /\ status[r] = "NONE"
    /\ Sold(RowOf[r]) + Qty[r] <= DailyCapacity[RowOf[r]]
    /\ status' = [status EXCEPT ![r] = "HELD"]

(* Payment turns held reservations into confirmed ones, all at once. *)
LedgerConfirm(S) ==
    /\ \A r \in S : status[r] = "HELD"
    /\ status' = [r \in Res |-> IF r \in S THEN "CONFIRMED" ELSE status[r]]

(* A reservation gives its units back once, and never comes back. *)
LedgerRelease(r) ==
    /\ status[r] \in Active
    /\ status' = [status EXCEPT ![r] = "RELEASED"]

LedgerNext ==
    \/ \E r \in Res : LedgerGrant(r) \/ LedgerRelease(r)
    \/ \E S \in SUBSET Res : LedgerConfirm(S)

LedgerSpec == LedgerInit /\ [][LedgerNext]_status

=============================================================================
