--------------------------- MODULE Capacity_proofs --------------------------
(* Theorems about the capacity engine, alone and with its second port beside *)
(* it, for every set of rows, reservations, workers, callers and orders,     *)
(* every quantity and every capacity.                                        *)
EXTENDS EdgeCapacity, FiniteSetTheorems, TLAPS

-----------------------------------------------------------------------------
(* The inductive invariant of the engine. *)

(* No two open transactions have written the same row. *)
LocksExclusive ==
    /\ \A r, q \in Res :
          r # q /\ hold[r] = "granted" /\ hold[q] = "granted"
              => RowOf[r] # RowOf[q]
    /\ \A r \in Res, p \in Releasers :
          hold[r] = "granted" /\ relPc[p] = "decremented"
              => RowOf[r] # RowOf[relId[p]]
    /\ \A p, q \in Releasers :
          p # q /\ relPc[p] = "decremented" /\ relPc[q] = "decremented"
              => RowOf[relId[p]] # RowOf[relId[q]]
    /\ \A p, q \in Releasers :
          p # q /\ relPc[p] # "idle" /\ relPc[q] # "idle"
              => relId[p] # relId[q]
    /\ \A p \in Releasers, o \in Orders :
          relPc[p] # "idle" => relId[p] \notin confLocked[o]
    /\ \A o, u \in Orders :
          o # u => confLocked[o] \cap confLocked[u] = {}

(* What an open transaction found when it took its locks is still so. *)
PendingSound ==
    /\ \A r \in Res : hold[r] # "idle" => status[r] = "NONE"
    /\ \A r \in Res : hold[r] = "granted" => CanReserve(r)
    /\ \A p \in Releasers : relPc[p] # "idle" => status[relId[p]] \in Active
    /\ \A o \in Orders : \A r \in confLocked[o] : status[r] = "HELD"

RowsWithinCapacity == \A k \in Rows : reservedUnits[k] <= DailyCapacity[k]

IInv ==
    /\ TypeOK
    /\ LocksExclusive
    /\ PendingSound
    /\ Conservation
    /\ RowsWithinCapacity

-----------------------------------------------------------------------------
(* Every variable keeps its type. *)
LEMMA TypeInit == Init => TypeOK
  BY CapacityAssumption DEF Init, TypeOK, CapacityStatus, ReservationStatus, Reasons, NoAnswer

(* Every step of the engine keeps the types.                                *)
LEMMA TypeStep == TypeOK /\ [Next]_vars => TypeOK'
<1> SUFFICES ASSUME TypeOK, [Next]_vars PROVE TypeOK'
  OBVIOUS
<1> USE CapacityAssumption DEF TypeOK
<1>1. ASSUME NEW r \in Res, HoldStep(r) PROVE TypeOK'
  <2>1. CASE EnsureRow(r)
    BY <2>1 DEF EnsureRow, NoAnswer, Reasons
  <2>2. CASE Reserve(r)
    BY <2>2 DEF Reserve
  <2>3. CASE ReserveRefused(r)
    BY <2>3 DEF ReserveRefused
  <2>4. CASE CommitRefusal(r)
    BY <2>4 DEF CommitRefusal, SeenStatus, CapacityStatus, Reasons
  <2>5. CASE CommitHold(r)
    BY <2>5 DEF CommitHold, SeenStatus, CapacityStatus, ReservationStatus, Reasons
  <2>6. CASE AbortHold(r)
    BY <2>6 DEF AbortHold
  <2>7. CASE Expire(r)
    BY <2>7 DEF Expire
  <2>8. QED
    BY <1>1, <2>1, <2>2, <2>3, <2>4, <2>5, <2>6, <2>7 DEF HoldStep
<1>2. ASSUME NEW w \in Workers, Sweep(w) PROVE TypeOK'
  BY <1>2 DEF Sweep, ExpiredHolds, Releasers
<1>3. ASSUME NEW c \in Cancellers, CallRelease(c) PROVE TypeOK'
  BY <1>3 DEF CallRelease, Releasers
<1>4. ASSUME NEW p \in Releasers, ReleaseStep(p) PROVE TypeOK'
  <2>1. CASE ReleaseMark(p)
    BY <2>1 DEF ReleaseMark
  <2>2. CASE ReleaseNothing(p)
    BY <2>2 DEF ReleaseNothing
  <2>3. CASE ReleaseDecrement(p)
    BY <2>3 DEF ReleaseDecrement
  <2>4. CASE ReleaseCommit(p)
    BY <2>4 DEF ReleaseCommit, Decremented, ReservationStatus
  <2>5. CASE AbortRelease(p)
    BY <2>5 DEF AbortRelease
  <2>6. QED
    BY <1>4, <2>1, <2>2, <2>3, <2>4, <2>5 DEF ReleaseStep
<1>5. ASSUME NEW o \in Orders, ConfirmStep(o) PROVE TypeOK'
  <2>1. CASE CallConfirm(o)
    BY <2>1 DEF CallConfirm
  <2>2. CASE ConfirmRow(o)
    BY <2>2 DEF ConfirmRow
  <2>3. CASE ConfirmCommit(o)
    BY <2>3 DEF ConfirmCommit, ReservationStatus
  <2>4. CASE AbortConfirm(o)
    BY <2>4 DEF AbortConfirm
  <2>5. QED
    BY <1>5, <2>1, <2>2, <2>3, <2>4 DEF ConfirmStep
<1>6. ASSUME NEW k \in Rows, SetRowStatus(k) PROVE TypeOK'
  BY <1>6 DEF SetRowStatus, CapacityStatus
<1>7. CASE UNCHANGED vars
  BY <1>7 DEF vars
<1>8. QED
  BY <1>1, <1>2, <1>3, <1>4, <1>5, <1>6, <1>7 DEF Next

(* Every variable of the engine keeps its type, whatever transactions do.   *)
THEOREM TypeCorrect == Spec => []TypeOK
  BY TypeInit, TypeStep, PTL DEF Spec

-----------------------------------------------------------------------------
(* Counting units.  A reservation's units are a column of the product       *)
(* Res \X (1..MaxOrderQty).                                                 *)

Units(r) == {r} \X (1..Qty[r])

(* A reservation claims as many units as its quantity.                      *)
LEMMA UnitsCount ==
  ASSUME NEW r \in Res
  PROVE  IsFiniteSet(Units(r)) /\ Cardinality(Units(r)) = Qty[r]
<1>1. Qty[r] \in Nat /\ Qty[r] >= 1
  BY CapacityAssumption
<1>2. IsFiniteSet(1..Qty[r]) /\ Cardinality(1..Qty[r]) = Qty[r]
  BY <1>1, FS_Interval
<1>3. IsFiniteSet({r}) /\ Cardinality({r}) = 1
  BY FS_Singleton
<1>4. /\ IsFiniteSet({r} \X (1..Qty[r]))
      /\ Cardinality({r} \X (1..Qty[r])) = 1 * Qty[r]
  BY <1>2, <1>3, FS_Product
<1>5. QED
  BY <1>1, <1>4 DEF Units

(* A day has finitely many units claimed, so they can be counted.           *)
LEMMA ClaimedCount ==
  ASSUME NEW k \in Rows
  PROVE  IsFiniteSet(Claimed(k)) /\ Cardinality(Claimed(k)) \in Nat
<1>1. IsFiniteSet(1..MaxOrderQty)
  BY CapacityAssumption, FS_Interval
<1>2. IsFiniteSet(Res \X (1..MaxOrderQty))
  BY <1>1, CapacityAssumption, FS_Product
<1>3. Claimed(k) \in SUBSET (Res \X (1..MaxOrderQty))
  BY DEF Claimed
<1>4. QED
  BY <1>2, <1>3, FS_Subset, FS_CardinalityType

(* A reservation that becomes active adds exactly its units. *)
LEMMA ClaimGrows ==
  ASSUME TypeOK, NEW r \in Res, status[r] \notin Active,
         status'[r] \in Active,
         \A q \in Res \ {r} : status'[q] = status[q],
         NEW k \in Rows
  PROVE  Cardinality(Claimed(k)') =
            Cardinality(Claimed(k)) + IF RowOf[r] = k THEN Qty[r] ELSE 0
<1> USE CapacityAssumption
<1>1. CASE RowOf[r] = k
  <2>1. Claimed(k)' = Claimed(k) \cup Units(r)
    BY <1>1 DEF Claimed, Units
  <2>2. Claimed(k) \cap Units(r) = {}
    BY DEF Claimed, Units
  <2>3. Cardinality(Claimed(k)') =
           Cardinality(Claimed(k)) + Cardinality(Units(r)) - Cardinality({})
    BY <2>1, <2>2, UnitsCount, ClaimedCount, FS_Union
  <2>4. QED
    BY <1>1, <2>3, UnitsCount, ClaimedCount, FS_EmptySet
<1>2. CASE RowOf[r] # k
  <2>1. Claimed(k)' = Claimed(k)
    BY <1>2 DEF Claimed
  <2>2. QED
    BY <1>2, <2>1, ClaimedCount
<1>3. QED
  BY <1>1, <1>2

(* A reservation that ceases to be active takes exactly its units away. *)
LEMMA ClaimShrinks ==
  ASSUME TypeOK, NEW r \in Res, status[r] \in Active,
         status'[r] \notin Active,
         \A q \in Res \ {r} : status'[q] = status[q],
         NEW k \in Rows
  PROVE  /\ Cardinality(Claimed(k)) =
            Cardinality(Claimed(k)') + IF RowOf[r] = k THEN Qty[r] ELSE 0
         /\ Cardinality(Claimed(k)') \in Nat
<1> USE CapacityAssumption
<1>0. Claimed(k)' \subseteq Claimed(k)
  BY DEF Claimed
<1>a. IsFiniteSet(Claimed(k)') /\ Cardinality(Claimed(k)') \in Nat
  BY <1>0, ClaimedCount, FS_Subset, FS_CardinalityType
<1>1. CASE RowOf[r] = k
  <2>1. Claimed(k) = Claimed(k)' \cup Units(r)
    BY <1>1 DEF Claimed, Units
  <2>2. Claimed(k)' \cap Units(r) = {}
    BY DEF Claimed, Units
  <2>3. Cardinality(Claimed(k)) =
           Cardinality(Claimed(k)') + Cardinality(Units(r)) - Cardinality({})
    BY <1>a, <2>1, <2>2, UnitsCount, FS_Union
  <2>4. QED
    BY <1>1, <1>a, <2>3, UnitsCount, FS_EmptySet
<1>2. CASE RowOf[r] # k
  <2>1. Claimed(k)' = Claimed(k)
    BY <1>2 DEF Claimed
  <2>2. QED
    BY <1>2, <1>a, <2>1
<1>3. QED
  BY <1>1, <1>2, <1>a

(* The claim on a row depends only on which reservations are active. *)
LEMMA ClaimStays ==
  ASSUME \A q \in Res : status'[q] \in Active <=> status[q] \in Active,
         NEW k \in Rows
  PROVE  Claimed(k)' = Claimed(k)
  BY DEF Claimed

-----------------------------------------------------------------------------
(* The invariant. *)

(* Before the first request nothing is locked and nothing is sold.          *)
LEMMA InvInit == Init => IInv
<1> SUFFICES ASSUME Init PROVE IInv
  OBVIOUS
<1>1. TypeOK
  BY TypeInit
<1>2. LocksExclusive
  BY DEF Init, LocksExclusive
<1>3. PendingSound
  BY DEF Init, PendingSound
<1>4. Conservation
  <2>1. ASSUME NEW k \in Rows PROVE Claimed(k) = {}
    BY DEF Init, Claimed, Active
  <2>2. QED
    BY <2>1, FS_EmptySet DEF Conservation, Init
<1>5. RowsWithinCapacity
  BY CapacityAssumption DEF Init, RowsWithinCapacity
<1>6. QED
  BY <1>1, <1>2, <1>3, <1>4, <1>5 DEF IInv

(* A step that touches neither a committed row nor a lock already taken. *)
LEMMA QuietStep ==
  ASSUME IInv, TypeOK',
         UNCHANGED <<reservedUnits, status>>,
         LocksExclusive', PendingSound'
  PROVE  IInv'
<1>1. Conservation'
  BY ClaimStays DEF IInv, Conservation
<1>2. RowsWithinCapacity'
  BY DEF IInv, RowsWithinCapacity
<1>3. QED
  BY <1>1, <1>2 DEF IInv

(* The statements of a hold keep the invariant.                             *)
LEMMA HoldInv ==
  ASSUME IInv, TypeOK', NEW r \in Res, HoldStep(r)
  PROVE  IInv'
<1> USE CapacityAssumption
<1>0. TypeOK /\ LocksExclusive /\ PendingSound /\ Conservation /\ RowsWithinCapacity
  BY DEF IInv
<1>1. CASE EnsureRow(r)
  <2>1. LocksExclusive'
    BY <1>0, <1>1 DEF EnsureRow, TypeOK, LocksExclusive
  <2>2. PendingSound'
    BY <1>0, <1>1 DEF EnsureRow, TypeOK, PendingSound, CanReserve, SeenStatus
  <2>3. QED
    BY <1>1, <2>1, <2>2, QuietStep DEF EnsureRow
<1>2. CASE Reserve(r)
  <2>1. LocksExclusive'
    BY <1>0, <1>2 DEF Reserve, RowFree, HoldsRow, DecrementsRow, TypeOK, LocksExclusive
  <2>2. PendingSound'
    BY <1>0, <1>2 DEF Reserve, TypeOK, PendingSound, CanReserve, SeenStatus
  <2>3. QED
    BY <1>2, <2>1, <2>2, QuietStep DEF Reserve
<1>3. CASE ReserveRefused(r)
  <2>1. LocksExclusive'
    BY <1>0, <1>3 DEF ReserveRefused, TypeOK, LocksExclusive
  <2>2. PendingSound'
    BY <1>0, <1>3 DEF ReserveRefused, TypeOK, PendingSound, CanReserve, SeenStatus
  <2>3. QED
    BY <1>3, <2>1, <2>2, QuietStep DEF ReserveRefused
<1>4. CASE CommitRefusal(r)
  <2>1. LocksExclusive'
    BY <1>0, <1>4 DEF CommitRefusal, TypeOK, LocksExclusive
  <2>2. PendingSound'
    BY <1>0, <1>4 DEF CommitRefusal, TypeOK, PendingSound, CanReserve, SeenStatus
  <2>3. QED
    BY <1>4, <2>1, <2>2, QuietStep DEF CommitRefusal
<1>5. CASE CommitHold(r)
  <2>1. LocksExclusive'
    BY <1>0, <1>5 DEF CommitHold, TypeOK, LocksExclusive
  <2>2. CanReserve(r) /\ status[r] = "NONE"
    BY <1>0, <1>5 DEF CommitHold, PendingSound
  <2>3. PendingSound'
    <3>1. \A q \in Res : (hold[q] # "idle")' => (status[q] = "NONE")'
      BY <1>0, <1>5 DEF CommitHold, TypeOK, PendingSound
    <3>2. ASSUME NEW q \in Res, (hold[q] = "granted")' PROVE CanReserve(q)'
      <4>1. q # r /\ hold[q] = "granted" /\ RowOf[q] # RowOf[r]
        BY <1>0, <1>5, <3>2 DEF CommitHold, TypeOK, LocksExclusive
      <4>2. CanReserve(q)
        BY <1>0, <4>1 DEF PendingSound
      <4>3. QED
        BY <1>0, <1>5, <4>1, <4>2 DEF CommitHold, TypeOK, CanReserve, SeenStatus
    <3>3. \A p \in Releasers : (relPc[p] # "idle")' => (status[relId[p]] \in Active)'
      BY <1>0, <1>5 DEF CommitHold, TypeOK, PendingSound, Active
    <3>4. \A o \in Orders : \A q \in confLocked'[o] : status'[q] = "HELD"
      BY <1>0, <1>5 DEF CommitHold, TypeOK, PendingSound
    <3>5. QED
      BY <3>1, <3>2, <3>3, <3>4 DEF PendingSound
  <2>4. Conservation'
    <3> SUFFICES ASSUME NEW k \in Rows
                 PROVE  reservedUnits'[k] = Cardinality(Claimed(k)')
      BY DEF Conservation
    <3>1. /\ status[r] \notin Active
          /\ status'[r] \in Active
          /\ \A q \in Res \ {r} : status'[q] = status[q]
      BY <1>0, <1>5, <2>2 DEF CommitHold, TypeOK, Active
    <3>2. Cardinality(Claimed(k)') =
             Cardinality(Claimed(k)) + IF RowOf[r] = k THEN Qty[r] ELSE 0
      BY <1>0, <3>1, ClaimGrows
    <3>3. reservedUnits[k] = Cardinality(Claimed(k)) /\ reservedUnits[k] \in Nat
      BY <1>0 DEF Conservation, TypeOK
    <3>4. reservedUnits'[k] =
             IF RowOf[r] = k THEN reservedUnits[k] + Qty[r] ELSE reservedUnits[k]
      BY <1>0, <1>5 DEF CommitHold, TypeOK
    <3>5. QED
      BY <3>2, <3>3, <3>4
  <2>5. RowsWithinCapacity'
    BY <1>0, <1>5, <2>2 DEF CommitHold, CanReserve, TypeOK, RowsWithinCapacity
  <2>6. QED
    BY <2>1, <2>3, <2>4, <2>5 DEF IInv
<1>6. CASE AbortHold(r)
  <2>1. LocksExclusive'
    BY <1>0, <1>6 DEF AbortHold, TypeOK, LocksExclusive
  <2>2. PendingSound'
    BY <1>0, <1>6 DEF AbortHold, TypeOK, PendingSound, CanReserve, SeenStatus
  <2>3. QED
    BY <1>6, <2>1, <2>2, QuietStep DEF AbortHold
<1>7. CASE Expire(r)
  <2>1. LocksExclusive'
    BY <1>0, <1>7 DEF Expire, LocksExclusive
  <2>2. PendingSound'
    BY <1>0, <1>7 DEF Expire, PendingSound, CanReserve, SeenStatus
  <2>3. QED
    BY <1>7, <2>1, <2>2, QuietStep DEF Expire
<1>8. QED
  BY <1>1, <1>2, <1>3, <1>4, <1>5, <1>6, <1>7 DEF HoldStep

(* So do those of a release.                                                *)
LEMMA ReleaseInv ==
  ASSUME IInv, TypeOK', NEW p \in Releasers, ReleaseStep(p)
  PROVE  IInv'
<1> USE CapacityAssumption
<1>0. TypeOK /\ LocksExclusive /\ PendingSound /\ Conservation /\ RowsWithinCapacity
  BY DEF IInv
<1>1. CASE ReleaseMark(p)
  <2> PICK r \in queue[p] :
        /\ Releasable(r) /\ ResFree(r)
        /\ relPc' = [relPc EXCEPT ![p] = "marked"]
        /\ relId' = [relId EXCEPT ![p] = r]
        /\ queue' = [queue EXCEPT ![p] = @ \ {r}]
    BY <1>1 DEF ReleaseMark
  <2>0. UNCHANGED <<rowStatus, reservedUnits, status, hold, confLocked>> /\ relPc[p] = "idle"
    BY <1>1 DEF ReleaseMark
  <2>1. LocksExclusive'
    BY <1>0, <2>0 DEF ResFree, ReleasesRes, TypeOK, LocksExclusive
  <2>2. PendingSound'
    BY <1>0, <2>0 DEF Releasable, TypeOK, PendingSound, CanReserve, SeenStatus
  <2>3. QED
    BY <2>0, <2>1, <2>2, QuietStep
<1>2. CASE ReleaseNothing(p)
  <2>1. LocksExclusive'
    BY <1>0, <1>2 DEF ReleaseNothing, LocksExclusive
  <2>2. PendingSound'
    BY <1>0, <1>2 DEF ReleaseNothing, PendingSound, CanReserve, SeenStatus
  <2>3. QED
    BY <1>2, <2>1, <2>2, QuietStep DEF ReleaseNothing
<1>3. CASE ReleaseDecrement(p)
  <2>1. LocksExclusive'
    BY <1>0, <1>3 DEF ReleaseDecrement, RowFree, HoldsRow, DecrementsRow, TypeOK, LocksExclusive
  <2>2. PendingSound'
    BY <1>0, <1>3 DEF ReleaseDecrement, TypeOK, PendingSound, CanReserve, SeenStatus
  <2>3. QED
    BY <1>3, <2>1, <2>2, QuietStep DEF ReleaseDecrement
<1>4. CASE ReleaseCommit(p)
  <2> DEFINE r == relId[p]
  <2>1. /\ r \in Res
        /\ status[r] \in Active
        /\ status' = [status EXCEPT ![r] = "RELEASED"]
        /\ reservedUnits' = [reservedUnits EXCEPT ![RowOf[r]] = Decremented(RowOf[r], Qty[r])]
    BY <1>0, <1>4 DEF ReleaseCommit, TypeOK, PendingSound
  <2>2. LocksExclusive'
    BY <1>0, <1>4 DEF ReleaseCommit, TypeOK, LocksExclusive
  <2>3. Conservation' /\ reservedUnits[RowOf[r]] >= Qty[r]
    <3>1. /\ status'[r] \notin Active
          /\ \A q \in Res \ {r} : status'[q] = status[q]
      BY <1>0, <2>1 DEF TypeOK, Active
    <3>2. \A k \in Rows :
             /\ Cardinality(Claimed(k)) =
                Cardinality(Claimed(k)') + IF RowOf[r] = k THEN Qty[r] ELSE 0
             /\ Cardinality(Claimed(k)') \in Nat
      BY <1>0, <2>1, <3>1, ClaimShrinks
    <3>3. \A k \in Rows : reservedUnits[k] = Cardinality(Claimed(k)) /\ reservedUnits[k] \in Nat
      BY <1>0 DEF Conservation, TypeOK
    <3>4. reservedUnits[RowOf[r]] >= Qty[r]
      BY <2>1, <3>2, <3>3
    <3>5. ASSUME NEW k \in Rows
          PROVE  reservedUnits'[k] =
                   IF RowOf[r] = k THEN reservedUnits[k] - Qty[r] ELSE reservedUnits[k]
      BY <1>0, <2>1, <3>4 DEF Decremented, TypeOK
    <3>6. QED
      BY <2>1, <3>2, <3>3, <3>4, <3>5 DEF Conservation
  <2>4. PendingSound'
    <3>1. \A q \in Res : (hold[q] # "idle")' => (status[q] = "NONE")'
      BY <1>0, <1>4, <2>1 DEF ReleaseCommit, TypeOK, PendingSound, Active
    <3>2. ASSUME NEW q \in Res, (hold[q] = "granted")' PROVE CanReserve(q)'
      BY <1>0, <1>4, <2>1, <3>2 DEF ReleaseCommit, TypeOK, LocksExclusive, PendingSound,
                                    CanReserve, SeenStatus
    <3>3. ASSUME NEW q \in Releasers, (relPc[q] # "idle")'
          PROVE  status'[relId'[q]] \in Active
      <4>1. q # p /\ relPc[q] # "idle" /\ relId'[q] = relId[q] /\ relId[q] # r
        BY <1>0, <1>4, <3>3 DEF ReleaseCommit, TypeOK, LocksExclusive
      <4>2. QED
        BY <1>0, <2>1, <4>1 DEF TypeOK, PendingSound
    <3>4. \A o \in Orders : \A q \in confLocked'[o] : status'[q] = "HELD"
      BY <1>0, <1>4, <2>1 DEF ReleaseCommit, TypeOK, LocksExclusive, PendingSound
    <3>5. QED
      BY <3>1, <3>2, <3>3, <3>4 DEF PendingSound
  <2>5. RowsWithinCapacity'
    BY <1>0, <2>1, <2>3 DEF Decremented, TypeOK, RowsWithinCapacity
  <2>6. QED
    BY <2>2, <2>3, <2>4, <2>5 DEF IInv
<1>5. CASE AbortRelease(p)
  <2>1. LocksExclusive'
    BY <1>0, <1>5 DEF AbortRelease, TypeOK, LocksExclusive
  <2>2. PendingSound'
    BY <1>0, <1>5 DEF AbortRelease, TypeOK, PendingSound, CanReserve, SeenStatus
  <2>3. QED
    BY <1>5, <2>1, <2>2, QuietStep DEF AbortRelease
<1>6. QED
  BY <1>1, <1>2, <1>3, <1>4, <1>5 DEF ReleaseStep

(* And those of a confirmation.                                             *)
LEMMA ConfirmInv ==
  ASSUME IInv, TypeOK', NEW o \in Orders, ConfirmStep(o)
  PROVE  IInv'
<1> USE CapacityAssumption
<1>0. TypeOK /\ LocksExclusive /\ PendingSound /\ Conservation /\ RowsWithinCapacity
  BY DEF IInv
<1>1. CASE CallConfirm(o)
  <2>1. LocksExclusive'
    BY <1>0, <1>1 DEF CallConfirm, LocksExclusive
  <2>2. PendingSound'
    BY <1>0, <1>1 DEF CallConfirm, PendingSound, CanReserve, SeenStatus
  <2>3. QED
    BY <1>1, <2>1, <2>2, QuietStep DEF CallConfirm
<1>2. CASE ConfirmRow(o)
  <2> PICK r \in confIds[o] :
        /\ Confirmable(r) => ResFree(r)
        /\ confLocked' = IF Confirmable(r)
                         THEN [confLocked EXCEPT ![o] = @ \cup {r}]
                         ELSE confLocked
    BY <1>2 DEF ConfirmRow
  <2>0. UNCHANGED <<rowStatus, reservedUnits, status, hold, relPc, relId>>
    BY <1>2 DEF ConfirmRow
  <2>1. LocksExclusive'
    <3>1. CASE Confirmable(r)
      BY <1>0, <2>0, <3>1 DEF ResFree, ReleasesRes, TypeOK, LocksExclusive
    <3>2. CASE ~Confirmable(r)
      BY <1>0, <2>0, <3>2 DEF LocksExclusive
    <3>3. QED
      BY <3>1, <3>2
  <2>2. PendingSound'
    BY <1>0, <2>0 DEF Confirmable, TypeOK, PendingSound, CanReserve, SeenStatus
  <2>3. QED
    BY <2>0, <2>1, <2>2, QuietStep
<1>3. CASE ConfirmCommit(o)
  <2>1. /\ \A r \in confLocked[o] : r \in Res /\ status[r] = "HELD" /\ status'[r] = "CONFIRMED"
        /\ \A r \in Res \ confLocked[o] : status'[r] = status[r]
        /\ confLocked' = [confLocked EXCEPT ![o] = {}]
        /\ UNCHANGED <<rowStatus, reservedUnits, hold, relPc, relId>>
    BY <1>0, <1>3 DEF ConfirmCommit, TypeOK, PendingSound
  <2>2. LocksExclusive'
    BY <1>0, <2>1 DEF TypeOK, LocksExclusive
  <2>3. PendingSound'
    <3>1. \A q \in Res : (hold[q] # "idle")' => (status[q] = "NONE")'
      BY <1>0, <2>1 DEF TypeOK, PendingSound
    <3>2. \A q \in Res : (hold[q] = "granted")' => CanReserve(q)'
      BY <1>0, <2>1 DEF PendingSound, CanReserve, SeenStatus
    <3>3. \A p \in Releasers : (relPc[p] # "idle")' => (status[relId[p]] \in Active)'
      BY <1>0, <2>1 DEF TypeOK, LocksExclusive, PendingSound
    <3>4. \A u \in Orders : \A q \in confLocked'[u] : status'[q] = "HELD"
      BY <1>0, <2>1 DEF TypeOK, LocksExclusive, PendingSound
    <3>5. QED
      BY <3>1, <3>2, <3>3, <3>4 DEF PendingSound
  <2>4. \A q \in Res : status'[q] \in Active <=> status[q] \in Active
    BY <2>1 DEF Active
  <2>5. Conservation'
    BY <1>0, <2>1, <2>4, ClaimStays DEF Conservation
  <2>6. RowsWithinCapacity'
    BY <1>0, <2>1 DEF RowsWithinCapacity
  <2>7. QED
    BY <2>2, <2>3, <2>5, <2>6 DEF IInv
<1>4. CASE AbortConfirm(o)
  <2>1. LocksExclusive'
    BY <1>0, <1>4 DEF AbortConfirm, TypeOK, LocksExclusive
  <2>2. PendingSound'
    BY <1>0, <1>4 DEF AbortConfirm, TypeOK, PendingSound, CanReserve, SeenStatus
  <2>3. QED
    BY <1>4, <2>1, <2>2, QuietStep DEF AbortConfirm
<1>5. QED
  BY <1>1, <1>2, <1>3, <1>4 DEF ConfirmStep

(* Every step keeps the invariant.                                          *)
LEMMA InvStep == IInv /\ [Next]_vars => IInv'
<1> SUFFICES ASSUME IInv, [Next]_vars PROVE IInv'
  OBVIOUS
<1> USE CapacityAssumption
<1>0. TypeOK' /\ TypeOK /\ LocksExclusive /\ PendingSound
  BY TypeStep DEF IInv
<1>1. ASSUME NEW r \in Res, HoldStep(r) PROVE IInv'
  BY <1>0, <1>1, HoldInv
<1>2. ASSUME NEW w \in Workers, Sweep(w) PROVE IInv'
  <2>1. UNCHANGED <<rowStatus, reservedUnits, status, hold, relPc, relId, confLocked>>
    BY <1>2 DEF Sweep
  <2>2. LocksExclusive' /\ PendingSound'
    BY <1>0, <2>1 DEF LocksExclusive, PendingSound, CanReserve, SeenStatus
  <2>3. QED
    BY <1>0, <2>1, <2>2, QuietStep
<1>3. ASSUME NEW c \in Cancellers, CallRelease(c) PROVE IInv'
  <2>1. UNCHANGED <<rowStatus, reservedUnits, status, hold, relPc, relId, confLocked>>
    BY <1>3 DEF CallRelease
  <2>2. LocksExclusive' /\ PendingSound'
    BY <1>0, <2>1 DEF LocksExclusive, PendingSound, CanReserve, SeenStatus
  <2>3. QED
    BY <1>0, <2>1, <2>2, QuietStep
<1>4. ASSUME NEW p \in Releasers, ReleaseStep(p) PROVE IInv'
  BY <1>0, <1>4, ReleaseInv
<1>5. ASSUME NEW o \in Orders, ConfirmStep(o) PROVE IInv'
  BY <1>0, <1>5, ConfirmInv
<1>6. ASSUME NEW k \in Rows, SetRowStatus(k) PROVE IInv'
  <2>1. LocksExclusive'
    BY <1>0, <1>6 DEF SetRowStatus, LocksExclusive
  <2>2. PendingSound'
    BY <1>0, <1>6 DEF SetRowStatus, RowFree, HoldsRow, TypeOK, PendingSound, CanReserve, SeenStatus
  <2>3. QED
    BY <1>0, <1>6, <2>1, <2>2, QuietStep DEF SetRowStatus
<1>7. CASE UNCHANGED vars
  <2>1. LocksExclusive' /\ PendingSound'
    BY <1>0, <1>7 DEF vars, LocksExclusive, PendingSound, CanReserve, SeenStatus
  <2>2. QED
    BY <1>0, <1>7, <2>1, QuietStep DEF vars
<1>8. QED
  BY <1>1, <1>2, <1>3, <1>4, <1>5, <1>6, <1>7 DEF Next

(* The locks, what open transactions rely on, and the two halves of the     *)
(* book, kept together by every step.                                       *)
THEOREM InvariantHolds == Spec => []IInv
  BY InvInit, InvStep, PTL DEF Spec

(* No unit is lost and none is returned twice: the counter is the sum of    *)
(* the reservations at every moment.                                        *)
THEOREM ConservationHolds == Spec => []Conservation
<1>1. IInv => Conservation
  BY DEF IInv
<1>2. QED
  BY <1>1, InvariantHolds, PTL

(* No day is ever oversold.                                                 *)
THEOREM NeverOversoldHolds == Spec => []NeverOversold
<1>1. IInv => NeverOversold
  BY DEF IInv, Conservation, RowsWithinCapacity, NeverOversold
<1>2. QED
  BY <1>1, InvariantHolds, PTL

(* What the next step does to the counter of a row that is not open. *)
LockedRowKept ==
    \A k \in Rows : rowStatus[k] \in {"LOCKED", "CLOSED"} =>
                       reservedUnits'[k] <= reservedUnits[k]

(* A step sells nothing of a day that is locked.                            *)
LEMMA LockedStep == IInv /\ [Next]_vars => LockedRowKept
<1> SUFFICES ASSUME IInv, [Next]_vars PROVE LockedRowKept
  OBVIOUS
<1> USE CapacityAssumption DEF LockedRowKept
<1>0. TypeOK /\ PendingSound
  BY DEF IInv
<1>1. ASSUME NEW r \in Res, CommitHold(r) PROVE LockedRowKept
  <2>1. rowStatus[RowOf[r]] \notin {"LOCKED", "CLOSED"}
    BY <1>0, <1>1 DEF CommitHold, PendingSound, CanReserve, SeenStatus
  <2>2. \A k \in Rows \ {RowOf[r]} : reservedUnits'[k] = reservedUnits[k]
    BY <1>0, <1>1 DEF CommitHold, TypeOK
  <2>3. QED
    BY <1>0, <2>1, <2>2 DEF TypeOK
<1>2. ASSUME NEW p \in Releasers, ReleaseCommit(p) PROVE LockedRowKept
  BY <1>0, <1>2 DEF ReleaseCommit, Decremented, TypeOK
<1>3. CASE UNCHANGED reservedUnits
  BY <1>0, <1>3 DEF TypeOK
<1>4. QED
  BY <1>1, <1>2, <1>3
     DEF Next, HoldStep, ReleaseStep, ConfirmStep, vars, EnsureRow, Reserve,
         ReserveRefused, CommitRefusal, AbortHold, Expire, Sweep, CallRelease,
         ReleaseMark, ReleaseNothing, ReleaseDecrement, AbortRelease,
         CallConfirm, ConfirmRow, ConfirmCommit, AbortConfirm, SetRowStatus

(* A locked or closed day sells nothing, even to a hold granted before.     *)
THEOREM LockedDayHolds == Spec => LockedDaySellsNothing
<1>1. IInv /\ [Next]_vars => [LockedRowKept]_vars
  BY LockedStep
<1>2. QED
  BY <1>1, InvariantHolds, PTL DEF Spec, LockedDaySellsNothing, LockedRowKept

-----------------------------------------------------------------------------
(* Refinement: a commit of a hold, a release or a confirmation is the       *)
(* ledger's step of that name, and every other step leaves the ledger as it *)
(* was.  The guard of LedgerGrant speaks of the reservations and that of    *)
(* Reserve of the counter, evaluated earlier: Conservation and the row lock *)
(* (PendingSound) bridge the two.                                           *)

(* The ledger counts as the engine does.                                    *)
LEMMA SameCardinality ==
  ASSUME NEW S
  PROVE  Ledger!Cardinality(S) = Cardinality(S)
  BY DEF Cardinality, Ledger!Cardinality

(* What the ledger has sold of a day is what the counter says.              *)
LEMMA SoldIsReserved ==
  ASSUME Conservation, NEW k \in Rows
  PROVE  Ledger!Sold(k) = reservedUnits[k]
<1>1. Ledger!ClaimedBy(status, k) = Claimed(k)
  BY DEF Claimed, Active, Ledger!ClaimedBy, Ledger!Active
<1>2. QED
  BY <1>1, SameCardinality DEF Conservation, Ledger!Sold

(* Every step of the engine is a step of the ledger or leaves it alone.     *)
LEMMA LedgerStep == IInv /\ [Next]_vars => [Ledger!LedgerNext]_status
<1> SUFFICES ASSUME IInv, [Next]_vars, status' # status
             PROVE  Ledger!LedgerNext
  OBVIOUS
<1> USE CapacityAssumption
<1>0. TypeOK /\ PendingSound /\ Conservation
  BY DEF IInv
<1>1. ASSUME NEW r \in Res, CommitHold(r) PROVE Ledger!LedgerNext
  <2>1. CanReserve(r) /\ status[r] = "NONE"
    BY <1>0, <1>1 DEF CommitHold, PendingSound
  <2>2. Ledger!Sold(RowOf[r]) + Qty[r] <= DailyCapacity[RowOf[r]]
    BY <1>0, <2>1, SoldIsReserved DEF CanReserve
  <2>3. Ledger!LedgerGrant(r)
    BY <1>1, <2>1, <2>2 DEF CommitHold, Ledger!LedgerGrant
  <2>4. QED
    BY <2>3 DEF Ledger!LedgerNext
<1>2. ASSUME NEW p \in Releasers, ReleaseCommit(p) PROVE Ledger!LedgerNext
  <2>1. relId[p] \in Res /\ Ledger!LedgerRelease(relId[p])
    BY <1>0, <1>2 DEF ReleaseCommit, TypeOK, PendingSound, Active,
                      Ledger!LedgerRelease, Ledger!Active
  <2>2. QED
    BY <2>1 DEF Ledger!LedgerNext
<1>3. ASSUME NEW o \in Orders, ConfirmCommit(o) PROVE Ledger!LedgerNext
  <2>1. confLocked[o] \in SUBSET Res /\ Ledger!LedgerConfirm(confLocked[o])
    BY <1>0, <1>3 DEF ConfirmCommit, TypeOK, PendingSound, Ledger!LedgerConfirm
  <2>2. QED
    BY <2>1 DEF Ledger!LedgerNext
<1>4. QED
  BY <1>1, <1>2, <1>3
     DEF Next, HoldStep, ReleaseStep, ConfirmStep, vars, EnsureRow, Reserve,
         ReserveRefused, CommitRefusal, AbortHold, Expire, Sweep, CallRelease,
         ReleaseMark, ReleaseNothing, ReleaseDecrement, AbortRelease,
         CallConfirm, ConfirmRow, AbortConfirm, SetRowStatus

(* The engine of counters, locks and transactions implements the ledger.    *)
THEOREM Refinement == Spec => ImplementsLedger
<1>1. Init => Ledger!LedgerInit
  BY DEF Init, Ledger!LedgerInit
<1>2. QED
  BY <1>1, InvariantHolds, LedgerStep, PTL
     DEF Spec, ImplementsLedger, Ledger!LedgerSpec

-----------------------------------------------------------------------------
(* The second port, on the same rows: the results above survive it. *)

(* What the port shares with the original are steps of the original. *)
LEMMA SharedSteps ==
  /\ \A r \in Res : EdgeUpdate(r) \/ EdgeCommit(r) => Next
  /\ \A c \in Cancellers : EdgeRelease(c) => Next
BY DEF EdgeUpdate, EdgeCommit, EdgeRelease, Next, HoldStep, Releasers

(* The steps of the second port keep the types.                             *)
LEMMA EdgeTypeStep == TypeOK /\ EdgeNext => TypeOK'
<1> SUFFICES ASSUME TypeOK, EdgeNext PROVE TypeOK'
  OBVIOUS
<1> USE CapacityAssumption DEF TypeOK
<1>1. ASSUME NEW k \in Rows, EdgeEnsure(k) PROVE TypeOK'
  BY <1>1 DEF EdgeEnsure, Missing, CapacityStatus
<1>2. ASSUME NEW r \in Res, EdgeReserve(r) PROVE TypeOK'
  BY <1>2 DEF EdgeReserve, NoAnswer, Reasons
<1>3. ASSUME NEW r \in Res, EdgeRollback(r) PROVE TypeOK'
  BY <1>3 DEF EdgeRollback, Reasons
<1>4. ASSUME Next PROVE TypeOK'
  BY <1>4, TypeStep
<1>5. QED
  BY <1>1, <1>2, <1>3, <1>4, SharedSteps DEF EdgeNext

(* They keep the invariant.                                                 *)
LEMMA EdgeInvStep == IInv /\ EdgeNext => IInv'
<1> SUFFICES ASSUME IInv, EdgeNext PROVE IInv'
  OBVIOUS
<1> USE CapacityAssumption
<1>0. TypeOK /\ LocksExclusive /\ PendingSound /\ TypeOK'
  BY EdgeTypeStep DEF IInv
<1>1. ASSUME NEW k \in Rows, EdgeEnsure(k) PROVE IInv'
  <2>1. LocksExclusive' /\ PendingSound'
    BY <1>0, <1>1 DEF EdgeEnsure, Missing, TypeOK, LocksExclusive, PendingSound, CanReserve, SeenStatus
  <2>2. QED
    BY <1>0, <1>1, <2>1, QuietStep DEF EdgeEnsure, Missing
<1>2. ASSUME NEW r \in Res, EdgeReserve(r) PROVE IInv'
  <2>1. LocksExclusive'
    BY <1>0, <1>2 DEF EdgeReserve, TypeOK, LocksExclusive
  <2>2. PendingSound'
    BY <1>0, <1>2 DEF EdgeReserve, TypeOK, PendingSound, CanReserve, SeenStatus
  <2>3. QED
    BY <1>0, <1>2, <2>1, <2>2, QuietStep DEF EdgeReserve
<1>3. ASSUME NEW r \in Res, EdgeRollback(r) PROVE IInv'
  <2>1. LocksExclusive'
    BY <1>0, <1>3 DEF EdgeRollback, TypeOK, LocksExclusive
  <2>2. PendingSound'
    BY <1>0, <1>3 DEF EdgeRollback, TypeOK, PendingSound, CanReserve, SeenStatus
  <2>3. QED
    BY <1>0, <1>3, <2>1, <2>2, QuietStep DEF EdgeRollback
<1>4. ASSUME Next PROVE IInv'
  BY <1>4, InvStep
<1>5. QED
  BY <1>1, <1>2, <1>3, <1>4, SharedSteps DEF EdgeNext

(* So the two ports together keep it.                                       *)
LEMMA BothInvStep == IInv /\ [BothNext]_vars => IInv'
BY InvStep, EdgeInvStep DEF BothNext

(* The steps the port has of its own neither sell nor release a unit. *)
LEMMA EdgeOwnSteps ==
  EdgeNext => Next \/ UNCHANGED <<status, reservedUnits>>
BY SharedSteps DEF EdgeNext, EdgeEnsure, EdgeReserve, EdgeRollback

(* Both ports keep the locks, what open transactions rely on and the book.  *)
THEOREM BothPortsSafe == BothSpec => []IInv
  BY InvInit, BothInvStep, PTL DEF BothSpec

(* With both ports writing the same rows the counter is the sum of the      *)
(* reservations.                                                            *)
THEOREM BothPortsConserve == BothSpec => []Conservation
<1>1. IInv => Conservation
  BY DEF IInv
<1>2. QED
  BY <1>1, BothPortsSafe, PTL

(* Nor do they oversell a day between them.                                 *)
THEOREM BothPortsNeverOversell == BothSpec => []NeverOversold
<1>1. IInv => NeverOversold
  BY DEF IInv, Conservation, RowsWithinCapacity, NeverOversold
<1>2. QED
  BY <1>1, BothPortsSafe, PTL

(* A locked day sells nothing through either port, whichever of them had    *)
(* been granted room when it was locked.                                    *)
THEOREM BothPortsKeepLockedDays == BothSpec => LockedDaySellsNothing
<1>1. IInv /\ [BothNext]_vars => [LockedRowKept]_vars
  <2> SUFFICES ASSUME IInv, [BothNext]_vars PROVE LockedRowKept
    OBVIOUS
  <2>1. CASE [Next]_vars
    BY <2>1, LockedStep
  <2>2. CASE UNCHANGED <<status, reservedUnits>>
    BY <2>2 DEF LockedRowKept, IInv, TypeOK
  <2>3. QED
    BY <2>1, <2>2, EdgeOwnSteps DEF BothNext
<1>2. QED
  BY <1>1, BothPortsSafe, PTL DEF BothSpec, LockedDaySellsNothing, LockedRowKept

(* Together the two ports implement the one ledger.                         *)
THEOREM BothPortsRefine == BothSpec => ImplementsLedger
<1>1. Init => Ledger!LedgerInit
  BY DEF Init, Ledger!LedgerInit
<1>2. IInv /\ [BothNext]_vars => [Ledger!LedgerNext]_status
  BY LedgerStep, EdgeOwnSteps DEF BothNext
<1>3. QED
  BY <1>1, <1>2, BothPortsSafe, PTL
     DEF BothSpec, ImplementsLedger, Ledger!LedgerSpec

=============================================================================
