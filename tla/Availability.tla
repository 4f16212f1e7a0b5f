---------------------------- MODULE Availability ----------------------------
(***************************************************************************)
(* The date engine: which production day a delivery date needs, when its   *)
(* cut-off passes, what a hold request for a date is answered, and which   *)
(* date a refused customer is offered instead.                             *)
(*                                                                         *)
(* A day is a number, and its weekday follows; an instant counts parts of  *)
(* a day, in the market's wall-clock time.  The days a zone shifts its     *)
(* clocks are left out.  Meanwhile other customers fill and free the days. *)
(***************************************************************************)
EXTENDS Integers, FiniteSets

CONSTANTS
    Days,               \* production days that matter, from 0
    BusyDays,           \* those of them other customers order for meanwhile
    PartsPerDay,        \* the grain of wall-clock time
    MaxNow,             \* bound: the clock stops here
    HorizonDays,        \* how many days nextAvailableDate looks ahead
    MaxLookbackDays,    \* how far back productionDateFor walks
    DailyCapacity,      \* production rule: units per production day
    Qty,                \* units the request asks for
    FirstNow,           \* the instants the clock may start at
    Orderable,          \* the variants considered: each with the stock mode
                        \* of its product and its rule, if it has one
    FirstLeft           \* the books the days may start with

Rules == {v.rule : v \in Orderable}

Instants == UNION {n..MaxNow : n \in FirstNow}

(* The last conjunct says which days matter: those a delivery within the    *)
(* horizon may be cooked on.                                                *)
ASSUME AvailabilityAssumption ==
    /\ PartsPerDay \in Nat \ {0}
    /\ HorizonDays \in Nat
    /\ MaxLookbackDays \in Nat
    /\ MaxNow \in Int /\ FirstNow \subseteq Int /\ FirstNow \subseteq Instants
    /\ DailyCapacity \in Nat /\ Qty \in Nat
    /\ FirstLeft \subseteq [Days -> 0..DailyCapacity]
    /\ \A r \in Rules :
          /\ r.leadTimeDays \in Int
          /\ r.cutoffPart \in 0..(PartsPerDay - 1)
          /\ r.cutoffOffsetDays \in Nat
          /\ r.deliveryWeekdays \subseteq 1..7
          /\ r.productionWeekdays \subseteq 1..7
    /\ BusyDays \subseteq Days /\ Days \subseteq Nat
    /\ \A n \in Instants :
          ((n \div PartsPerDay) + 1 - MaxLookbackDays)..((n \div PartsPerDay) + HorizonDays)
              \subseteq Days

VARIABLES
    now,        \* the current instant
    variant,    \* the variant asked for
    isSold,     \* it exists, is active and is not deleted
    left,       \* units left on a production day, as if it had a row
    rowStatus   \* the status of its row; "NONE": no row yet

datesVars == <<now, variant, isSold, left, rowStatus>>

rule == variant.rule

NoDate == -1

Today == now \div PartsPerDay
isoWeekdayOf(d) == (d % 7) + 1
KitchenWorks(d) == isoWeekdayOf(d) \in rule.productionWeekdays

-----------------------------------------------------------------------------
(* Slip: the walk tests the day it is on before it steps back. *)
WalkBackEager(d, lead) ==
    LET walk[at \in (0..MaxLookbackDays) \X (0..lead)] ==
            LET g == at[1]  rem == at[2] IN
            IF rem = 0 \/ g = MaxLookbackDays THEN <<d - g, rem>>
            ELSE walk[<<g + 1, IF KitchenWorks(d - g) THEN rem - 1 ELSE rem>>]
    IN  walk[<<0, lead>>]

(* The loop of productionDateFor: where it stops, and what is left to walk  *)
(* (g: the steps taken; rem: the working days still to be found).           *)
WalkBack(d, lead) ==
    LET walk[at \in (0..MaxLookbackDays) \X (0..lead)] ==
            LET g == at[1]  rem == at[2] IN
            IF rem = 0 \/ g = MaxLookbackDays THEN <<d - g, rem>>
            ELSE walk[<<g + 1, IF KitchenWorks(d - g - 1) THEN rem - 1 ELSE rem>>]
    IN  walk[<<0, lead>>]

productionDateFor(d) ==
    IF rule.leadTimeDays <= 0
    THEN IF KitchenWorks(d) THEN d ELSE NoDate
    ELSE LET w == WalkBack(d, rule.leadTimeDays)
         IN  IF w[2] = 0 THEN w[1] ELSE NoDate

cutoffInstant(p) == (p - rule.cutoffOffsetDays) * PartsPerDay + rule.cutoffPart

isCutoffPassed(p) == now > cutoffInstant(p)

-----------------------------------------------------------------------------
(* What CapacityService.hold asks before it looks at the date. *)
Unsellable == ~isSold \/ (variant.stockMode # "STOCKED" /\ ~variant.isRuled)
FromStock == variant.stockMode = "STOCKED"
QtyInRule == Qty \in rule.minOrderQty..rule.maxOrderQty

(* It gets to the date. *)
GoesByDate == ~Unsellable /\ ~FromStock /\ QtyInRule

(* Its answer for a date it gets to. *)
DateAnswer(d) ==
    LET p == productionDateFor(d) IN
    IF isoWeekdayOf(d) \notin rule.deliveryWeekdays \/ p = NoDate
    THEN "DATE_NOT_AVAILABLE"
    ELSE IF isCutoffPassed(p) THEN "CUTOFF_PASSED"
    ELSE IF rowStatus[p] \in {"LOCKED", "CLOSED"} THEN "CAPACITY_LOCKED"
    ELSE IF Qty > left[p] THEN "CAPACITY_EXHAUSTED"
    ELSE "OK"

(* Its answer to a request for day d; what is kept in stock takes nothing   *)
(* of the kitchen's day.                                                    *)
HoldAnswer(d) ==
    IF Unsellable THEN "PRODUCT_UNAVAILABLE"
    ELSE IF FromStock THEN "OK"
    ELSE IF ~QtyInRule THEN "QTY_OUT_OF_RANGE"
    ELSE DateAnswer(d)

(* Slip: the scan trusts the count of a day whatever its status. *)
SuitsAnyStatus(d) ==
    /\ isoWeekdayOf(d) \in rule.deliveryWeekdays
    /\ productionDateFor(d) # NoDate
    /\ ~isCutoffPassed(productionDateFor(d))
    /\ left[productionDateFor(d)] >= Qty

(* What nextAvailableDate asks of a date.  A day without a row counts with  *)
(* the capacity its row would be created with.                              *)
Suits(d) ==
    /\ isoWeekdayOf(d) \in rule.deliveryWeekdays
    /\ productionDateFor(d) # NoDate
    /\ ~isCutoffPassed(productionDateFor(d))
    /\ rowStatus[productionDateFor(d)] \in {"NONE", "OPEN"}
    /\ left[productionDateFor(d)] >= Qty

(* Its scan, from tomorrow on. *)
nextAvailableDate ==
    LET scan[i \in 1..(HorizonDays + 1)] ==
            IF i > HorizonDays THEN NoDate
            ELSE IF Suits(Today + i) THEN Today + i ELSE scan[i + 1]
    IN  scan[1]

-----------------------------------------------------------------------------
DatesInit ==
    /\ now \in FirstNow
    /\ variant \in Orderable /\ isSold = TRUE
    /\ left \in FirstLeft
    /\ rowStatus = [p \in Days |-> IF left[p] = DailyCapacity THEN "NONE" ELSE "OPEN"]

Tick ==
    /\ now < MaxNow
    /\ now' = now + 1
    /\ UNCHANGED <<variant, isSold, left, rowStatus>>

(* Another customer's hold, which creates the row if need be. *)
Fill(p) ==
    /\ rowStatus[p] \in {"NONE", "OPEN"} /\ left[p] > 0
    /\ left' = [left EXCEPT ![p] = @ - 1]
    /\ rowStatus' = [rowStatus EXCEPT ![p] = "OPEN"]
    /\ UNCHANGED <<now, variant, isSold>>

(* A hold of another customer lapses or is cancelled. *)
Free(p) ==
    /\ left[p] < DailyCapacity
    /\ left' = [left EXCEPT ![p] = @ + 1]
    /\ UNCHANGED <<now, variant, isSold, rowStatus>>

Lock(p) ==
    /\ rowStatus[p] = "OPEN"
    /\ rowStatus' = [rowStatus EXCEPT ![p] = "LOCKED"]
    /\ UNCHANGED <<now, variant, isSold, left>>

(* An administrator takes the variant off sale, or puts it on again. *)
Switch ==
    /\ isSold' = ~isSold
    /\ UNCHANGED <<now, variant, left, rowStatus>>

DatesNext == Tick \/ Switch \/ \E p \in BusyDays : Fill(p) \/ Free(p) \/ Lock(p)

DatesSpec == DatesInit /\ [][DatesNext]_datesVars

-----------------------------------------------------------------------------
(* Properties. *)

DatesTypeOK ==
    /\ now \in Instants
    /\ variant \in Orderable /\ isSold \in BOOLEAN
    /\ left \in [Days -> 0..DailyCapacity]
    /\ rowStatus \in [Days -> {"NONE", "OPEN", "LOCKED"}]

DeliveryDays == (Today + 1)..(Today + HorizonDays)

(* Reference: the working day from which exactly lead working days lie      *)
(* before the delivery, if the lookback reaches it.                         *)
LeadWorkingDaysBefore(d, lead) ==
    {p \in (d - MaxLookbackDays)..(d - 1) :
        KitchenWorks(p) /\ Cardinality({e \in p..(d - 1) : KitchenWorks(e)}) = lead}

(* The kitchen is asked to cook on a day it works, with exactly the lead    *)
(* time in working days between that day and the delivery, and a date is    *)
(* turned down only if there is no such day within the lookback.            *)
ProductionDayIsRight ==
    \A d \in DeliveryDays :
        LET lead == rule.leadTimeDays IN
        lead > 0 =>
            LET found == LeadWorkingDaysBefore(d, lead)
            IN  IF found = {} THEN productionDateFor(d) = NoDate
                ELSE found = {productionDateFor(d)}

(* A request that is refused for its date, not for the item or the number   *)
(* asked for, is offered the first one, from tomorrow on, for which a hold  *)
(* would be granted; and none only if there is none within the horizon.     *)
(* The scan and hold are different code.                                    *)
OfferIsFirstHoldable ==
    GoesByDate =>
        LET holdable == {d \in DeliveryDays : HoldAnswer(d) = "OK"} IN
        IF holdable = {} THEN nextAvailableDate = NoDate
        ELSE /\ nextAvailableDate \in holdable
             /\ \A d \in holdable : nextAvailableDate <= d

=============================================================================
