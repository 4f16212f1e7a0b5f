------------------------------ MODULE Addresses ------------------------------
(***************************************************************************)
(* The address book of one customer: CustomerService.createAddress,        *)
(* updateAddress and deleteAddress, as PostgreSQL transactions at READ     *)
(* COMMITTED.  To make an address the default, a transaction first clears  *)
(* the flag of every row of the customer its UPDATE can see, waiting for   *)
(* the rows that open transactions have written; rows committed after that *)
(* UPDATE began are not among them, waited or not.                         *)
(*                                                                         *)
(* The address request r creates is called r.  The fields of an address    *)
(* and its delivery zone are left out.  Two transactions whose rows form a *)
(* cycle are ended by PostgreSQL, which is an Abort here.                  *)
(***************************************************************************)
EXTENDS Integers, FiniteSets

CONSTANTS
    Requests,
    Existing    \* addresses the customer has already

VARIABLES
    rows,       \* the customer's rows, committed
    isDefault,  \* those of them with the flag
    deleted,    \* those of them with deletedAt
    req,        \* the requests
    raced,      \* history: an address became the default that another open
                \* transaction, about to set a default, could not see
    disowned    \* history: the customer unset or deleted the default

table == <<rows, isDefault, deleted>>
history == <<raced, disowned>>
bookVars == <<table, req, history>>

NoOp == [kind |-> "none", id |-> "none", flag |-> FALSE]
Idle == [pc |-> "idle", op |-> NoOp, seen |-> {}, locked |-> {}, first |-> FALSE]

Live == rows \ deleted

BookInit ==
    /\ rows = Existing /\ deleted = {}
    /\ isDefault \in {{}} \cup {{a} : a \in Existing}
    /\ disowned = (isDefault = {})
    /\ req = [r \in Requests |-> Idle]
    /\ raced = FALSE

Open(r) == req[r].pc \in {"clearing", "cleared", "counted", "written"}
Locked(r) == UNION {req[q].locked : q \in Requests \ {r}}
Go(r, pc) == req' = [req EXCEPT ![r].pc = pc]

-----------------------------------------------------------------------------
(* A request begins; one for an existing address finds it, or is refused.   *)
Begin(r) ==
    /\ req[r].pc = "idle"
    /\ \E flag \in BOOLEAN, kind \in {"create", "update", "delete"}, id \in Live \cup {r} :
          /\ kind = "create" <=> id = r
          /\ req' = [req EXCEPT ![r].op = [kind |-> kind, id |-> id, flag |-> flag],
                                ![r].pc = IF kind = "delete" THEN "deleting"
                                          ELSE IF flag THEN "begun" ELSE "cleared"]
    /\ UNCHANGED <<table, history>>

(* updateMany begins: this is what it sees. *)
BeginClear(r) ==
    /\ req[r].pc = "begun"
    /\ req' = [req EXCEPT ![r].pc = "clearing", ![r].seen = rows]
    /\ UNCHANGED <<table, history>>

(* Slip: the flags are cleared row by row, of rows nobody else is writing.  *)
ClearSkipLocked(r) ==
    /\ req[r].pc = "clearing"
    /\ req' = [req EXCEPT ![r].pc = "cleared", ![r].locked = @ \cup (req[r].seen \ Locked(r))]
    /\ UNCHANGED <<table, history>>

(* It has waited for all its rows. *)
Clear(r) ==
    /\ req[r].pc = "clearing"
    /\ req[r].seen \cap Locked(r) = {}
    /\ req' = [req EXCEPT ![r].pc = "cleared", ![r].locked = req[r].seen]
    /\ UNCHANGED <<table, history>>

(* address.count: the first address becomes the default unasked. *)
Count(r) ==
    /\ req[r].pc = "cleared" /\ req[r].op.kind = "create"
    /\ req' = [req EXCEPT ![r].pc = "written", ![r].first = Live = {}]
    /\ UNCHANGED <<table, history>>

(* address.update waits for its row. *)
Write(r) ==
    /\ req[r].pc = "cleared" /\ req[r].op.kind = "update"
    /\ req[r].op.id \notin Locked(r)
    /\ req' = [req EXCEPT ![r].pc = "written", ![r].locked = @ \cup {req[r].op.id}]
    /\ UNCHANGED <<table, history>>

(* What a transaction has yet to commit: a default, perhaps not seeing id.  *)
MaySetDefault(r) ==
    /\ Open(r)
    /\ req[r].op.flag \/ (req[r].op.kind = "create" /\ (req[r].pc = "written" => req[r].first))
CannotSee(r, id) ==
    IF req[r].op.flag THEN id \notin req[r].seen ELSE req[r].pc = "written"

(* Slip: the address is written first and the flags cleared afterwards.     *)
FlagsAfterLate(r, on) ==
    LET own == IF on THEN isDefault \cup {req[r].op.id} ELSE isDefault \ {req[r].op.id}
    IN  IF req[r].op.flag THEN own \ req[r].locked ELSE own

FlagsAfter(r, on) ==
    LET kept == IF req[r].op.flag THEN isDefault \ req[r].locked ELSE isDefault
    IN  IF on THEN kept \cup {req[r].op.id} ELSE kept \ {req[r].op.id}

Commit(r) ==
    LET id == req[r].op.id  on == req[r].op.flag \/ req[r].first IN
    /\ req[r].pc = "written"
    /\ rows' = rows \cup {id}
    /\ isDefault' = FlagsAfter(r, on)
    /\ raced' = (raced \/ /\ on
                          /\ \E q \in Requests \ {r} : MaySetDefault(q) /\ CannotSee(q, id))
    /\ disowned' = IF on THEN id \in deleted ELSE disowned \/ id \in isDefault
    /\ req' = [req EXCEPT ![r] = [Idle EXCEPT !.pc = "over"]]
    /\ UNCHANGED deleted

(* A soft delete takes the flag with it. *)
Delete(r) ==
    LET id == req[r].op.id IN
    /\ req[r].pc = "deleting" /\ id \notin Locked(r)
    /\ deleted' = deleted \cup {id}
    /\ isDefault' = isDefault \ {id}
    /\ disowned' = (disowned \/ id \in isDefault)
    /\ req' = [req EXCEPT ![r] = [Idle EXCEPT !.pc = "over"]]
    /\ UNCHANGED <<rows, raced>>

(* A crash or a lost connection; an open transaction is rolled back. *)
Abort(r) ==
    /\ req[r].pc \notin {"idle", "over"}
    /\ req' = [req EXCEPT ![r] = [Idle EXCEPT !.pc = "over"]]
    /\ UNCHANGED <<table, history>>

Step(r) ==
    \/ Begin(r) \/ BeginClear(r) \/ Clear(r) \/ Count(r) \/ Write(r)
    \/ Commit(r) \/ Delete(r) \/ Abort(r)

BookNext == \E r \in Requests : Step(r)

BookSpec == BookInit /\ [][BookNext]_bookVars

-----------------------------------------------------------------------------
(* Properties. *)

(* A customer has one default address at most, though transactions that     *)
(* move the flag overlap in every way.  Only an address that has just been  *)
(* created, and that another transaction about to set a default cannot see, *)
(* can become a second one.                                                 *)
OneDefault == ~raced => Cardinality(isDefault \cap Live) <= 1

(* A customer with addresses has a default one, unless they have unset or   *)
(* deleted it and not chosen another since: no overlap of changes that set  *)
(* defaults, or of a first address with other changes, loses the flag.      *)
DefaultKept == Live # {} /\ ~disowned => isDefault \cap Live # {}

-----------------------------------------------------------------------------
(* The type invariant. *)

Addresses == Existing \cup Requests
Ops == [kind : {"none", "create", "update", "delete"}, id : Addresses \cup {"none"}, flag : BOOLEAN]

Transactions ==
    [pc : {"idle", "begun", "clearing", "cleared", "written", "deleting", "over"},
     op : Ops, seen : SUBSET Addresses, locked : SUBSET Addresses, first : BOOLEAN]

BookTypeOK ==
    /\ rows \subseteq Addresses /\ isDefault \subseteq rows
    /\ req \in [Requests -> Transactions]
    /\ raced \in BOOLEAN /\ disowned \in BOOLEAN
===============================================================================
