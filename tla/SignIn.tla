-------------------------------- MODULE SignIn --------------------------------
(***************************************************************************)
(* AuthService.verifyAndSignIn after its code was found right: one         *)
(* transaction finds the customer by phone or creates it, with a reference *)
(* from ReferenceService, then a session is issued.                        *)
(*                                                                         *)
(* The counter behind the references is one row, which the upsert of       *)
(* ReferenceService.next locks until the transaction that advanced it      *)
(* ends: what it wrote follows from number and is there after the commit.  *)
(***************************************************************************)
EXTENDS Integers, FiniteSets

CONSTANTS
    SignIns,    \* verifications, each with a code that was right
    Phones,     \* E.164 numbers
    PhoneOf     \* the number a challenge was sent to

ASSUME SignInAssumption == PhoneOf \in [SignIns -> Phones]

VARIABLES
    counter,    \* counters["customer_ref"].value; 0: no such row yet
    ref,        \* ref[p]: n of MBC-n, the customer with phone p; 0: nobody
    pc,         \* where a sign-in stands
    number      \* the number its transaction has taken

vars == <<counter, ref, pc, number>>

Stages == {"idle", "unknown", "numbered", "inserted", "committed",
           "signedIn", "refused", "lost"}

TypeOK ==
    /\ counter \in Nat
    /\ ref \in [Phones -> Nat]
    /\ pc \in [SignIns -> Stages]
    /\ number \in [SignIns -> Nat]

Init ==
    /\ counter = 0
    /\ ref = [p \in Phones |-> 0]
    /\ pc = [s \in SignIns |-> "idle"]
    /\ number = [s \in SignIns |-> 0]

Registered == {p \in Phones : ref[p] # 0}

-----------------------------------------------------------------------------
(* findUnique by phone.  A known customer needs nothing more than a commit. *)
Find(s) ==
    /\ pc[s] = "idle"
    /\ pc' = [pc EXCEPT ![s] =
                 IF ref[PhoneOf[s]] # 0 THEN "committed" ELSE "unknown"]
    /\ UNCHANGED <<counter, ref, number>>

(* Slips: a SELECT of the counter and an UPDATE later; a lock of the        *)
(* session, which a transaction that failed does not give back.             *)
CounterFreeUnlocked(s) == TRUE
CounterFreeOnSuccess(s) ==
    \A t \in SignIns : pc[t] \notin {"numbered", "inserted", "refused"}

CounterFree(s) ==
    \A t \in SignIns : pc[t] \notin {"numbered", "inserted"}

(* INSERT .. ON CONFLICT DO UPDATE .. RETURNING value. *)
next(s) ==
    /\ pc[s] = "unknown" /\ CounterFree(s)
    /\ number' = [number EXCEPT ![s] = counter + 1]
    /\ pc' = [pc EXCEPT ![s] = "numbered"]
    /\ UNCHANGED <<counter, ref>>

(* Another customer with the phone or the reference, committed. *)
Taken(s) ==
    \/ ref[PhoneOf[s]] # 0
    \/ \E p \in Phones : ref[p] = number[s]

(* customer.create, which waits for an open insert of the same phone. *)
Insert(s) ==
    /\ pc[s] = "numbered" /\ ~Taken(s)
    /\ \A t \in SignIns : pc[t] = "inserted" => PhoneOf[t] # PhoneOf[s]
    /\ pc' = [pc EXCEPT ![s] = "inserted"]
    /\ UNCHANGED <<counter, ref, number>>

(* A unique index refuses the insert and the transaction rolls back; the    *)
(* customer gets an error, and the code is used up.                         *)
InsertRefused(s) ==
    /\ pc[s] = "numbered" /\ Taken(s)
    /\ pc' = [pc EXCEPT ![s] = "refused"]
    /\ UNCHANGED <<counter, ref, number>>

(* Slip: the counter is advanced in a transaction of its own. *)
CountedAlone(s) == counter

Counted(s) == number[s]

Commit(s) ==
    /\ pc[s] = "inserted"
    /\ counter' = Counted(s)
    /\ ref' = [ref EXCEPT ![PhoneOf[s]] = number[s]]
    /\ pc' = [pc EXCEPT ![s] = "committed"]
    /\ UNCHANGED number

(* tokens.issue, after the transaction. *)
issue(s) ==
    /\ pc[s] = "committed"
    /\ pc' = [pc EXCEPT ![s] = "signedIn"]
    /\ UNCHANGED <<counter, ref, number>>

(* A crash, a lost connection, the timeout of an interactive transaction:   *)
(* what was not committed is rolled back.                                   *)
Abort(s) ==
    /\ pc[s] \in {"unknown", "numbered", "inserted", "committed"}
    /\ pc' = [pc EXCEPT ![s] = "lost"]
    /\ UNCHANGED <<counter, ref, number>>

Step(s) ==
    Find(s) \/ next(s) \/ Insert(s) \/ InsertRefused(s) \/ Commit(s) \/ issue(s)

Next == \E s \in SignIns : Step(s) \/ Abort(s)

Spec == Init /\ [][Next]_vars

(* The database serves its waiters; a started request goes on or is lost.   *)
FairSpec == Spec /\ \A s \in SignIns : WF_vars(Step(s) /\ pc[s] # "idle")

-----------------------------------------------------------------------------
(* Properties. *)

(* "Concurrent signups cannot collide": the references handed out are       *)
(* exactly 1 to the counter, each to one customer, with no gap where a      *)
(* sign-up rolled back.                                                     *)
RefsGapless ==
    /\ {ref[p] : p \in Registered} = 1..counter
    /\ \A p, q \in Registered : ref[p] = ref[q] => p = q

(* A sign-up is never refused for its reference, only for its phone, which  *)
(* a sign-in beside it has registered meanwhile.                            *)
RefusedForPhoneOnly ==
    \A s \in SignIns :
        pc[s] = "numbered" /\ Taken(s) => ref[PhoneOf[s]] # 0

(* Sign-ups queue on one counter row, and each gets its turn: none waits    *)
(* for ever on another that failed or was lost.                             *)
SignInsEnd ==
    \A s \in SignIns :
        pc[s] = "unknown" ~> pc[s] \in {"signedIn", "refused", "lost"}
================================================================================
