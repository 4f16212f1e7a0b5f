----------------------------- MODULE Idempotency -----------------------------
(***************************************************************************)
(* IdempotencyInterceptor around a marked endpoint: a request looks its    *)
(* key up, claims it by inserting a row if there is none, runs the handler *)
(* and answers, and stores the response beside the answer, unawaited.      *)
(* These are separate statements; requests and crashes fall between them.  *)
(*                                                                         *)
(* A key stands for a (customer, Idempotency-Key) pair.  The handler is    *)
(* the endpoint's own transaction, which commits or fails; the order it    *)
(* makes and the response that tells of it bear the name of the request.   *)
(***************************************************************************)
EXTENDS Integers, FiniteSets

CONSTANTS
    Requests,   \* HTTP requests to marked endpoints
    Keys,       \* (customer, Idempotency-Key) pairs
    KeyOf,      \* the key a request carries
    BodyOf      \* its body, as its hash tells bodies apart

ASSUME IdempotencyAssumption ==
    /\ KeyOf \in [Requests -> Keys]
    /\ \A r \in Requests : BodyOf[r] # "none"
    /\ "none" \notin Requests

VARIABLES
    row,        \* row[k]: the idempotency_keys row of k, or NoRow
    pc,         \* where a request stands
    answer,     \* what it answered
    orders,     \* history: requests whose handler committed
    writing,    \* requests whose response is still to be stored
    failed      \* history: claims whose handler, process or store failed

vars == <<row, pc, answer, orders, writing, failed>>

NoRow == [body |-> "none", response |-> "none"]
Unanswered == [kind |-> "none", order |-> "none"]
Said(kind) == [kind |-> kind, order |-> "none"]

Kinds == {"none", "made", "replayed", "busy", "otherBody", "handlerError", "duplicate"}

Bodies == {BodyOf[r] : r \in Requests}

TypeOK ==
    /\ row \in [Keys -> [body : Bodies \cup {"none"}, response : Requests \cup {"none"}]]
    /\ pc \in [Requests -> {"idle", "unclaimed", "claimed", "committed", "done"}]
    /\ answer \in [Requests -> [kind : Kinds, order : Requests \cup {"none"}]]
    /\ orders \subseteq Requests
    /\ writing \subseteq Requests
    /\ failed \subseteq Requests

Init ==
    /\ row = [k \in Keys |-> NoRow]
    /\ pc = [r \in Requests |-> "idle"]
    /\ answer = [r \in Requests |-> Unanswered]
    /\ orders = {}
    /\ writing = {}
    /\ failed = {}

-----------------------------------------------------------------------------
Finish(r, a) ==
    /\ pc' = [pc EXCEPT ![r] = "done"]
    /\ answer' = [answer EXCEPT ![r] = a]

(* Slip: the stored response is returned whatever the body. *)
ExistingAnswerAnyBody(r) ==
    LET k == row[KeyOf[r]] IN
    IF k.response # "none" THEN [kind |-> "replayed", order |-> k.response]
    ELSE Said("busy")

(* claim, when findUnique found a row. *)
ExistingAnswer(r) ==
    LET k == row[KeyOf[r]] IN
    IF k.body # BodyOf[r] THEN Said("otherBody")
    ELSE IF k.response # "none" THEN [kind |-> "replayed", order |-> k.response]
    ELSE Said("busy")

LookUp(r) ==
    /\ pc[r] = "idle"
    /\ IF row[KeyOf[r]] = NoRow
       THEN pc' = [pc EXCEPT ![r] = "unclaimed"] /\ UNCHANGED answer
       ELSE Finish(r, ExistingAnswer(r))
    /\ UNCHANGED <<row, orders, writing, failed>>

(* Slip: an upsert, which takes over the row of another request. *)
ClaimFreeUpsert(k) == TRUE

(* The unique index on (customerId, key). *)
ClaimFree(k) == row[k] = NoRow

Claim(r) ==
    /\ pc[r] = "unclaimed" /\ ClaimFree(KeyOf[r])
    /\ row' = [row EXCEPT ![KeyOf[r]] = [body |-> BodyOf[r], response |-> "none"]]
    /\ pc' = [pc EXCEPT ![r] = "claimed"]
    /\ UNCHANGED <<answer, orders, writing, failed>>

(* Another request claimed the key since the look-up: the insert violates   *)
(* the unique index, which is nobody's DomainError, and the customer reads  *)
(* "Something went wrong on our side".                                      *)
ClaimTaken(r) ==
    /\ pc[r] = "unclaimed" /\ ~ClaimFree(KeyOf[r])
    /\ Finish(r, Said("duplicate"))
    /\ UNCHANGED <<row, orders, writing, failed>>

(* The handler's transaction commits. *)
HandlerCommits(r) ==
    /\ pc[r] = "claimed"
    /\ orders' = orders \cup {r}
    /\ pc' = [pc EXCEPT ![r] = "committed"]
    /\ UNCHANGED <<row, answer, writing, failed>>

(* Slip: the handler still throws after its transaction has committed. *)
HandlerFailsLate(r) ==
    /\ pc[r] \in {"claimed", "committed"}
    /\ Finish(r, Said("handlerError"))
    /\ failed' = failed \cup {r}
    /\ UNCHANGED <<row, orders, writing>>

(* The handler throws, nothing committed: tap does not see errors, the row  *)
(* stays as claim left it.                                                  *)
HandlerFails(r) ==
    /\ pc[r] = "claimed"
    /\ Finish(r, Said("handlerError"))
    /\ failed' = failed \cup {r}
    /\ UNCHANGED <<row, orders, writing>>

(* The answer leaves, the store of it is started and not awaited. *)
Respond(r) ==
    /\ pc[r] = "committed"
    /\ Finish(r, [kind |-> "made", order |-> r])
    /\ writing' = writing \cup {r}
    /\ UNCHANGED <<row, orders, failed>>

(* updateMany where (customerId, key).  Slip: the customer is not known     *)
(* any more when the store runs, and it finds no row.                       *)
StoredNowhere(r) == row

Stored(r) == [row EXCEPT ![KeyOf[r]].response = r]

StoreResponse(r) ==
    /\ r \in writing
    /\ writing' = writing \ {r}
    /\ row' = Stored(r)
    /\ UNCHANGED <<pc, answer, orders, failed>>

(* It fails; the error is swallowed. *)
StoreFails(r) ==
    /\ r \in writing
    /\ writing' = writing \ {r}
    /\ failed' = failed \cup {r}
    /\ UNCHANGED <<row, pc, answer, orders>>

(* The process serving r stops, or its connections do: r gets no answer.    *)
(* The crash of a process is this for every request in it, and StoreFails   *)
(* for every response it had begun to store.                                *)
Lost(r) ==
    /\ pc[r] \notin {"idle", "done"}
    /\ Finish(r, Unanswered)
    /\ failed' = IF pc[r] = "unclaimed" THEN failed ELSE failed \cup {r}
    /\ UNCHANGED <<row, orders, writing>>

Step(r) ==
    \/ LookUp(r) \/ Claim(r) \/ ClaimTaken(r)
    \/ HandlerCommits(r) \/ HandlerFails(r)
    \/ Respond(r) \/ StoreResponse(r) \/ StoreFails(r) \/ Lost(r)

Next == \E r \in Requests : Step(r)

Spec == Init /\ [][Next]_vars

-----------------------------------------------------------------------------
(* Properties. *)

(* However often a request is sent again, at once or after a crash, one key *)
(* makes one order.                                                         *)
OneOrderPerKey ==
    \A r, q \in orders : KeyOf[r] = KeyOf[q] => r = q

UnderWay(r) == pc[r] \in {"claimed", "committed"} \/ r \in writing

(* "We're still processing your previous request": a customer told so has a *)
(* request under the key that is at work, or one that failed and holds the  *)
(* key for good; once a request ended well its retries get the answer.      *)
BusyHasCause ==
    [][\A r \in Requests :
          answer[r].kind # "busy" /\ answer'[r].kind = "busy" =>
              \E q \in Requests \ {r} :
                  KeyOf[q] = KeyOf[r] /\ (UnderWay(q) \/ q \in failed)]_vars

(* Rows, retries and crashes aside, the interceptor makes one order of a    *)
(* key and answers a request once: with that order, or, if the request made *)
(* none, with a refusal.                                                    *)
Once == INSTANCE OncePerKey
AnswersOncePerKey == Once!Spec
=============================================================================
