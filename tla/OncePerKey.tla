----------------------------- MODULE OncePerKey -----------------------------
(***************************************************************************)
(* What the idempotency interceptor promises, with no row, store or crash  *)
(* in sight: a key makes one order; a request is answered once, with the   *)
(* order of its key, or with a refusal.  A request may stay unanswered.    *)
(***************************************************************************)
CONSTANTS
    Requests,   \* HTTP requests to marked endpoints
    KeyOf,      \* the (customer, Idempotency-Key) pair a request carries
    BodyOf      \* its body, as its hash tells bodies apart

VARIABLES
    orders,     \* the requests that made their order
    answer      \* what a request was answered

vars == <<orders, answer>>

Refusals == {"busy", "otherBody", "duplicate", "handlerError"}
Nothing == [kind |-> "none", order |-> "none"]

Init == orders = {} /\ answer = [r \in Requests |-> Nothing]

(* An order is made for a key that has none, before its answer leaves.      *)
Make(r) ==
    /\ answer[r] = Nothing
    /\ \A o \in orders : KeyOf[o] # KeyOf[r]
    /\ orders' = orders \cup {r}
    /\ UNCHANGED answer

Answer(r, a) ==
    /\ answer[r] = Nothing
    /\ answer' = [answer EXCEPT ![r] = a]
    /\ UNCHANGED orders

(* The customer reads of an order: the one the request made itself, or the  *)
(* one that the same question under the same key made.                      *)
Tell(r) == r \in orders /\ Answer(r, [kind |-> "made", order |-> r])

TellAgain(r) ==
    \E o \in orders \ {r} :
        /\ KeyOf[o] = KeyOf[r] /\ BodyOf[o] = BodyOf[r]
        /\ Answer(r, [kind |-> "replayed", order |-> o])

(* Whoever is refused has ordered nothing. *)
Refuse(r) ==
    /\ r \notin orders
    /\ \E kind \in Refusals : Answer(r, [kind |-> kind, order |-> "none"])

Next == \E r \in Requests : Make(r) \/ Tell(r) \/ TellAgain(r) \/ Refuse(r)

Spec == Init /\ [][Next]_vars
=============================================================================
