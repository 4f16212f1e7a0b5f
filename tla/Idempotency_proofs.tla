-------------------------- MODULE Idempotency_proofs --------------------------
(***************************************************************************)
(* The idempotency interceptor, for any number of requests and keys.  The  *)
(* argument is the exclusive claim: the request that inserted the row of a *)
(* key is the only one that ever gets past the claim, because the row is   *)
(* never deleted.                                                          *)
(***************************************************************************)
EXTENDS Idempotency, TLAPS

-----------------------------------------------------------------------------
(* The inductive invariant. *)

(* One request holds a key for good: the row is there, with its body, and   *)
(* nobody else got past the claim.                                          *)
ClaimIsExclusive ==
    LET passed == {r \in Requests : pc[r] \in {"claimed", "committed"}} \cup orders IN
    /\ \A r \in passed :
          row[KeyOf[r]] # NoRow /\ row[KeyOf[r]].body = BodyOf[r]
    /\ \A r, q \in passed : KeyOf[r] = KeyOf[q] => r = q
    /\ \A r \in passed : pc[r] \notin {"idle", "unclaimed"}
    /\ \A r \in orders : pc[r] # "claimed"

ResponsesAreOrders ==
    /\ \A r \in Requests : pc[r] = "committed" => r \in orders
    /\ writing \subseteq orders
    /\ \A k \in Keys : row[k].response # "none" =>
          row[k].response \in orders /\ KeyOf[row[k].response] = k

(* A replay is the answer to the same question: the order it tells of was   *)
(* made, under the same key, from the same body.                            *)
ReplayIsOriginal ==
    \A r \in Requests : answer[r].kind = "replayed" =>
        /\ answer[r].order \in orders
        /\ KeyOf[answer[r].order] = KeyOf[r]
        /\ BodyOf[answer[r].order] = BodyOf[r]

IInv == TypeOK /\ ClaimIsExclusive /\ ResponsesAreOrders /\ ReplayIsOriginal

(* A key without an answer is held by a request that is at work, or failed. *)
HolderIsKnown ==
    /\ \A k \in Keys : row[k] # NoRow /\ row[k].response = "none" =>
          \E q \in Requests : KeyOf[q] = k /\ (UnderWay(q) \/ q \in failed)
    /\ \A q \in writing \cup failed : pc[q] = "done"

-----------------------------------------------------------------------------
(* Before the first request no key is claimed.                              *)
LEMMA InitInv == Init => IInv
  BY IdempotencyAssumption
  DEF Init, IInv, TypeOK, ClaimIsExclusive, ResponsesAreOrders,
      ReplayIsOriginal, NoRow, Unanswered, Kinds

(* The answer a look-up finds in the table. *)
LEMMA ExistingIsTyped ==
  ASSUME NEW r \in Requests, IInv, row[KeyOf[r]] # NoRow
  PROVE  /\ ExistingAnswer(r) \in [kind : Kinds, order : Requests \cup {"none"}]
         /\ ExistingAnswer(r).kind = "replayed" =>
               /\ ExistingAnswer(r).order \in orders
               /\ KeyOf[ExistingAnswer(r).order] = KeyOf[r]
               /\ BodyOf[ExistingAnswer(r).order] = BodyOf[r]
<1> DEFINE k == row[KeyOf[r]]
<1>1. k \in [body : Bodies \cup {"none"}, response : Requests \cup {"none"}]
  BY IdempotencyAssumption DEF IInv, TypeOK
<1>2. CASE k.body # BodyOf[r]
  <2>1. ExistingAnswer(r) = [kind |-> "otherBody", order |-> "none"]
    BY <1>2 DEF ExistingAnswer, Said
  <2>2. QED BY <2>1 DEF Kinds
<1>3. CASE k.body = BodyOf[r] /\ k.response # "none"
  <2>1. ExistingAnswer(r) = [kind |-> "replayed", order |-> k.response]
    BY <1>3 DEF ExistingAnswer
  <2>2. k.response \in orders /\ KeyOf[k.response] = KeyOf[r]
    BY <1>3, IdempotencyAssumption DEF IInv, ResponsesAreOrders
  <2>3. BodyOf[k.response] = BodyOf[r]
    BY <1>3, <2>2 DEF IInv, ClaimIsExclusive
  <2>4. QED BY <1>1, <1>3, <2>1, <2>2, <2>3 DEF Kinds
<1>4. CASE k.body = BodyOf[r] /\ k.response = "none"
  <2>1. ExistingAnswer(r) = [kind |-> "busy", order |-> "none"]
    BY <1>4 DEF ExistingAnswer, Said
  <2>2. QED BY <2>1 DEF Kinds
<1>5. QED BY <1>2, <1>3, <1>4

(* Steps that leave the rows alone and run no handler. *)
LEMMA AnswerInv ==
  ASSUME NEW r \in Requests, IInv,
         LookUp(r) \/ ClaimTaken(r) \/ HandlerFails(r) \/ Lost(r)
  PROVE  IInv'
<1> USE DEF IInv, TypeOK
<1>1. UNCHANGED <<row, orders, writing>> /\ failed' \subseteq Requests
  BY DEF LookUp, ClaimTaken, HandlerFails, Lost
<1>2. PICK p \in {"unclaimed", "done"} : pc' = [pc EXCEPT ![r] = p]
  BY DEF LookUp, ClaimTaken, HandlerFails, Lost, Finish
<1>3. /\ answer' \in [Requests -> [kind : Kinds, order : Requests \cup {"none"}]]
      /\ ReplayIsOriginal'
  <2> USE DEF ReplayIsOriginal
  <2>1. CASE LookUp(r) /\ row[KeyOf[r]] = NoRow
    BY <2>1, <1>1 DEF LookUp
  <2>2. CASE LookUp(r) /\ row[KeyOf[r]] # NoRow
    <3>1. answer' = [answer EXCEPT ![r] = ExistingAnswer(r)]
      BY <2>2 DEF LookUp, Finish
    <3>2. QED BY <3>1, <2>2, <1>1, ExistingIsTyped
  <2>3. CASE ClaimTaken(r) \/ HandlerFails(r) \/ Lost(r)
    <3>1. PICK kind \in Kinds \ {"replayed"} :
             answer' = [answer EXCEPT ![r] = [kind |-> kind, order |-> "none"]]
      BY <2>3 DEF ClaimTaken, HandlerFails, Lost, Finish, Said, Unanswered, Kinds
    <3>2. QED BY <3>1, <1>1
  <2>4. QED BY <2>1, <2>2, <2>3
<1>4. /\ pc' \in [Requests -> {"idle", "unclaimed", "claimed", "committed", "done"}]
      /\ pc[r] # "committed" \/ p = "done"
      /\ p = "unclaimed" => pc[r] = "idle"
  BY <1>2 DEF LookUp, ClaimTaken, HandlerFails, Lost, Finish
<1>5. ClaimIsExclusive'
  BY <1>1, <1>2, <1>4 DEF ClaimIsExclusive
<1>6. ResponsesAreOrders'
  BY <1>1, <1>2, <1>4 DEF ResponsesAreOrders
<1>7. QED BY <1>1, <1>3, <1>4, <1>5, <1>6

(* A claim keeps the invariant: the row is inserted, once.                  *)
LEMMA ClaimInv ==
  ASSUME NEW r \in Requests, IInv, Claim(r)
  PROVE  IInv'
<1> USE IdempotencyAssumption DEF IInv, TypeOK, Claim, ClaimFree
<1>1. row' \in [Keys -> [body : Bodies \cup {"none"}, response : Requests \cup {"none"}]]
  BY DEF Bodies
<1>2. TypeOK'
  BY <1>1
<1>3. \A q \in Requests : pc[q] \in {"claimed", "committed"} \/ q \in orders =>
         KeyOf[q] # KeyOf[r]
  BY DEF ClaimIsExclusive
<1>4. row'[KeyOf[r]] # NoRow
  BY DEF NoRow
<1>5. ClaimIsExclusive'
  BY <1>3, <1>4 DEF ClaimIsExclusive
<1>6. ResponsesAreOrders'
  BY DEF ResponsesAreOrders
<1>7. ReplayIsOriginal'
  BY DEF ReplayIsOriginal
<1>8. QED BY <1>2, <1>5, <1>6, <1>7

(* So do the steps of the handler and of the store after it.                *)
LEMMA HandlerInv ==
  ASSUME NEW r \in Requests, IInv,
         HandlerCommits(r) \/ Respond(r) \/ StoreResponse(r) \/ StoreFails(r)
  PROVE  IInv'
<1> USE IdempotencyAssumption
<1> USE DEF IInv, TypeOK, ClaimIsExclusive, ResponsesAreOrders, ReplayIsOriginal
<1>1. CASE HandlerCommits(r)
  BY <1>1 DEF HandlerCommits
<1>2. CASE Respond(r)
  BY <1>2 DEF Respond, Finish, Kinds
<1>3. CASE StoreResponse(r)
  BY <1>3 DEF StoreResponse, Stored, NoRow
<1>4. CASE StoreFails(r)
  BY <1>4 DEF StoreFails
<1>5. QED BY <1>1, <1>2, <1>3, <1>4

(* Every step keeps the invariant.                                          *)
LEMMA InvStep == IInv /\ [Next]_vars => IInv'
<1> SUFFICES ASSUME IInv, [Next]_vars PROVE IInv'
  OBVIOUS
<1>1. ASSUME NEW r \in Requests, Step(r) PROVE IInv'
  BY <1>1, AnswerInv, ClaimInv, HandlerInv DEF Step
<1>2. CASE UNCHANGED vars
  BY <1>2 DEF vars, IInv, TypeOK, ClaimIsExclusive, ResponsesAreOrders,
              ReplayIsOriginal
<1>3. QED BY <1>1, <1>2 DEF Next

(* The inductive invariant: claims are exclusive, and responses tell of     *)
(* orders that were made.                                                   *)
THEOREM InvariantHolds == Spec => []IInv
<1>1. Init => IInv
  BY InitInv
<1>2. IInv /\ [Next]_vars => IInv'
  BY InvStep
<1>3. QED BY <1>1, <1>2, PTL DEF Spec

(* One key makes one order, however often and however concurrently its      *)
(* request is sent (idempotency.interceptor.ts, claim).                     *)
THEOREM OneOrder == Spec => []OneOrderPerKey
<1>1. IInv => OneOrderPerKey
  BY DEF IInv, ClaimIsExclusive, OneOrderPerKey
<1>2. QED BY <1>1, InvariantHolds, PTL

(* A replayed answer tells of an order made under its key from its body.    *)
THEOREM ReplayHolds == Spec => []ReplayIsOriginal
<1>1. IInv => ReplayIsOriginal
  BY DEF IInv
<1>2. QED BY <1>1, InvariantHolds, PTL

(* Who holds a key is known: at work, or on record as failed. *)
LEMMA HolderStep == IInv /\ HolderIsKnown /\ [Next]_vars => HolderIsKnown'
<1> USE IdempotencyAssumption DEF IInv, TypeOK, HolderIsKnown, UnderWay
<1> SUFFICES ASSUME IInv, HolderIsKnown, [Next]_vars PROVE HolderIsKnown'
  OBVIOUS
<1>1. ASSUME NEW r \in Requests, LookUp(r) \/ ClaimTaken(r) PROVE HolderIsKnown'
  BY <1>1 DEF LookUp, ClaimTaken, Finish
<1>2. ASSUME NEW r \in Requests, Claim(r) PROVE HolderIsKnown'
  BY <1>2 DEF Claim
<1>3. ASSUME NEW r \in Requests, HandlerCommits(r) PROVE HolderIsKnown'
  BY <1>3 DEF HandlerCommits
<1>4. ASSUME NEW r \in Requests, HandlerFails(r) \/ Lost(r) PROVE HolderIsKnown'
  BY <1>4 DEF HandlerFails, Lost, Finish
<1>5. ASSUME NEW r \in Requests, Respond(r) PROVE HolderIsKnown'
  BY <1>5 DEF Respond, Finish
<1>6. ASSUME NEW r \in Requests, StoreResponse(r) PROVE HolderIsKnown'
  <2>1. /\ row'[KeyOf[r]].response = r
        /\ \A k \in Keys : k # KeyOf[r] => row'[k] = row[k]
    BY <1>6 DEF StoreResponse, Stored
  <2>2. QED BY <1>6, <2>1 DEF StoreResponse
<1>7. ASSUME NEW r \in Requests, StoreFails(r) PROVE HolderIsKnown'
  BY <1>7 DEF StoreFails
<1>8. CASE UNCHANGED vars
  BY <1>8 DEF vars
<1>9. QED
  BY <1>1, <1>2, <1>3, <1>4, <1>5, <1>6, <1>7, <1>8 DEF Next, Step

(* A customer who is told that the previous request is still processed has  *)
(* one under the key that is at work, or one that failed and holds the key. *)
THEOREM BusyIsEarned == Spec => BusyHasCause
<1> DEFINE Earned ==
      \A r \in Requests :
          answer[r].kind # "busy" /\ answer'[r].kind = "busy" =>
              \E q \in Requests \ {r} :
                  KeyOf[q] = KeyOf[r] /\ (UnderWay(q) \/ q \in failed)
<1>1. Init => HolderIsKnown
  BY DEF Init, HolderIsKnown
<1>2. IInv /\ HolderIsKnown /\ [Next]_vars => [Earned]_vars
  <2> SUFFICES ASSUME IInv, HolderIsKnown, NEW r \in Requests, [Next]_vars,
                      answer[r].kind # "busy", answer'[r].kind = "busy"
               PROVE  \E q \in Requests \ {r} :
                          KeyOf[q] = KeyOf[r] /\ (UnderWay(q) \/ q \in failed)
    OBVIOUS
  <2>1. LookUp(r) /\ row[KeyOf[r]] # NoRow /\ ExistingAnswer(r).kind = "busy"
    <3>1. ASSUME UNCHANGED answer PROVE FALSE
      BY <3>1
    <3>2. PICK q \in Requests : Step(q)
      BY <3>1 DEF Next, vars
    <3>3. ASSUME NEW a, Finish(q, a) PROVE q = r /\ a.kind = "busy"
      BY <3>3 DEF Finish, IInv, TypeOK
    <3>4. LookUp(q)
      <4>1. ~ClaimTaken(q) /\ ~HandlerFails(q)
        BY <3>3 DEF ClaimTaken, HandlerFails, Said
      <4>2. ~Respond(q) /\ ~Lost(q)
        BY <3>3 DEF Respond, Lost, Unanswered
      <4>3. QED
        BY <3>1, <3>2, <4>1, <4>2 DEF Step, Claim, HandlerCommits, StoreResponse, StoreFails
    <3>5. QED BY <3>1, <3>3, <3>4 DEF LookUp
  <2>2. row[KeyOf[r]].response = "none"
    BY <2>1 DEF ExistingAnswer, Said
  <2>3. PICK q \in Requests : KeyOf[q] = KeyOf[r] /\ (UnderWay(q) \/ q \in failed)
    BY <2>1, <2>2, IdempotencyAssumption DEF HolderIsKnown
  <2>4. q # r
    BY <2>1, <2>3 DEF LookUp, HolderIsKnown, UnderWay
  <2>5. QED BY <2>3, <2>4
<1>3. QED
  BY <1>1, <1>2, HolderStep, InvariantHolds, PTL DEF Spec, BusyHasCause

-----------------------------------------------------------------------------
(* The abstract specification. *)

(* A request is answered with its last step only. *)
AnsweredAtTheEnd == \A r \in Requests : pc[r] # "done" => answer[r] = Unanswered

(* An answer is given once.                                                 *)
LEMMA AnsweredStep ==
  IInv /\ AnsweredAtTheEnd /\ [Next]_vars => AnsweredAtTheEnd'
<1> SUFFICES ASSUME IInv, AnsweredAtTheEnd, [Next]_vars PROVE AnsweredAtTheEnd'
  OBVIOUS
<1> USE DEF IInv, TypeOK, AnsweredAtTheEnd
<1>1. ASSUME NEW r \in Requests, NEW a, Finish(r, a) PROVE AnsweredAtTheEnd'
  BY <1>1 DEF Finish
<1>2. ASSUME NEW r \in Requests, UNCHANGED answer,
             \A q \in Requests : pc'[q] # "done" => pc[q] # "done"
      PROVE  AnsweredAtTheEnd'
  BY <1>2
<1>3. ASSUME NEW r \in Requests, LookUp(r) PROVE AnsweredAtTheEnd'
  BY <1>1, <1>3 DEF LookUp
<1>4. ASSUME NEW r \in Requests,
             ClaimTaken(r) \/ HandlerFails(r) \/ Respond(r) \/ Lost(r)
      PROVE  AnsweredAtTheEnd'
  BY <1>1, <1>4 DEF ClaimTaken, HandlerFails, Respond, Lost
<1>5. ASSUME NEW r \in Requests,
             Claim(r) \/ HandlerCommits(r) \/ StoreResponse(r) \/ StoreFails(r)
      PROVE  AnsweredAtTheEnd'
  BY <1>2, <1>5 DEF Claim, HandlerCommits, StoreResponse, StoreFails
<1>6. CASE UNCHANGED vars
  BY <1>6 DEF vars
<1>7. QED BY <1>3, <1>4, <1>5, <1>6 DEF Next, Step

(* Every step of the interceptor makes an order, gives an answer, or is     *)
(* nobody's business.                                                       *)
LEMMA OnceStep ==
  IInv /\ AnsweredAtTheEnd /\ [Next]_vars => [Once!Next]_(Once!vars)
<1> SUFFICES ASSUME IInv, AnsweredAtTheEnd, [Next]_vars
             PROVE  Once!Next \/ UNCHANGED Once!vars
  OBVIOUS
<1> USE DEF AnsweredAtTheEnd, Once!vars
<1>1. \A r \in Requests : answer[r] = Unanswered => answer[r] = Once!Nothing
  BY DEF Unanswered, Once!Nothing
<1>2. ASSUME NEW r \in Requests, LookUp(r) PROVE Once!Next \/ UNCHANGED Once!vars
  <2>1. CASE row[KeyOf[r]] = NoRow
    BY <1>2, <2>1 DEF LookUp
  <2>2. CASE row[KeyOf[r]] # NoRow
    <3> DEFINE a == ExistingAnswer(r)
    <3>1. /\ answer[r] = Once!Nothing /\ UNCHANGED orders
          /\ answer' = [answer EXCEPT ![r] = a]
      BY <1>1, <1>2, <2>2 DEF LookUp, Finish
    <3>2. r \notin orders
      BY <1>2 DEF LookUp, IInv, ClaimIsExclusive
    <3>3. CASE a.kind = "replayed"
      <4>1. a = [kind |-> "replayed", order |-> a.order]
        BY <3>3 DEF ExistingAnswer, Said
      <4>2. a.order \in orders \ {r} /\ KeyOf[a.order] = KeyOf[r]
            /\ BodyOf[a.order] = BodyOf[r]
        BY <2>2, <3>2, <3>3, ExistingIsTyped
      <4>3. Once!TellAgain(r)
        BY <3>1, <4>1, <4>2 DEF Once!TellAgain, Once!Answer
      <4>4. QED BY <4>3 DEF Once!Next
    <3>4. CASE a.kind # "replayed"
      <4>1. \E kind \in Once!Refusals : a = [kind |-> kind, order |-> "none"]
        BY <3>4 DEF ExistingAnswer, Said, Once!Refusals
      <4>2. Once!Refuse(r)
        BY <3>1, <3>2, <4>1 DEF Once!Refuse, Once!Answer
      <4>3. QED BY <4>2 DEF Once!Next
    <3>5. QED BY <3>3, <3>4
  <2>3. QED BY <2>1, <2>2
<1>3. ASSUME NEW r \in Requests, ClaimTaken(r) \/ HandlerFails(r) PROVE Once!Next
  <2>1. r \notin orders
    BY <1>3 DEF ClaimTaken, HandlerFails, IInv, ClaimIsExclusive
  <2>2. answer[r] = Once!Nothing /\ UNCHANGED orders
    BY <1>1, <1>3 DEF ClaimTaken, HandlerFails
  <2>3. \E kind \in Once!Refusals :
           answer' = [answer EXCEPT ![r] = [kind |-> kind, order |-> "none"]]
    BY <1>3 DEF ClaimTaken, HandlerFails, Finish, Said, Once!Refusals
  <2>4. Once!Refuse(r)
    BY <2>1, <2>2, <2>3 DEF Once!Refuse, Once!Answer
  <2>5. QED BY <2>4 DEF Once!Next
<1>4. ASSUME NEW r \in Requests, HandlerCommits(r) PROVE Once!Next
  <2>1. answer[r] = Once!Nothing /\ orders' = orders \cup {r} /\ UNCHANGED answer
    BY <1>1, <1>4 DEF HandlerCommits
  <2>2. \A o \in orders : KeyOf[o] # KeyOf[r]
    BY <1>4 DEF HandlerCommits, IInv, ClaimIsExclusive
  <2>3. QED BY <2>1, <2>2 DEF Once!Next, Once!Make
<1>5. ASSUME NEW r \in Requests, Respond(r) PROVE Once!Next
  <2>1. r \in orders
    BY <1>5 DEF Respond, IInv, ResponsesAreOrders
  <2>2. Once!Tell(r)
    BY <1>1, <1>5, <2>1 DEF Respond, Finish, Once!Tell, Once!Answer
  <2>3. QED BY <2>2 DEF Once!Next
<1>6. ASSUME NEW r \in Requests, Lost(r) PROVE UNCHANGED Once!vars
  <2>1. answer' = [answer EXCEPT ![r] = Unanswered] /\ answer[r] = Unanswered
        /\ UNCHANGED orders
    BY <1>6 DEF Lost, Finish
  <2>2. answer' = answer
    BY <2>1 DEF IInv, TypeOK
  <2>3. QED BY <2>1, <2>2
<1>7. ASSUME NEW r \in Requests, Claim(r) \/ StoreResponse(r) \/ StoreFails(r)
      PROVE  UNCHANGED Once!vars
  BY <1>7 DEF Claim, StoreResponse, StoreFails
<1>8. CASE UNCHANGED vars
  BY <1>8 DEF vars
<1>9. QED
  BY <1>2, <1>3, <1>4, <1>5, <1>6, <1>7, <1>8 DEF Next, Step

(* The interceptor implements one order per key: look-ups, claims, handlers *)
(* and stores of any number of requests, in any order and with any of them  *)
(* lost, come to orders that are made once and answers that are given once. *)
THEOREM Refinement == Spec => AnswersOncePerKey
<1>1. Init => AnsweredAtTheEnd
  BY DEF Init, AnsweredAtTheEnd
<1>2. Init => Once!Init
  BY DEF Init, Once!Init, Unanswered, Once!Nothing
<1>3. QED
  BY <1>1, <1>2, AnsweredStep, OnceStep, InvariantHolds, PTL
     DEF Spec, AnswersOncePerKey, Once!Spec
===============================================================================
