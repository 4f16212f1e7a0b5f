---------------------------- MODULE SignIn_proofs ----------------------------
(***************************************************************************)
(* Customer references, for any number of sign-ins and phones: while the   *)
(* row of the counter is locked its holder alone has a number, the next    *)
(* one, so that committing it extends 1..counter by one.  A request that   *)
(* has its code checked first is a sign-in of the same specification, and  *)
(* a code that has ended is not right again.                               *)
(***************************************************************************)
EXTENDS VerifyCode, TLAPS

-----------------------------------------------------------------------------
(* The inductive invariant: whoever holds the lock has the next number.     *)
LockHolderHasNext ==
    /\ \A s, t \in SignIns :
          /\ pc[s] \in {"numbered", "inserted"}
          /\ pc[t] \in {"numbered", "inserted"}
          => s = t
    /\ \A s \in SignIns :
          pc[s] \in {"numbered", "inserted"} => number[s] = counter + 1
    /\ \A s \in SignIns : pc[s] = "inserted" => ref[PhoneOf[s]] = 0

IInv == TypeOK /\ RefsGapless /\ LockHolderHasNext

-----------------------------------------------------------------------------
(* Before the first sign-in the invariant holds.                            *)
LEMMA InitInv == Init => IInv
<1> SUFFICES ASSUME Init PROVE IInv
  OBVIOUS
<1>1. Registered = {} /\ 1..counter = {}
  BY DEF Init, Registered
<1>2. RefsGapless
  BY <1>1 DEF RefsGapless
<1>3. QED BY <1>2 DEF Init, IInv, TypeOK, LockHolderHasNext, Stages

(* Committing number counter + 1 extends the references by one. *)
LEMMA CommitExtends ==
  ASSUME NEW s \in SignIns, IInv, Commit(s)
  PROVE  RefsGapless'
<1> USE SignInAssumption DEF IInv, TypeOK, LockHolderHasNext
<1> DEFINE ph == PhoneOf[s]
<1>1. /\ ph \in Phones /\ ref[ph] = 0 /\ number[s] = counter + 1
      /\ counter' = counter + 1 /\ ref' = [ref EXCEPT ![ph] = counter + 1]
  BY DEF Commit, Counted
<1>2. Registered' = Registered \cup {ph} /\ ph \notin Registered
  BY <1>1 DEF Registered
<1>3. \A p \in Registered : p \in Phones /\ ref'[p] = ref[p] /\ ref[p] \in 1..counter
  BY <1>1, <1>2 DEF Registered, RefsGapless
<1>4. {ref'[p] : p \in Registered'} = {ref[p] : p \in Registered} \cup {counter + 1}
  BY <1>1, <1>2, <1>3
<1>5. {ref'[p] : p \in Registered'} = 1..counter'
  <2>1. 1..(counter + 1) = (1..counter) \cup {counter + 1}
    OBVIOUS
  <2>2. QED BY <1>1, <1>4, <2>1 DEF RefsGapless
<1>6. \A p, q \in Registered' : ref'[p] = ref'[q] => p = q
  BY <1>1, <1>2, <1>3 DEF RefsGapless
<1>7. QED BY <1>5, <1>6 DEF RefsGapless

(* Steps that commit nothing. *)
LEMMA OpenStepInv ==
  ASSUME NEW s \in SignIns, IInv,
         Find(s) \/ next(s) \/ Insert(s) \/ InsertRefused(s) \/ issue(s) \/ Abort(s)
  PROVE  IInv'
<1> USE SignInAssumption DEF IInv, TypeOK, LockHolderHasNext
<1>1. UNCHANGED <<counter, ref>>
  BY DEF Find, next, Insert, InsertRefused, issue, Abort
<1>2. RefsGapless'
  BY <1>1 DEF RefsGapless, Registered
<1>3. CASE Find(s)
  BY <1>2, <1>3 DEF Find, Stages
<1>4. CASE next(s)
  BY <1>2, <1>4 DEF next, CounterFree, Stages
<1>5. CASE Insert(s)
  BY <1>2, <1>5 DEF Insert, Taken, Stages
<1>6. CASE InsertRefused(s) \/ issue(s) \/ Abort(s)
  BY <1>2, <1>6 DEF InsertRefused, issue, Abort, Stages
<1>7. QED BY <1>3, <1>4, <1>5, <1>6

(* A commit adds the reference that follows on the others.                  *)
LEMMA CommitInv ==
  ASSUME NEW s \in SignIns, IInv, Commit(s)
  PROVE  IInv'
<1>1. RefsGapless'
  BY CommitExtends
<1>2. TypeOK'
  BY DEF IInv, TypeOK, Commit, Counted, Stages
<1>3. LockHolderHasNext'
  BY SignInAssumption DEF IInv, TypeOK, LockHolderHasNext, Commit
<1>4. QED BY <1>1, <1>2, <1>3 DEF IInv

(* Every step keeps the invariant.                                          *)
LEMMA InvStep == IInv /\ [Next]_vars => IInv'
<1> SUFFICES ASSUME IInv, [Next]_vars PROVE IInv'
  OBVIOUS
<1>1. ASSUME NEW s \in SignIns, Step(s) \/ Abort(s) PROVE IInv'
  BY <1>1, OpenStepInv, CommitInv DEF Step
<1>2. CASE UNCHANGED vars
  BY <1>2 DEF vars, IInv, TypeOK, RefsGapless, Registered, LockHolderHasNext
<1>3. QED BY <1>1, <1>2 DEF Next

(* The inductive invariant of the references.                               *)
LEMMA InvariantHolds == Spec => []IInv
<1>1. Init => IInv
  BY InitInv
<1>2. IInv /\ [Next]_vars => IInv'
  BY InvStep
<1>3. QED BY <1>1, <1>2, PTL DEF Spec

(* Customer references are 1, 2, 3 .. with no gap and no repetition, for    *)
(* any number of sign-ups at once (reference.service.ts, next).             *)
THEOREM References == Spec => []RefsGapless
<1>1. IInv => RefsGapless
  BY DEF IInv
<1>2. QED BY <1>1, InvariantHolds, PTL

(* The unique index on customerRef never refuses a sign-up.                 *)
THEOREM NoCollision == Spec => []RefusedForPhoneOnly
<1>1. IInv => RefusedForPhoneOnly
  <2> SUFFICES ASSUME IInv, NEW s \in SignIns, pc[s] = "numbered", NEW p \in Phones,
                      ref[p] = number[s]
               PROVE  FALSE
    BY DEF RefusedForPhoneOnly, Taken
  <2>1. number[s] = counter + 1 /\ counter \in Nat
    BY DEF IInv, LockHolderHasNext, TypeOK
  <2>2. p \in Registered
    BY <2>1 DEF Registered
  <2>3. ref[p] \in 1..counter
    BY <2>2 DEF IInv, RefsGapless
  <2>4. QED BY <2>1, <2>3
<1>2. QED BY <1>1, InvariantHolds, PTL

-----------------------------------------------------------------------------
(* OtpService.verify in front of the sign-in. *)

(* With the code checked in front, sign-ins are those of SignIn: only a     *)
(* request that was right takes one of its steps.                           *)
THEOREM VerifyThenSignIn == VerifySpec => Spec
<1>1. VerifyInit => Init
  BY DEF VerifyInit
<1>2. [VerifyNext]_<<vars, verifyVars>> => [Next]_vars
  BY DEF VerifyNext, Next, vars
<1>3. QED BY <1>1, <1>2, PTL DEF VerifySpec, Spec

(* So what holds of the references holds of customers who come with codes,  *)
(* right and wrong ones, used side by side or lost.                         *)
THEOREM ReferencesBehindCodes == VerifySpec => [](RefsGapless /\ RefusedForPhoneOnly)
BY VerifyThenSignIn, References, NoCollision, PTL

(* The inductive invariant: the count of the row misses no wrong answer, a  *)
(* code that was right once is not live again, and a request that came too  *)
(* late is past the comparison.                                             *)
UsedIsNotLive == \A p \in Phones : Used(p) => challenge[p] # "live"

LateIsTurnedAway == \A s \in late : verify[s] \in {"deleting", "ended"}

VerifyInv == VerifyTypeOK /\ attempts = wrong /\ UsedIsNotLive /\ LateIsTurnedAway

(* Before the first verification the invariant holds.                       *)
LEMMA VerifyInitInv == VerifyInit => VerifyInv
BY VerifyAssumption
   DEF VerifyInit, VerifyInv, VerifyTypeOK, VerifyStages, UsedIsNotLive, Used, LateIsTurnedAway

(* Where the verification of a request stands after a step of it, and that  *)
(* the others stand where they stood.                                       *)
LEMMA Reaches ==
  ASSUME VerifyTypeOK, NEW s \in SignIns, NEW stage \in VerifyStages, NEW n,
         Reach(s, stage, n)
  PROVE  /\ verify' \in [SignIns -> VerifyStages]
         /\ verify'[s] = stage
         /\ \A t \in SignIns : t # s => verify'[t] = verify[t]
BY DEF Reach, VerifyTypeOK

(* A challenge that was used up, or has had its wrong answers, turns away   *)
(* whoever looks it up.                                                     *)
LEMMA LookUpInv ==
  ASSUME VerifyInv, NEW s \in SignIns, LookUp(s)
  PROVE  VerifyInv'
<1> USE SignInAssumption DEF VerifyInv, VerifyTypeOK
<1> DEFINE p == PhoneOf[s]
<1>1. p \in Phones /\ verify[s] = "idle" /\ UNCHANGED <<rows, wrong>>
  BY DEF LookUp
<1>2. PICK stage \in {"ended", "deleting", "comparing"} : \E n : Reach(s, stage, n)
  BY DEF LookUp, End
<1>3. /\ verify' \in [SignIns -> VerifyStages] /\ verify'[s] = stage
      /\ \A t \in SignIns : t # s => verify'[t] = verify[t]
  BY <1>2, Reaches DEF VerifyStages
<1>4. Used(p) \/ wrong[p] >= MaxAttempts => stage \in {"ended", "deleting"}
  BY <1>1, <1>3 DEF LookUp, End, Reach, UsedIsNotLive
<1>5. LateIsTurnedAway'
  BY <1>3, <1>4 DEF LookUp, LateIsTurnedAway
<1>6. UsedIsNotLive'
  BY <1>1, <1>2, <1>3 DEF UsedIsNotLive, Used, rows
<1>7. late' \subseteq SignIns
  BY DEF LookUp
<1>8. QED BY <1>1, <1>3, <1>5, <1>6, <1>7 DEF rows

(* Using a code up keeps the invariant.                                     *)
LEMMA ConsumeInv ==
  ASSUME VerifyInv, NEW s \in SignIns, Consume(s)
  PROVE  VerifyInv'
<1> USE SignInAssumption DEF VerifyInv, VerifyTypeOK
<1> DEFINE p == PhoneOf[s]
<1>1. /\ p \in Phones /\ verify[s] = "comparing"
      /\ UNCHANGED <<attempts, expired, wrong, late>>
  BY DEF Consume
<1>2. PICK stage \in {"ended", "right"} : Reach(s, stage, 0)
  BY DEF Consume, End
<1>3. /\ verify' \in [SignIns -> VerifyStages] /\ verify'[s] = stage
      /\ \A t \in SignIns : t # s => verify'[t] = verify[t]
  BY <1>2, Reaches DEF VerifyStages
<1>4. LateIsTurnedAway'
  BY <1>1, <1>3 DEF LateIsTurnedAway
<1>5. /\ challenge' \in [Phones -> {"live", "used", "gone"}]
      /\ \A q \in Phones : challenge'[q] = "live" => challenge[q] = "live"
      /\ stage = "right" => challenge'[p] = "used"
  BY <1>1, <1>3 DEF Consume, End, Reach
<1>6. UsedIsNotLive'
  BY <1>1, <1>3, <1>5 DEF UsedIsNotLive, Used
<1>7. QED BY <1>1, <1>3, <1>4, <1>5, <1>6

(* The row counts every wrong answer, though requests overlap. *)
LEMMA CountWrongInv ==
  ASSUME VerifyInv, NEW s \in SignIns, CountWrong(s)
  PROVE  VerifyInv'
<1> USE SignInAssumption DEF VerifyInv, VerifyTypeOK
<1>1. /\ PhoneOf[s] \in Phones /\ verify[s] = "comparing"
      /\ UNCHANGED <<challenge, expired, late>>
  BY DEF CountWrong
<1>2. PICK stage \in {"ended", "deleting"} : Reach(s, stage, 0)
  BY DEF CountWrong, End
<1>3. /\ verify' \in [SignIns -> VerifyStages] /\ verify'[s] = stage
      /\ \A t \in SignIns : t # s => verify'[t] = verify[t]
  BY <1>2, Reaches DEF VerifyStages
<1>4. LateIsTurnedAway'
  BY <1>1, <1>3 DEF LateIsTurnedAway
<1>5. attempts' = wrong' /\ wrong' \in [Phones -> Nat]
  BY <1>1 DEF CountWrong, Incremented
<1>6. UsedIsNotLive'
  BY <1>1, <1>3 DEF UsedIsNotLive, Used
<1>7. QED BY <1>1, <1>3, <1>4, <1>5, <1>6

(* Deleting a challenge, or losing a request, keeps it.                     *)
LEMMA LeaveInv ==
  ASSUME VerifyInv, NEW s \in SignIns, Delete(s) \/ Lose(s)
  PROVE  VerifyInv'
<1> USE SignInAssumption DEF VerifyInv, VerifyTypeOK
<1>1. verify[s] \in {"comparing", "deleting"} /\ UNCHANGED <<attempts, expired, wrong, late>>
  BY DEF Delete, Lose, rows
<1>2. /\ verify' \in [SignIns -> VerifyStages] /\ verify'[s] = "ended"
      /\ \A t \in SignIns : t # s => verify'[t] = verify[t]
  BY Reaches DEF Delete, Lose, End, VerifyStages
<1>3. LateIsTurnedAway'
  BY <1>1, <1>2 DEF LateIsTurnedAway
<1>4. /\ challenge' \in [Phones -> {"live", "used", "gone"}]
      /\ \A q \in Phones : challenge'[q] = "live" => challenge[q] = "live"
  BY DEF Delete, Lose, rows
<1>5. UsedIsNotLive'
  BY <1>2, <1>4 DEF UsedIsNotLive, Used
<1>6. QED BY <1>1, <1>2, <1>3, <1>4, <1>5

(* Every step keeps the invariant of the codes.                             *)
LEMMA VerifyInvStep == VerifyInv /\ [VerifyNext]_<<vars, verifyVars>> => VerifyInv'
<1> SUFFICES ASSUME VerifyInv, [VerifyNext]_<<vars, verifyVars>> PROVE VerifyInv'
  OBVIOUS
<1>1. ASSUME NEW s \in SignIns, VerifyStep(s) PROVE VerifyInv'
  BY <1>1, LookUpInv, ConsumeInv, CountWrongInv, LeaveInv DEF VerifyStep
<1>2. ASSUME NEW p \in Phones, RunOut(p) PROVE VerifyInv'
  BY <1>2 DEF RunOut, VerifyInv, VerifyTypeOK, UsedIsNotLive, Used, LateIsTurnedAway
<1>3. CASE UNCHANGED verifyVars
  BY <1>3 DEF verifyVars, rows, VerifyInv, VerifyTypeOK, UsedIsNotLive, Used, LateIsTurnedAway
<1>4. QED BY <1>1, <1>2, <1>3 DEF VerifyNext

(* Whoever looks a code up after it was used, or after its attempts, is not *)
(* signed in by it, for any number of requests beside each other.           *)
THEOREM CodesEnd == VerifySpec => []CodeEnds
<1>1. VerifyInv => CodeEnds
  BY DEF VerifyInv, LateIsTurnedAway, CodeEnds
<1>2. QED BY VerifyInitInv, VerifyInvStep, <1>1, PTL DEF VerifySpec
==============================================================================
