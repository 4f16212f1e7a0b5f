--------------------------- MODULE Outbox_proofs ---------------------------
(***************************************************************************)
(* What is proved of the notification outbox, for any number of messages,  *)
(* any batch size and any number of attempts, with the one worker that is  *)
(* deployed.                                                               *)
(***************************************************************************)
EXTENDS Outbox, TLAPS

-----------------------------------------------------------------------------
(* With one worker, as deployed, nobody else handles what it has read.      *)
OneWorker == \A v, w \in Workers : v = w

(* The inductive invariant. *)

(* A row is written once, and untried. *)
WrittenOnce ==
    /\ \A m \in Msgs : status[m] = "NONE" => attempts[m] = 0
    /\ \A i \in DOMAIN created : status[created[i]] # "NONE"
    /\ \A i, j \in DOMAIN created : created[i] = created[j] => i = j

(* What is still to do is as the tick read it. *)
BatchIsFresh ==
    \A w \in Workers : \A x \in batch[w] :
        status[x[1]] = "PENDING" /\ attempts[x[1]] = x[2]

(* An answer is that of a message in hand. *)
IdleKnowsNothing == \A w \in Workers : batch[w] = {} => result[w] = "none"

(* Just handed over, and not recorded yet. *)
JustTaken(m) ==
    \E w \in Workers : \E x \in batch[w] :
        IsNext(w, x) /\ x[1] = m /\ result[w] = "ok"

(* Its provider writes it to the log. *)
IsLogged(m) == ChannelOf[m] \in Unwired

(* That a message was taken is on record, about to be, or in doubt; what is *)
(* about to be recorded as taken was, unless it went to the log; and what   *)
(* goes to the log is never taken.                                          *)
TakenIsKnown ==
    /\ \A m \in Msgs : taken[m] > 0 => status[m] = "SENT" \/ JustTaken(m) \/ m \in blurred
    /\ \A m \in Msgs : JustTaken(m) => taken[m] > 0 \/ IsLogged(m)
    /\ \A m \in Msgs : IsLogged(m) => taken[m] = 0

IInv ==
    /\ TypeOK /\ WrittenOnce /\ BatchIsFresh /\ IdleKnowsNothing /\ TakenIsKnown
    /\ NoNeedlessRepeat /\ OutcomeIsTrue

-----------------------------------------------------------------------------
(* The order of createdAt is strict. *)
LEMMA OlderIsStrict ==
    ASSUME TypeOK, WrittenOnce, NEW a, NEW b, Older(a, b), Older(b, a)
    PROVE  FALSE
<1>1. DOMAIN created \subseteq Int
  BY DEF TypeOK
<1> QED BY <1>1 DEF WrittenOnce, Older

(* The loop of a tick is at one row. *)
LEMMA NextIsOne ==
    ASSUME TypeOK, WrittenOnce, NEW w \in Workers, NEW x \in batch[w], NEW y \in batch[w],
           IsNext(w, x), IsNext(w, y)
    PROVE  x = y
BY OlderIsStrict DEF IsNext

(* A tick read a row once. *)
LEMMA BatchIsOnce ==
    ASSUME TypeOK, BatchIsFresh, NEW w \in Workers,
           NEW x \in batch[w], NEW y \in batch[w], x[1] = y[1]
    PROVE  x = y
<1>1. x \in Msgs \X Nat /\ y \in Msgs \X Nat
  BY DEF TypeOK
<1>2. x[2] = y[2]
  BY DEF BatchIsFresh
<1> QED BY <1>1, <1>2

(* What a provider may answer, and which message it may then have: a wired  *)
(* one says it took what it took, and one that logs takes nothing.          *)
LEMMA AnswersAre ==
    ASSUME NEW m \in Msgs, NEW o \in Outcomes(m)
    PROVE  /\ o \in Remote \cup Logged
           /\ o[1] \in Results /\ o[2] \in {0, 1}
           /\ IsLogged(m) => o[2] = 0
           /\ o[1] = "ok" /\ o[2] = 0 => IsLogged(m)
           /\ o[2] = 1 => o[1] = "ok" \/ o = <<"retry", 1>>
<1> USE DEF Remote, Logged, Refused, Results, IsLogged
<1>1. ChannelOf[m] \in Channels /\ Unwired \in SUBSET {"SMS", "EMAIL"}
  BY OutboxAssumption
<1>2. CASE ChannelOf[m] = "WHATSAPP"
  <2>1. o \in Remote
    BY <1>2 DEF Outcomes, providers, WhatsAppOutcomes
  <2> QED BY <1>1, <1>2, <2>1
<1>3. CASE ChannelOf[m] = "SMS"
  <2>1. o \in IF IsLogged(m) THEN Logged ELSE Remote
    BY <1>3 DEF Outcomes, providers, SmsOutcomes
  <2> QED BY <2>1
<1>4. CASE ChannelOf[m] = "EMAIL"
  <2>1. o \in IF IsLogged(m) THEN Logged ELSE Refused
    BY <1>4 DEF Outcomes, providers, EmailOutcomes
  <2> QED BY <2>1
<1> QED BY <1>1, <1>2, <1>3, <1>4 DEF Channels

-----------------------------------------------------------------------------
(* The inductive invariant: one lemma per operation. *)

(* Before the first message the invariant holds.                            *)
LEMMA InitHolds == Init => IInv
BY OutboxAssumption DEF Init, IInv, TypeOK, WrittenOnce, BatchIsFresh, IdleKnowsNothing,
   JustTaken, TakenIsKnown, IsLogged, NoNeedlessRepeat, OutcomeIsTrue, Results

(* Writing a message keeps the invariant.                                   *)
LEMMA EnqueueStep ==
    ASSUME IInv, NEW m \in Msgs, enqueue(m)
    PROVE  IInv'
<1> USE DEF IInv, enqueue
<1>1. TypeOK'
  BY DEF TypeOK
<1>2. /\ Len(created') = Len(created) + 1
      /\ \A i \in DOMAIN created : created'[i] = created[i]
      /\ created'[Len(created) + 1] = m
      /\ DOMAIN created = 1..Len(created) /\ Len(created) \in Nat
      /\ DOMAIN created' = 1..(Len(created) + 1)
  BY DEF TypeOK
<1>3. \A i \in DOMAIN created : created[i] # m /\ created[i] \in Msgs
  BY DEF WrittenOnce, TypeOK
<1>4. WrittenOnce'
  BY <1>2, <1>3 DEF WrittenOnce, TypeOK
<1>5. BatchIsFresh' /\ IdleKnowsNothing'
  BY DEF BatchIsFresh, IdleKnowsNothing, TypeOK
<1>6. \A a, b : b # m => (Older(a, b)' <=> Older(a, b))
  BY <1>2 DEF Older
<1>7. \A w \in Workers : \A x \in batch[w] : x[1] # m
  BY DEF BatchIsFresh
<1>8. \A w \in Workers : \A x \in batch[w] : IsNext(w, x)' <=> IsNext(w, x)
  BY <1>6, <1>7 DEF IsNext
<1>9. \A n \in Msgs : JustTaken(n)' <=> JustTaken(n)
  BY <1>8 DEF JustTaken
<1>10. TakenIsKnown'
  BY <1>9 DEF TakenIsKnown, IsLogged, TypeOK
<1>11. NoNeedlessRepeat' /\ OutcomeIsTrue'
  <2>1. status'[m] = "PENDING" /\ status[m] = "NONE"
    BY DEF TypeOK
  <2>2. attempts[m] < MaxAttempts
    BY OutboxAssumption, <2>1 DEF WrittenOnce
  <2> QED BY <2>1, <2>2 DEF NoNeedlessRepeat, OutcomeIsTrue, TypeOK
<1> QED BY <1>1, <1>4, <1>5, <1>10, <1>11

(* Time keeps it.                                                           *)
LEMMA BecomeDueStep ==
    ASSUME IInv, NEW m \in Msgs, BecomeDue(m)
    PROVE  IInv'
BY DEF IInv, BecomeDue, TypeOK, WrittenOnce, BatchIsFresh, IdleKnowsNothing, TakenIsKnown,
   JustTaken, IsLogged, IsNext, Older, NoNeedlessRepeat, OutcomeIsTrue

(* The query of a tick keeps it: with one worker no batch is in hand.       *)
LEMMA PickDueStep ==
    ASSUME IInv, OneWorker, NEW w \in Workers, PickDue(w)
    PROVE  IInv'
<1> DEFINE found == Oldest({m \in Msgs : IsDue(m)}, BatchLimit)
<1>1. \A m \in found : m \in Msgs /\ status[m] = "PENDING"
  BY DEF Oldest, IsDue
<1>2. batch' = [batch EXCEPT ![w] = {<<m, attempts[m]>> : m \in found}]
  BY DEF PickDue
<1> HIDE DEF found
<1>3. TypeOK'
  <2>1. \A m \in found : <<m, attempts[m]>> \in Msgs \X Nat
    BY <1>1 DEF IInv, TypeOK
  <2>2. {<<m, attempts[m]>> : m \in found} \in SUBSET (Msgs \X Nat)
    BY <2>1
  <2>3. UNCHANGED <<created, status, attempts, due, result, taken, blurred>>
    BY DEF PickDue
  <2> QED BY <1>2, <2>2, <2>3 DEF IInv, TypeOK
<1>4. BatchIsFresh'
  <2>1. batch'[w] = {<<m, attempts[m]>> : m \in found}
    BY <1>2 DEF IInv, TypeOK
  <2>2. \A x \in batch'[w] : status[x[1]] = "PENDING" /\ attempts[x[1]] = x[2]
    BY <1>1, <2>1
  <2>3. UNCHANGED <<status, attempts>>
    BY DEF PickDue
  <2>4. \A v \in Workers : v = w
    BY DEF OneWorker
  <2> QED BY <2>2, <2>3, <2>4 DEF BatchIsFresh
<1>5. \A v \in Workers : result[v] = "none" /\ result'[v] = "none"
  BY DEF IInv, PickDue, IdleKnowsNothing, OneWorker
<1>6. IdleKnowsNothing' /\ TakenIsKnown'
  BY <1>5 DEF IInv, PickDue, IdleKnowsNothing, TakenIsKnown, JustTaken, IsLogged
<1>7. WrittenOnce' /\ NoNeedlessRepeat' /\ OutcomeIsTrue'
  BY DEF IInv, PickDue, WrittenOnce, NoNeedlessRepeat, OutcomeIsTrue
<1> QED BY <1>3, <1>4, <1>6, <1>7 DEF IInv

(* The call of a provider keeps it, whatever the provider did and said.     *)
LEMMA SendStep ==
    ASSUME IInv, OneWorker, NEW w \in Workers, Send(w)
    PROVE  IInv'
<1> USE DEF IInv
<1>0. PICK x \in batch[w] : \E o \in Outcomes(x[1]) :
        /\ IsNext(w, x)
        /\ result' = [result EXCEPT ![w] = o[1]]
        /\ taken' = [taken EXCEPT ![x[1]] = IF @ + o[2] > 2 THEN 2 ELSE @ + o[2]]
        /\ blurred' = IF o = <<"retry", 1>> THEN blurred \cup {x[1]} ELSE blurred
  BY DEF Send
<1>1. PICK o \in Outcomes(x[1]) :
        /\ IsNext(w, x)
        /\ result' = [result EXCEPT ![w] = o[1]]
        /\ taken' = [taken EXCEPT ![x[1]] = IF @ + o[2] > 2 THEN 2 ELSE @ + o[2]]
        /\ blurred' = IF o = <<"retry", 1>> THEN blurred \cup {x[1]} ELSE blurred
  BY <1>0
<1>2. /\ result[w] = "none"
      /\ UNCHANGED <<created, status, attempts, due, batch>>
  BY DEF Send
<1>3. x[1] \in Msgs /\ status[x[1]] = "PENDING"
  BY DEF TypeOK, BatchIsFresh
<1>4. /\ o[1] \in Results /\ o[2] \in {0, 1}
      /\ IsLogged(x[1]) => o[2] = 0
      /\ o[1] = "ok" /\ o[2] = 0 => IsLogged(x[1])
      /\ o[2] = 1 => o[1] = "ok" \/ o = <<"retry", 1>>
  BY <1>3, AnswersAre
<1>5. TypeOK'
  <2>1. taken[x[1]] \in 0..2
    BY <1>3 DEF TypeOK
  <2>2. (IF taken[x[1]] + o[2] > 2 THEN 2 ELSE taken[x[1]] + o[2]) \in 0..2
    BY <1>4, <2>1
  <2>3. taken' \in [Msgs -> 0..2]
    BY <1>1, <1>3, <2>2 DEF TypeOK
  <2>4. blurred' \in SUBSET Msgs
    BY <1>1, <1>3 DEF TypeOK
  <2>5. result' \in [Workers -> Results]
    BY <1>1, <1>4 DEF TypeOK
  <2> QED BY <1>2, <2>3, <2>4, <2>5 DEF TypeOK
<1>6. WrittenOnce' /\ BatchIsFresh' /\ IdleKnowsNothing'
  BY <1>1, <1>2 DEF WrittenOnce, BatchIsFresh, IdleKnowsNothing, OneWorker
<1>7. \A m \in Msgs : ~JustTaken(m)
  BY <1>2 DEF JustTaken, OneWorker
<1>8. \A y \in batch[w] : IsNext(w, y)' <=> IsNext(w, y)
  BY <1>2 DEF IsNext, Older
<1>9. \A m \in Msgs : JustTaken(m)' => m = x[1] /\ o[1] = "ok"
  <2>1. \A y \in batch[w] : IsNext(w, y) => y = x
    BY <1>1, NextIsOne
  <2>2. result'[w] = o[1]
    BY <1>1 DEF TypeOK
  <2> QED BY <1>2, <1>8, <2>1, <2>2 DEF JustTaken, OneWorker
<1>10. o[1] = "ok" => JustTaken(x[1])'
  BY <1>1, <1>2, <1>8 DEF JustTaken, TypeOK
<1>11. \A m \in Msgs : taken[m] > 0 => status[m] = "SENT" \/ m \in blurred
  BY <1>7 DEF TakenIsKnown
<1>12. \A m \in Msgs : m # x[1] => taken'[m] = taken[m]
  BY <1>1, <1>3 DEF TypeOK
<1>13. taken[x[1]] > 0 => x[1] \in blurred
  BY <1>3, <1>11
<1>14. CASE o[2] = 0
  <2>1. (\A m \in Msgs : taken'[m] = taken[m]) /\ blurred \subseteq blurred'
    BY <1>1, <1>3, <1>12, <1>14 DEF TypeOK
  <2>2. TakenIsKnown'
    BY <1>2, <1>4, <1>9, <1>11, <1>14, <2>1 DEF TakenIsKnown, IsLogged
  <2>3. NoNeedlessRepeat' /\ OutcomeIsTrue'
    BY <1>2, <2>1 DEF NoNeedlessRepeat, OutcomeIsTrue
  <2> QED BY <1>5, <1>6, <2>2, <2>3
<1>15. CASE o[2] = 1
  <2>1. taken'[x[1]] > 0 /\ (taken'[x[1]] > 1 => taken[x[1]] > 0)
    BY <1>1, <1>3, <1>15 DEF TypeOK
  <2>2. blurred \subseteq blurred'
    BY <1>1
  <2>3. o[1] = "ok" \/ x[1] \in blurred'
    BY <1>1, <1>4, <1>15
  <2>4. TakenIsKnown'
    <3>1. ~IsLogged(x[1])
      BY <1>4, <1>15
    <3> QED BY <1>2, <1>9, <1>10, <1>11, <1>12, <2>1, <2>2, <2>3, <3>1
            DEF TakenIsKnown, IsLogged
  <2>5. NoNeedlessRepeat'
    BY <1>12, <1>13, <2>1, <2>2 DEF NoNeedlessRepeat
  <2>6. OutcomeIsTrue'
    BY <1>2, <1>3, <1>12, <2>2 DEF OutcomeIsTrue
  <2> QED BY <1>5, <1>6, <2>4, <2>5, <2>6
<1> QED BY <1>4, <1>14, <1>15

(* What a worker records of the row it is at, which then leaves the batch:  *)
(* the others are as they were read.                                        *)
LEMMA DoneStep ==
    ASSUME IInv, OneWorker, NEW w \in Workers, NEW x \in batch[w],
           IsNext(w, x), Done(w, x), UNCHANGED created,
           NEW s \in {"PENDING", "SENT", "FAILED"}, status' = [status EXCEPT ![x[1]] = s],
           NEW n \in Nat, attempts' = [attempts EXCEPT ![x[1]] = n]
    PROVE  /\ x[1] \in Msgs /\ x[2] = attempts[x[1]] /\ x[2] \in Nat
           /\ status[x[1]] = "PENDING"
           /\ status' \in [Msgs -> {"NONE", "PENDING", "SENT", "FAILED"}]
           /\ attempts' \in [Msgs -> Nat]
           /\ batch' \in [Workers -> SUBSET (Msgs \X Nat)]
           /\ result' \in [Workers -> Results]
           /\ WrittenOnce' /\ BatchIsFresh' /\ IdleKnowsNothing'
           /\ \A m \in Msgs : ~JustTaken(m)'
           /\ \A m \in Msgs : JustTaken(m) => m = x[1]
<1> USE DEF IInv
<1>1. x[1] \in Msgs /\ x[2] = attempts[x[1]] /\ x[2] \in Nat /\ status[x[1]] = "PENDING"
  BY DEF TypeOK, BatchIsFresh
<1>2. /\ status' \in [Msgs -> {"NONE", "PENDING", "SENT", "FAILED"}]
      /\ attempts' \in [Msgs -> Nat]
      /\ batch' \in [Workers -> SUBSET (Msgs \X Nat)]
      /\ result' \in [Workers -> Results]
  BY <1>1 DEF TypeOK, Done, Results
<1>3. WrittenOnce'
  BY <1>1 DEF WrittenOnce, TypeOK
<1>4. \A v \in Workers : v = w
  BY DEF OneWorker
<1>5. batch'[w] = batch[w] \ {x} /\ result'[w] = "none"
  BY DEF Done, TypeOK
<1>6. \A y \in batch'[w] : y \in batch[w] /\ y[1] # x[1] /\ y[1] \in Msgs
  BY <1>5, BatchIsOnce DEF TypeOK
<1>7. BatchIsFresh'
  <2>1. \A y \in batch'[w] : status'[y[1]] = "PENDING" /\ attempts'[y[1]] = y[2]
    BY <1>6 DEF BatchIsFresh, TypeOK
  <2> QED BY <1>4, <2>1 DEF BatchIsFresh
<1>8. IdleKnowsNothing' /\ \A m \in Msgs : ~JustTaken(m)'
  BY <1>4, <1>5 DEF IdleKnowsNothing, JustTaken
<1>9. \A m \in Msgs : JustTaken(m) => m = x[1]
  BY <1>4, NextIsOne DEF JustTaken
<1> QED BY <1>1, <1>2, <1>3, <1>7, <1>8, <1>9

(* The record of a message sent keeps it.                                   *)
LEMMA RecordSentStep ==
    ASSUME IInv, OneWorker, NEW w \in Workers, RecordSent(w)
    PROVE  IInv'
<1> USE DEF IInv
<1>1. PICK x \in batch[w] :
        /\ IsNext(w, x)
        /\ status' = [status EXCEPT ![x[1]] = "SENT"]
        /\ attempts' = [attempts EXCEPT ![x[1]] = @ + 1]
        /\ Done(w, x)
  BY DEF RecordSent
<1>2. result[w] = "ok" /\ UNCHANGED <<created, due, taken, blurred>>
  BY DEF RecordSent
<1>3. x[1] \in Msgs /\ status[x[1]] = "PENDING" /\ attempts[x[1]] + 1 \in Nat
  BY DEF TypeOK, BatchIsFresh
<1>4. attempts' = [attempts EXCEPT ![x[1]] = attempts[x[1]] + 1]
  BY <1>1
<1>5. /\ TypeOK' /\ WrittenOnce' /\ BatchIsFresh' /\ IdleKnowsNothing'
      /\ \A m \in Msgs : ~JustTaken(m)'
      /\ \A m \in Msgs : JustTaken(m) => m = x[1]
  BY <1>1, <1>2, <1>3, <1>4, DoneStep DEF TypeOK
<1>6. \A m \in Msgs : m # x[1] => status'[m] = status[m] /\ attempts'[m] = attempts[m]
  BY <1>1 DEF TypeOK
<1>7. status'[x[1]] = "SENT" /\ attempts'[x[1]] = attempts[x[1]] + 1
  BY <1>1, <1>3 DEF TypeOK
<1>8. (taken[x[1]] > 0) # IsLogged(x[1])
  <2>1. JustTaken(x[1])
    BY <1>1, <1>2 DEF JustTaken
  <2>2. taken[x[1]] > 0 => taken[x[1]] # 0
    BY <1>3 DEF TypeOK
  <2> QED BY <1>3, <2>1, <2>2 DEF TakenIsKnown, IsLogged
<1>9. TakenIsKnown' /\ NoNeedlessRepeat'
  BY <1>2, <1>5, <1>6, <1>7 DEF TakenIsKnown, IsLogged, NoNeedlessRepeat
<1>10. OutcomeIsTrue'
  <2>1. attempts[x[1]] + 1 <= MaxAttempts
    BY <1>3, OutboxAssumption DEF OutcomeIsTrue, TypeOK
  <2> QED BY <1>2, <1>6, <1>7, <1>8, <2>1 DEF OutcomeIsTrue, IsLogged
<1> QED BY <1>5, <1>9, <1>10

(* The record of an attempt that failed keeps it.                           *)
LEMMA MarkFailedStep ==
    ASSUME IInv, OneWorker, NEW w \in Workers, MarkFailed(w)
    PROVE  IInv'
<1> USE DEF IInv
<1>1. PICK x \in batch[w] :
          LET over == Exhausted(result[w], NextAttempt(x[2])) IN
          /\ IsNext(w, x)
          /\ attempts' = [attempts EXCEPT ![x[1]] = NextAttempt(x[2])]
          /\ status' = [status EXCEPT ![x[1]] = IF over THEN "FAILED" ELSE "PENDING"]
          /\ due' = IF over THEN due ELSE due \ {x[1]}
          /\ Done(w, x)
  BY DEF MarkFailed
<1> DEFINE over == Exhausted(result[w], x[2] + 1)
           s == IF over THEN "FAILED" ELSE "PENDING"
<1>2. result[w] \in {"retry", "giveup"} /\ UNCHANGED <<created, taken, blurred>>
  BY DEF MarkFailed
<1>3. x[1] \in Msgs /\ status[x[1]] = "PENDING" /\ x[2] = attempts[x[1]] /\ x[2] + 1 \in Nat
  BY DEF TypeOK, BatchIsFresh
<1>4. /\ s \in {"PENDING", "SENT", "FAILED"}
      /\ status' = [status EXCEPT ![x[1]] = s]
      /\ attempts' = [attempts EXCEPT ![x[1]] = x[2] + 1]
      /\ due' \in SUBSET Msgs
      /\ IsNext(w, x) /\ Done(w, x)
      /\ ~over => x[2] + 1 < MaxAttempts
  BY <1>1, <1>3, OutboxAssumption DEF NextAttempt, Exhausted, TypeOK
<1> HIDE DEF s
<1>5. /\ TypeOK' /\ WrittenOnce' /\ BatchIsFresh' /\ IdleKnowsNothing'
      /\ \A m \in Msgs : ~JustTaken(m)'
  BY <1>2, <1>3, <1>4, DoneStep DEF TypeOK
<1>6. \A m \in Msgs : m # x[1] => status'[m] = status[m] /\ attempts'[m] = attempts[m]
  BY <1>4 DEF TypeOK
<1>7. status'[x[1]] = s /\ attempts'[x[1]] = x[2] + 1
  BY <1>3, <1>4 DEF TypeOK
<1>8. \A m \in Msgs : ~JustTaken(m)
  BY <1>2 DEF JustTaken, OneWorker
<1>9. TakenIsKnown' /\ NoNeedlessRepeat'
  BY <1>2, <1>3, <1>5, <1>6, <1>8 DEF TakenIsKnown, IsLogged, NoNeedlessRepeat
<1>10. OutcomeIsTrue'
  <2>1. x[2] + 1 <= MaxAttempts
    BY <1>3, OutboxAssumption DEF OutcomeIsTrue, TypeOK
  <2>2. s # "SENT" /\ (s = "PENDING" => x[2] + 1 < MaxAttempts)
    BY <1>4 DEF s
  <2>3. taken[x[1]] = 0 \/ x[1] \in blurred
    BY <1>3, <1>8 DEF TakenIsKnown, TypeOK
  <2> QED BY <1>2, <1>6, <1>7, <2>1, <2>2, <2>3 DEF OutcomeIsTrue
<1> QED BY <1>5, <1>9, <1>10

(* A crash keeps it: what was taken and not recorded is in doubt.           *)
LEMMA CrashStep ==
    ASSUME IInv, OneWorker, NEW w \in Workers, Crash(w)
    PROVE  IInv'
<1> USE DEF IInv
<1>1. TypeOK'
  <2>1. {x[1] : x \in {y \in batch[w] : IsNext(w, y)}} \subseteq Msgs
    BY DEF TypeOK
  <2> QED BY <2>1 DEF TypeOK, Crash, Results
<1>2. \A v \in Workers : batch'[v] = {} /\ result'[v] = "none"
  BY DEF Crash, OneWorker, TypeOK
<1>3. WrittenOnce' /\ BatchIsFresh' /\ IdleKnowsNothing' /\ \A m \in Msgs : ~JustTaken(m)'
  BY <1>2 DEF Crash, WrittenOnce, BatchIsFresh, IdleKnowsNothing, JustTaken
<1>4. \A m \in Msgs : JustTaken(m) \/ m \in blurred => m \in blurred'
  BY DEF Crash, JustTaken, OneWorker
<1>5. TakenIsKnown' /\ NoNeedlessRepeat' /\ OutcomeIsTrue'
  BY <1>3, <1>4 DEF Crash, TakenIsKnown, IsLogged, NoNeedlessRepeat, OutcomeIsTrue
<1> QED BY <1>1, <1>3, <1>5

(* Every step keeps the invariant.                                          *)
LEMMA NextHolds ==
    ASSUME OneWorker, IInv, [Next]_vars
    PROVE  IInv'
<1>1. CASE UNCHANGED vars
  BY <1>1 DEF vars, IInv, TypeOK, WrittenOnce, BatchIsFresh, IdleKnowsNothing, TakenIsKnown,
     JustTaken, IsLogged, IsNext, Older, NoNeedlessRepeat, OutcomeIsTrue
<1>2. ASSUME NEW m \in Msgs, enqueue(m) PROVE IInv'
  BY <1>2, EnqueueStep
<1>3. ASSUME NEW m \in Msgs, BecomeDue(m) PROVE IInv'
  BY <1>3, BecomeDueStep
<1>4. ASSUME NEW w \in Workers, PickDue(w) PROVE IInv'
  BY <1>4, PickDueStep
<1>5. ASSUME NEW w \in Workers, Send(w) PROVE IInv'
  BY <1>5, SendStep
<1>6. ASSUME NEW w \in Workers, RecordSent(w) PROVE IInv'
  BY <1>6, RecordSentStep
<1>7. ASSUME NEW w \in Workers, MarkFailed(w) PROVE IInv'
  BY <1>7, MarkFailedStep
<1>8. ASSUME NEW w \in Workers, Crash(w) PROVE IInv'
  BY <1>8, CrashStep
<1> QED BY <1>1, <1>2, <1>3, <1>4, <1>5, <1>6, <1>7, <1>8 DEF Next

(* One worker handles what it has read alone, and what it has not recorded  *)
(* is in doubt if it stops: the inductive invariant of                      *)
(* NotificationService.processDue.                                          *)
THEOREM Invariance ==
    ASSUME OneWorker
    PROVE  Spec => []IInv
<1>1. Init => IInv
  BY InitHolds
<1>2. IInv /\ [Next]_vars => IInv'
  BY NextHolds
<1> QED BY <1>1, <1>2, PTL DEF Spec

-----------------------------------------------------------------------------

(* Nobody gets a message twice unless the outcome of a handover was lost,   *)
(* however many messages a tick reads and however they fail.                *)
THEOREM RepeatsHaveCause ==
    ASSUME OneWorker
    PROVE  Spec => []NoNeedlessRepeat
<1>1. IInv => NoNeedlessRepeat
  BY DEF IInv
<1> QED BY <1>1, Invariance, PTL

(* What is on record as sent was taken, or is on a channel that only logs   *)
(* and nobody has it; what is on record as failed was not, unless that is   *)
(* in doubt; and what is pending still has an attempt.                      *)
THEOREM RecordsAreTrue ==
    ASSUME OneWorker
    PROVE  Spec => []OutcomeIsTrue
<1>1. IInv => OutcomeIsTrue
  BY DEF IInv
<1> QED BY <1>1, Invariance, PTL

(* What has been sent, or given up, is never taken up again.                *)
OutcomeIsFinal ==
    [][\A m \in Msgs :
          status[m] \in {"SENT", "FAILED"} => status'[m] = status[m]]_vars

(* A message sent or given up keeps that status: no tick takes it up, and   *)
(* no late answer overwrites it.                                            *)
THEOREM OutcomesStand ==
    ASSUME OneWorker
    PROVE  Spec => OutcomeIsFinal
<1> DEFINE Stays == \A m \in Msgs : status[m] \in {"SENT", "FAILED"} => status'[m] = status[m]
<1>1. ASSUME IInv, [Next]_vars PROVE [Stays]_vars
  <2> USE DEF IInv
  <2>1. CASE UNCHANGED vars
    BY <2>1
  <2>2. ASSUME NEW m \in Msgs, enqueue(m) PROVE Stays
    BY <1>1, <2>2 DEF enqueue, TypeOK
  <2>3. ASSUME NEW w \in Workers, NEW x \in batch[w], NEW s,
               status' = [status EXCEPT ![x[1]] = s] PROVE Stays
    <3>1. x[1] \in Msgs /\ status[x[1]] = "PENDING"
      BY <1>1, <2>3 DEF TypeOK, BatchIsFresh
    <3> QED BY <1>1, <2>3, <3>1 DEF TypeOK
  <2>4. ASSUME NEW w \in Workers, RecordSent(w) \/ MarkFailed(w) PROVE Stays
    BY <2>3, <2>4 DEF RecordSent, MarkFailed
  <2>5. CASE UNCHANGED status
    BY <2>5
  <2> QED BY <1>1, <2>1, <2>2, <2>4, <2>5 DEF Next, BecomeDue, PickDue, Send, Crash
<1> QED BY <1>1, Invariance, PTL DEF Spec, OutcomeIsFinal

-----------------------------------------------------------------------------
(* The abstract specification. *)

(* What is recorded of the row a worker is at is an attempt of its message. *)
LEMMA RecordIsOne ==
    ASSUME IInv, NEW w \in Workers, NEW x \in batch[w], UNCHANGED <<taken, blurred>>,
           attempts' = [attempts EXCEPT ![x[1]] = x[2] + 1],
           NEW s \in {"SENT", "PENDING", "FAILED"}, status' = [status EXCEPT ![x[1]] = s],
           s = "SENT" => taken[x[1]] > 0 \/ IsLogged(x[1]),
           s # "SENT" => taken[x[1]] = 0 \/ x[1] \in blurred,
           s = "PENDING" => x[2] + 1 < MaxAttempts
    PROVE  Box!Next
<1>1. x[1] \in Msgs /\ status[x[1]] = "PENDING" /\ attempts[x[1]] = x[2]
  BY DEF IInv, TypeOK, BatchIsFresh
<1>2. attempts' = [attempts EXCEPT ![x[1]] = @ + 1]
  BY <1>1 DEF IInv, TypeOK
<1>3. Box!Record(x[1])
  BY <1>1, <1>2 DEF Box!Record, IsLogged
<1> QED BY <1>1, <1>3 DEF Box!Next

(* The call of a provider hands the message over, or does not reach it.     *)
LEMMA SendIsHandOver ==
    ASSUME IInv, OneWorker, NEW w \in Workers, Send(w)
    PROVE  Box!Next \/ UNCHANGED Box!vars
<1> USE DEF IInv
<1>0. PICK x \in batch[w] : \E o \in Outcomes(x[1]) :
        /\ IsNext(w, x)
        /\ result' = [result EXCEPT ![w] = o[1]]
        /\ taken' = [taken EXCEPT ![x[1]] = IF @ + o[2] > 2 THEN 2 ELSE @ + o[2]]
        /\ blurred' = IF o = <<"retry", 1>> THEN blurred \cup {x[1]} ELSE blurred
  BY DEF Send
<1>1. PICK o \in Outcomes(x[1]) :
        /\ taken' = [taken EXCEPT ![x[1]] = IF @ + o[2] > 2 THEN 2 ELSE @ + o[2]]
        /\ blurred' = IF o = <<"retry", 1>> THEN blurred \cup {x[1]} ELSE blurred
  BY <1>0
<1>2. result[w] = "none" /\ UNCHANGED <<status, attempts>>
  BY DEF Send
<1>3. x[1] \in Msgs /\ status[x[1]] = "PENDING" /\ taken[x[1]] \in 0..2
  BY DEF TypeOK, BatchIsFresh
<1>4. /\ o[2] \in {0, 1}
      /\ IsLogged(x[1]) => o[2] = 0
  BY <1>3, AnswersAre
<1>5. ~JustTaken(x[1])
  BY <1>2 DEF JustTaken, OneWorker
<1>6. taken[x[1]] = 0 \/ x[1] \in blurred
  BY <1>3, <1>5 DEF TakenIsKnown
<1>7. CASE o[2] = 0
  <2>1. taken' = taken
    BY <1>1, <1>3, <1>7 DEF TypeOK
  <2>2. o # <<"retry", 1>>
    <3> SUFFICES ASSUME o = <<"retry", 1>> PROVE FALSE
      OBVIOUS
    <3>1. o[2] = 1
      OBVIOUS
    <3> QED BY <1>7, <3>1
  <2>3. blurred' = blurred
    BY <1>1, <2>2
  <2> QED BY <1>2, <2>1, <2>3 DEF Box!vars
<1>8. CASE o[2] = 1
  <2>1. taken' = [taken EXCEPT ![x[1]] = IF @ = 0 THEN 1 ELSE 2]
    <3>1. (IF taken[x[1]] + o[2] > 2 THEN 2 ELSE taken[x[1]] + o[2])
             = (IF taken[x[1]] = 0 THEN 1 ELSE 2)
      BY <1>3, <1>8
    <3> QED BY <1>1, <3>1
  <2>2. blurred' \in {blurred, blurred \cup {x[1]}}
    BY <1>1
  <2>3. Box!HandOver(x[1])
    BY <1>2, <1>3, <1>4, <1>6, <1>8, <2>1, <2>2 DEF Box!HandOver, IsLogged
  <2> QED BY <1>3, <2>3 DEF Box!Next
<1> QED BY <1>4, <1>7, <1>8

(* Every step of the outbox is one of the mailbox, or changes nothing of it. *)
LEMMA BoxStep ==
    ASSUME OneWorker, IInv, [Next]_vars
    PROVE  [Box!Next]_(Box!vars)
<1> SUFFICES Box!Next \/ UNCHANGED Box!vars
  OBVIOUS
<1> USE DEF IInv, Box!vars
<1>1. CASE UNCHANGED vars
  BY <1>1 DEF vars
<1>2. ASSUME NEW m \in Msgs, enqueue(m) PROVE Box!Next
  BY <1>2 DEF enqueue, Box!Next, Box!Write
<1>3. ASSUME NEW m \in Msgs, BecomeDue(m) PROVE UNCHANGED Box!vars
  BY <1>3 DEF BecomeDue
<1>4. ASSUME NEW w \in Workers, PickDue(w) PROVE UNCHANGED Box!vars
  BY <1>4 DEF PickDue
<1>5. ASSUME NEW w \in Workers, RecordSent(w) PROVE Box!Next
  <2>1. PICK x \in batch[w] :
          /\ IsNext(w, x)
          /\ status' = [status EXCEPT ![x[1]] = "SENT"]
          /\ attempts' = [attempts EXCEPT ![x[1]] = @ + 1]
    BY <1>5 DEF RecordSent
  <2>2. result[w] = "ok" /\ UNCHANGED <<taken, blurred>>
    BY <1>5 DEF RecordSent
  <2>3. x[1] \in Msgs /\ attempts[x[1]] = x[2]
    BY DEF TypeOK, BatchIsFresh
  <2>4. attempts' = [attempts EXCEPT ![x[1]] = x[2] + 1]
    BY <2>1, <2>3
  <2>5. JustTaken(x[1])
    BY <2>1, <2>2 DEF JustTaken
  <2>6. taken[x[1]] > 0 \/ IsLogged(x[1])
    BY <2>3, <2>5 DEF TakenIsKnown
  <2>7. "SENT" \in {"SENT", "PENDING", "FAILED"} /\ "SENT" # "PENDING"
    OBVIOUS
  <2> QED BY <2>1, <2>2, <2>4, <2>6, <2>7, RecordIsOne
<1>6. ASSUME NEW w \in Workers, MarkFailed(w) PROVE Box!Next
  <2>1. PICK x \in batch[w] :
          LET over == Exhausted(result[w], NextAttempt(x[2])) IN
          /\ IsNext(w, x)
          /\ attempts' = [attempts EXCEPT ![x[1]] = NextAttempt(x[2])]
          /\ status' = [status EXCEPT ![x[1]] = IF over THEN "FAILED" ELSE "PENDING"]
    BY <1>6 DEF MarkFailed
  <2> DEFINE over == Exhausted(result[w], x[2] + 1)
             s == IF over THEN "FAILED" ELSE "PENDING"
  <2>2. UNCHANGED <<taken, blurred>>
    BY <1>6 DEF MarkFailed
  <2>3. x[2] \in Nat
    BY DEF TypeOK
  <2>4. /\ attempts' = [attempts EXCEPT ![x[1]] = x[2] + 1]
        /\ status' = [status EXCEPT ![x[1]] = s]
        /\ s \in {"SENT", "PENDING", "FAILED"} /\ s # "SENT"
        /\ s = "PENDING" => x[2] + 1 < MaxAttempts
    BY <2>1, <2>3, OutboxAssumption DEF NextAttempt, Exhausted
  <2>5. taken[x[1]] = 0 \/ x[1] \in blurred
    <3>1. x[1] \in Msgs /\ status[x[1]] = "PENDING" /\ taken[x[1]] \in 0..2
      BY DEF TypeOK, BatchIsFresh
    <3>2. ~JustTaken(x[1])
      BY <1>6 DEF MarkFailed, JustTaken, OneWorker
    <3> QED BY <3>1, <3>2 DEF TakenIsKnown
  <2> HIDE DEF s
  <2> QED BY <2>2, <2>4, <2>5, RecordIsOne
<1>7. ASSUME NEW w \in Workers, Crash(w) PROVE Box!Next
  <2>1. \E lost \in SUBSET Msgs : blurred' = blurred \cup lost
    <3>1. {x[1] : x \in {y \in batch[w] : IsNext(w, y)}} \in SUBSET Msgs
      BY DEF TypeOK
    <3>2. blurred = blurred \cup {}
      OBVIOUS
    <3> QED BY <1>7, <3>1, <3>2 DEF Crash
  <2> QED BY <1>7, <2>1 DEF Crash, Box!Next, Box!Blur
<1> QED BY <1>1, <1>2, <1>3, <1>4, SendIsHandOver, <1>5, <1>6, <1>7 DEF Next

(* The outbox implements the mailbox: whatever a tick reads, however the    *)
(* providers answer and wherever the worker stops, every attempt on record  *)
(* counts once, no message has one after its last, and none is handed over  *)
(* again but in doubt.                                                      *)
THEOREM Refinement ==
    ASSUME OneWorker
    PROVE  Spec => DeliversAsMailbox
<1>1. Init => Box!Init
  BY DEF Init, Box!Init
<1> QED BY <1>1, BoxStep, Invariance, PTL DEF Spec, DeliversAsMailbox, Box!Spec
=============================================================================
