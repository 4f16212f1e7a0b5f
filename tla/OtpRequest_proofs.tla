-------------------------- MODULE OtpRequest_proofs --------------------------
(***************************************************************************)
(* The three Redis commands that throttle requests for codes keep their     *)
(* promises for any number of requests under way, any window, cool-down and *)
(* allowance.                                                               *)
(***************************************************************************)
EXTENDS OtpRequest, SequenceTheorems, WellFoundedInduction, TLAPS

-----------------------------------------------------------------------------
(* The inductive invariant. *)

(* The cool-down key of a number lasts as long as the request that set it   *)
(* is not that long ago.                                                    *)
KeyCovers ==
    \A p \in Phones : \A i \in 1..Len(passed[p]) : passed[p][i] >= CoolDown - cooldown[p]

OldestFirst ==
    \A p \in Phones : \A i, j \in 1..Len(admitted[p]) :
        i < j => admitted[p][i] >= admitted[p][j]

(* What the key of a number still counts, and since when. *)
Counted(p) == IF perPhone[p].count < MaxPerPhone THEN perPhone[p].count ELSE MaxPerPhone
Age(p) == Window - perPhone[p].left

(* Without a key, those admitted within the last window were counted by one *)
(* key.  With one, the last of them were admitted under it, as many as it   *)
(* counts, and those before them were counted by the key before it.         *)
CountedByTwo ==
    \A p \in Phones :
        IF perPhone[p] = NoKey
        THEN /\ Len(admitted[p]) <= MaxPerPhone
             /\ \A i \in 1..Len(admitted[p]) : admitted[p][i] > 0
        ELSE /\ perPhone[p].count > 0 /\ perPhone[p].left > 0
             /\ Counted(p) <= Len(admitted[p])
             /\ Len(admitted[p]) <= Counted(p) + MaxPerPhone
             /\ \A i \in 1..Len(admitted[p]) :
                   i > Len(admitted[p]) - Counted(p) <=> admitted[p][i] <= Age(p)

(* The channel on record while the code is sent. *)
OnRecord ==
    \A r \in Requests :
        /\ pc[r] = "created" => channel[r] = "WHATSAPP"
        /\ pc[r] = "smsTaken" => "SMS" \in takenBy[r]

OtpInv == TypeOK /\ Spaced /\ KeyCovers /\ OldestFirst /\ CountedByTwo /\ OnRecord /\ AnsweredWasSent

-----------------------------------------------------------------------------
(* Ages. *)

(* Of some numbers, one is the least.                                       *)
LEMMA LeastOf ==
  ASSUME NEW T, T \subseteq Nat, T # {}
  PROVE  \E n \in T : \A m \in T : n <= m
<1>1. PICK n \in T : \A m \in T : ~(<<m, n>> \in OpToRel(<, Nat))
  BY NatLessThanWellFounded, WFMin
<1>2. ASSUME NEW m \in T PROVE ~(m < n)
  <2>1. m < n => <<m, n>> \in OpToRel(<, Nat)
    BY Zenon DEF OpToRel
  <2>2. QED BY <1>1, <2>1, Zenon
<1>3. QED BY <1>2

(* A function on 1..n is a sequence of length n.                            *)
LEMMA FunctionIsSequence ==
  ASSUME NEW S, NEW n \in Nat, NEW f \in [1..n -> S]
  PROVE  f \in Seq(S) /\ Len(f) = n
<1>1. f \in Seq(S)
  BY SeqDef
<1>2. 1..Len(f) = 1..n /\ Len(f) \in Nat
  BY <1>1, LenProperties
<1>3. QED BY <1>1, <1>2

Ages == Seq(0..(Window - 1))

Falling(ages) == \A i, j \in 1..Len(ages) : i < j => ages[i] >= ages[j]

(* A tick drops the ages that come to a whole window, which are the first,  *)
(* and adds one to the others.                                              *)
LEMMA OlderDropsFirst ==
  ASSUME NEW ages \in Ages, Falling(ages)
  PROVE  /\ Older(ages) \in Ages
         /\ \E n \in 0..Len(ages) :
              /\ Len(Older(ages)) = Len(ages) - n
              /\ \A i \in 1..(Len(ages) - n) : Older(ages)[i] = ages[i + n] + 1
              /\ \A i \in 1..Len(ages) : i <= n <=> ages[i] = Window - 1
<1> DEFINE L == Len(ages)
           Young == {i \in 1..(L + 1) : i <= L => ages[i] + 1 < Window}
           Cut(n) == \A i \in 1..L : i <= n <=> ages[i] + 1 >= Window
           gone == CHOOSE n \in 0..L : Cut(n)
<1>1. /\ L \in Nat /\ Window \in Nat /\ Window > 0
      /\ \A i \in 1..L : ages[i] \in 0..(Window - 1)
  BY OtpAssumption DEF Ages
<1>2. PICK first \in Young : \A i \in Young : first <= i
  <2>1. L + 1 \in Young /\ Young \subseteq Nat
    BY <1>1
  <2>2. QED BY <2>1, LeastOf
<1>3. first - 1 \in 0..L /\ Cut(first - 1)
  <2>1. first \in 1..(L + 1)
    OBVIOUS
  <2>2. ASSUME NEW i \in 1..L PROVE i <= first - 1 <=> ages[i] + 1 >= Window
    <3>1. CASE i < first
      BY <1>1, <1>2, <3>1
    <3>2. CASE i >= first
      BY <1>1, <2>1, <3>2 DEF Falling
    <3>3. QED BY <1>1, <2>1, <3>1, <3>2
  <2>3. QED BY <1>1, <2>1, <2>2
<1>4. gone \in 0..L /\ Cut(gone)
  BY <1>3
<1>5. Older(ages) = [i \in 1..(L - gone) |-> ages[i + gone] + 1]
  BY DEF Older
<1> HIDE DEF gone
<1>6. /\ Older(ages) \in Ages /\ Len(Older(ages)) = L - gone
      /\ \A i \in 1..(L - gone) : Older(ages)[i] = ages[i + gone] + 1
  <2>1. \A i \in 1..(L - gone) : ages[i + gone] + 1 \in 0..(Window - 1)
    BY <1>1, <1>4
  <2>2. L - gone \in Nat
    BY <1>1, <1>4
  <2>3. Older(ages) \in [1..(L - gone) -> 0..(Window - 1)]
    BY <1>5, <2>1
  <2>4. Older(ages) \in Ages /\ Len(Older(ages)) = L - gone
    BY <2>2, <2>3, FunctionIsSequence DEF Ages
  <2>5. QED BY <1>5, <2>4
<1>7. \A i \in 1..L : i <= gone <=> ages[i] = Window - 1
  BY <1>1, <1>4
<1>8. QED BY <1>4, <1>6, <1>7

(* What a sequence of ages is made of.                                      *)
LEMMA AgesOf ==
  ASSUME NEW ages \in Ages
  PROVE  Len(ages) \in Nat /\ \A i \in 1..Len(ages) : ages[i] \in 0..(Window - 1)
BY ElementOfSeq, LenProperties DEF Ages

(* Somebody else passes now. *)
LEMMA NowIsLast ==
  ASSUME NEW ages \in Ages
  PROVE  /\ Append(ages, 0) \in Ages
         /\ Len(Append(ages, 0)) = Len(ages) + 1
         /\ Append(ages, 0)[Len(ages) + 1] = 0
         /\ \A i \in 1..Len(ages) : Append(ages, 0)[i] = ages[i]
BY OtpAssumption DEF Ages

-----------------------------------------------------------------------------
(* The invariant. *)

(* Before the first request the invariant holds.                            *)
LEMMA OtpInitInv == Init => OtpInv
BY OtpAssumption DEF Init, OtpInv, TypeOK, Spaced, KeyCovers, OldestFirst, CountedByTwo,
   OnRecord, AnsweredWasSent, NoKey, Keys, Stages

(* The steps that leave the throttle alone. *)
Throttle == Spaced /\ KeyCovers /\ OldestFirst /\ CountedByTwo

(* What is said of the keys holds while they and the history stay.          *)
LEMMA SameThrottle ==
  ASSUME Throttle, UNCHANGED <<redis, history>>
  PROVE  Throttle'
BY DEF Throttle, Spaced, KeyCovers, OldestFirst, CountedByTwo, Counted, Age, redis, history

(* Time only makes ages differ as they did, keys that are set run out as    *)
(* fast as the ages grow, and a key runs out when all that were admitted    *)
(* before it are dropped.                                                   *)
LEMMA TickInv ==
  ASSUME OtpInv, Tick
  PROVE  OtpInv'
<1> USE DEF OtpInv
<1>0. ASSUME NEW p \in Phones
      PROVE  /\ passed[p] \in Ages /\ admitted[p] \in Ages
             /\ perPhone[p] \in Keys /\ cooldown[p] \in 0..CoolDown
  BY DEF TypeOK, Ages
<1>1. ASSUME NEW p \in Phones
      PROVE  /\ \A i \in 1..Len(passed[p]) : passed[p][i] \in 0..(Window - 1)
             /\ \A i \in 1..Len(admitted[p]) : admitted[p][i] \in 0..(Window - 1)
             /\ Len(passed[p]) \in Nat /\ Len(admitted[p]) \in Nat
             /\ cooldown[p] \in 0..CoolDown
  BY <1>0, AgesOf
<1>2. \A w \in Keys : Later(w) \in Keys
  BY OtpAssumption DEF Later, Keys, NoKey
<1>2a. ASSUME NEW p \in Phones
       PROVE  Falling(passed[p]) /\ Falling(admitted[p])
  <2>1. ASSUME NEW i \in 1..Len(passed[p]), NEW j \in 1..Len(passed[p]), i < j
        PROVE  passed[p][i] >= passed[p][j]
    <3>1. passed[p][i] - passed[p][j] >= CoolDown
      BY <2>1 DEF Spaced
    <3>2. passed[p][i] \in Nat /\ passed[p][j] \in Nat /\ CoolDown \in Nat
      BY <1>1, OtpAssumption
    <3>3. QED BY <3>1, <3>2
  <2>2. QED BY <2>1 DEF OldestFirst, Falling
<1>3. TypeOK'
  <2>1. \A p \in Phones : Older(passed[p]) \in Ages /\ Older(admitted[p]) \in Ages
    BY <1>0, <1>2a, OlderDropsFirst
  <2>2. cooldown' \in [Phones -> 0..CoolDown]
    BY OtpAssumption DEF Tick, TypeOK
  <2>3. perPhone' \in [Phones -> Keys] /\ perIp' \in [Ips -> Keys]
    BY <1>2 DEF Tick, TypeOK
  <2>4. QED BY <2>1, <2>2, <2>3 DEF Tick, TypeOK, Ages
<1>4. ASSUME NEW p \in Phones
      PROVE  /\ \A i, j \in 1..Len(passed'[p]) :
                   i < j => passed'[p][i] - passed'[p][j] >= CoolDown
             /\ \A i \in 1..Len(passed'[p]) : passed'[p][i] >= CoolDown - cooldown'[p]
  <2>1. PICK n \in 0..Len(passed[p]) :
           /\ Len(passed'[p]) = Len(passed[p]) - n
           /\ \A i \in 1..(Len(passed[p]) - n) : passed'[p][i] = passed[p][i + n] + 1
    <3>1. passed'[p] = Older(passed[p])
      BY DEF Tick
    <3>2. passed[p] \in Ages /\ Falling(passed[p])
      BY <1>0, <1>2a
    <3>3. QED BY <3>1, <3>2, OlderDropsFirst
  <2>2. \A i \in 1..Len(passed'[p]) : i + n \in 1..Len(passed[p])
    BY <1>1, <2>1
  <2>3. cooldown'[p] = IF cooldown[p] = 0 THEN 0 ELSE cooldown[p] - 1
    BY DEF Tick
  <2>4. ASSUME NEW i \in 1..Len(passed'[p]), NEW j \in 1..Len(passed'[p]), i < j
        PROVE  passed'[p][i] - passed'[p][j] >= CoolDown
    <3>1. i + n \in 1..Len(passed[p]) /\ j + n \in 1..Len(passed[p]) /\ i + n < j + n
      BY <1>1, <2>1, <2>2, <2>4
    <3>2. passed[p][i + n] - passed[p][j + n] >= CoolDown
      BY <3>1 DEF Spaced
    <3>3. passed[p][i + n] \in Nat /\ passed[p][j + n] \in Nat
      BY <1>1, <3>1
    <3>4. passed'[p][i] = passed[p][i + n] + 1 /\ passed'[p][j] = passed[p][j + n] + 1
      BY <2>1
    <3>5. \A a, b \in Nat : a - b >= CoolDown => (a + 1) - (b + 1) >= CoolDown
      BY OtpAssumption
    <3>6. QED BY <3>2, <3>3, <3>4, <3>5
  <2>5. ASSUME NEW i \in 1..Len(passed'[p])
        PROVE  passed'[p][i] >= CoolDown - cooldown'[p]
    <3>1. passed[p][i + n] >= CoolDown - cooldown[p] /\ passed'[p][i] = passed[p][i + n] + 1
      BY <1>1, <2>1, <2>2 DEF KeyCovers
    <3>2. passed[p][i + n] \in Nat
      BY <1>1, <2>2
    <3>3. \A a \in Nat, c \in 0..CoolDown :
             a >= CoolDown - c => a + 1 >= CoolDown - (IF c = 0 THEN 0 ELSE c - 1)
      BY OtpAssumption
    <3>4. QED BY <1>0, <2>3, <3>1, <3>2, <3>3
  <2>6. QED BY <2>4, <2>5
<1>5. ASSUME NEW p \in Phones
      PROVE  /\ \A i, j \in 1..Len(admitted'[p]) :
                   i < j => admitted'[p][i] >= admitted'[p][j]
             /\ IF perPhone'[p] = NoKey
                THEN /\ Len(admitted'[p]) <= MaxPerPhone
                     /\ \A i \in 1..Len(admitted'[p]) : admitted'[p][i] > 0
                ELSE /\ perPhone'[p].count > 0 /\ perPhone'[p].left > 0
                     /\ Counted(p)' <= Len(admitted'[p])
                     /\ Len(admitted'[p]) <= Counted(p)' + MaxPerPhone
                     /\ \A i \in 1..Len(admitted'[p]) :
                           i > Len(admitted'[p]) - Counted(p)' <=> admitted'[p][i] <= Age(p)'
  <2> DEFINE L == Len(admitted[p])
  <2>1. PICK n \in 0..L :
           /\ Len(admitted'[p]) = L - n
           /\ \A i \in 1..(L - n) : admitted'[p][i] = admitted[p][i + n] + 1
           /\ \A i \in 1..L : i <= n <=> admitted[p][i] = Window - 1
    <3>1. admitted'[p] = Older(admitted[p])
      BY DEF Tick
    <3>2. admitted[p] \in Ages /\ Falling(admitted[p])
      BY <1>0, <1>2a
    <3>3. QED BY <3>1, <3>2, OlderDropsFirst
  <2>2. \A i \in 1..Len(admitted'[p]) : i + n \in 1..L
    BY <1>1, <2>1
  <2>3. ASSUME NEW i \in 1..Len(admitted'[p]), NEW j \in 1..Len(admitted'[p]), i < j
        PROVE  admitted'[p][i] >= admitted'[p][j]
    <3>1. i + n \in 1..L /\ j + n \in 1..L /\ i + n < j + n
      BY <1>1, <2>1, <2>2, <2>3
    <3>2. admitted[p][i + n] >= admitted[p][j + n]
      BY <3>1 DEF OldestFirst
    <3>3. admitted[p][i + n] \in Nat /\ admitted[p][j + n] \in Nat
      BY <1>1, <3>1
    <3>4. admitted'[p][i] = admitted[p][i + n] + 1 /\ admitted'[p][j] = admitted[p][j + n] + 1
      BY <2>1
    <3>5. \A a, b \in Nat : a >= b => a + 1 >= b + 1
      OBVIOUS
    <3>6. QED BY <3>2, <3>3, <3>4, <3>5
  <2>4. ASSUME NEW i \in 1..Len(admitted'[p])
        PROVE  admitted'[p][i] > 0
    <3>1. admitted'[p][i] = admitted[p][i + n] + 1 /\ admitted[p][i + n] \in Nat
      BY <1>1, <2>1, <2>2
    <3>2. QED BY <3>1
  <2>5. perPhone'[p] = Later(perPhone[p])
    BY DEF Tick, TypeOK
  <2>6. CASE perPhone[p] = NoKey
    <3>1. perPhone'[p] = NoKey
      BY <2>5, <2>6 DEF Later, NoKey
    <3>2. L <= MaxPerPhone
      BY <2>6 DEF CountedByTwo
    <3>3. QED BY <1>1, <2>1, <2>3, <2>4, <3>1, <3>2, OtpAssumption
  <2>7. CASE perPhone[p] # NoKey
    <3>1. /\ perPhone[p].count \in Nat \ {0} /\ perPhone[p].left \in 1..Window
          /\ Counted(p) \in 0..MaxPerPhone /\ Counted(p) <= L
          /\ L <= Counted(p) + MaxPerPhone
          /\ \A i \in 1..L : i > L - Counted(p) <=> admitted[p][i] <= Window - perPhone[p].left
      <4>1. perPhone[p].count > 0 /\ perPhone[p].left > 0
        BY <2>7 DEF CountedByTwo
      <4>2. perPhone[p].count \in Nat \ {0} /\ perPhone[p].left \in 1..Window
        BY <1>0, <4>1, OtpAssumption DEF Keys
      <4>3. Counted(p) \in 0..MaxPerPhone
        BY <4>2, OtpAssumption DEF Counted
      <4>4. QED BY <2>7, <4>2, <4>3 DEF CountedByTwo, Age
    <3>2. CASE perPhone[p].left = 1
      <4>1. perPhone'[p] = NoKey
        BY <2>5, <3>2 DEF Later
      <4>2. ASSUME NEW i \in 1..L PROVE i > L - Counted(p)
        <5>1. admitted[p][i] <= Window - 1
          BY <1>1, OtpAssumption
        <5>2. QED BY <3>1, <3>2, <5>1
      <4>3. L <= Counted(p)
        BY <1>1, <3>1, <4>2
      <4>4. L - n <= MaxPerPhone
        BY <1>1, <3>1, <4>3, OtpAssumption
      <4>5. QED BY <2>1, <2>3, <2>4, <4>1, <4>4
    <3>3. CASE perPhone[p].left > 1
      <4>1. /\ perPhone'[p].count = perPhone[p].count
            /\ perPhone'[p].left = perPhone[p].left - 1
            /\ perPhone'[p] # NoKey
        BY <1>0, <2>5, <3>1, <3>3 DEF Later, NoKey, Keys
      <4>2. Counted(p)' = Counted(p) /\ Age(p)' = Window - perPhone[p].left + 1
        BY <3>1, <4>1, OtpAssumption DEF Counted, Age
      <4>3. n <= L - Counted(p)
        <5>1. CASE n = 0
          BY <1>1, <3>1, <5>1
        <5>2. CASE n > 0
          <6>1. n \in 1..L /\ admitted[p][n] = Window - 1
            BY <1>1, <2>1, <5>2
          <6>2. QED BY <1>1, <3>1, <3>3, <6>1, OtpAssumption
        <5>3. QED BY <5>1, <5>2
      <4>4. ASSUME NEW i \in 1..Len(admitted'[p])
            PROVE  i > Len(admitted'[p]) - Counted(p)' <=> admitted'[p][i] <= Age(p)'
        <5>1. i + n \in 1..L /\ admitted'[p][i] = admitted[p][i + n] + 1
          BY <2>1, <2>2
        <5>2. i + n > L - Counted(p) <=> admitted[p][i + n] <= Window - perPhone[p].left
          BY <3>1, <5>1
        <5>3. admitted[p][i + n] \in Nat
          BY <1>1, <5>1
        <5>4. i + n > L - Counted(p) <=> i > L - n - Counted(p)
          BY <1>1, <3>1
        <5>5. admitted[p][i + n] <= Window - perPhone[p].left
                 <=> admitted'[p][i] <= Window - perPhone[p].left + 1
          <6>1. \A a \in Nat, b \in 1..Window : a <= Window - b <=> a + 1 <= Window - b + 1
            BY OtpAssumption
          <6>2. QED BY <3>1, <5>1, <5>3, <6>1
        <5>6. QED BY <2>1, <4>2, <5>2, <5>4, <5>5
      <4>5. Counted(p)' <= Len(admitted'[p]) /\ Len(admitted'[p]) <= Counted(p)' + MaxPerPhone
        BY <1>1, <2>1, <3>1, <4>2, <4>3, OtpAssumption
      <4>6. QED BY <2>3, <3>1, <3>3, <4>1, <4>4, <4>5
    <3>4. QED BY <3>1, <3>2, <3>3
  <2>8. QED BY <2>6, <2>7
<1>6. Spaced' /\ KeyCovers'
  BY <1>4 DEF Spaced, KeyCovers
<1>7. OldestFirst' /\ CountedByTwo'
  BY <1>5 DEF OldestFirst, CountedByTwo
<1>8. OnRecord' /\ AnsweredWasSent'
  BY DEF Tick, OnRecord, AnsweredWasSent
<1>9. QED BY <1>3, <1>6, <1>7, <1>8

(* Whoever gets past the cool-down comes a cool-down after the last, for    *)
(* the key the last one set has run out.                                    *)
LEMMA PassCooldownInv ==
  ASSUME OtpInv, NEW r \in Requests, PassCooldown(r)
  PROVE  OtpInv'
<1> USE DEF OtpInv
<1> DEFINE p == PhoneOf[r]
<1>1. /\ p \in Phones /\ passed[p] \in Ages /\ cooldown[p] \in 0..CoolDown
      /\ Len(passed[p]) \in Nat
  BY OtpAssumption, AgesOf DEF TypeOK, Ages
<1>2. /\ \A q \in Phones : q # p => passed'[q] = passed[q] /\ cooldown'[q] = cooldown[q]
      /\ cooldown'[p] = CoolKey(p)
      /\ passed'[p] = IF cooldown[p] > 0 THEN passed[p] ELSE Append(passed[p], 0)
  BY <1>1 DEF PassCooldown, TypeOK
<1>3. TypeOK'
  <2>1. passed' \in [Phones -> Ages]
    <3>1. Append(passed[p], 0) \in Ages /\ passed \in [Phones -> Ages]
      BY <1>1, NowIsLast DEF TypeOK, Ages
    <3>2. passed' = passed \/ passed' = [passed EXCEPT ![p] = Append(passed[p], 0)]
      BY DEF PassCooldown
    <3>3. QED BY <1>1, <3>1, <3>2
  <2>2. cooldown' \in [Phones -> 0..CoolDown]
    BY <1>1, OtpAssumption DEF PassCooldown, TypeOK, CoolKey
  <2>3. QED BY <2>1, <2>2 DEF PassCooldown, Go, TypeOK, Stages, Ages
<1>4. Spaced' /\ KeyCovers'
  <2>1. CASE cooldown[p] > 0
    BY <1>2, <2>1 DEF Spaced, KeyCovers, CoolKey
  <2>2. CASE cooldown[p] = 0
    <3>1. cooldown'[p] = CoolDown /\ passed'[p] = Append(passed[p], 0)
      BY <1>2, <2>2 DEF CoolKey
    <3>2. \A i \in 1..Len(passed[p]) : passed[p][i] >= CoolDown
      BY <2>2, OtpAssumption DEF KeyCovers
    <3>3. \A i, j \in 1..Len(passed'[p]) : i < j => passed'[p][i] - passed'[p][j] >= CoolDown
      <4>1. SUFFICES ASSUME NEW i \in 1..(Len(passed[p]) + 1),
                            NEW j \in 1..(Len(passed[p]) + 1), i < j
                     PROVE  passed'[p][i] - passed'[p][j] >= CoolDown
        BY <1>1, <3>1, NowIsLast
      <4>2. i \in 1..Len(passed[p]) /\ passed'[p][i] = passed[p][i] /\ passed[p][i] \in Nat
        BY <1>1, <3>1, <4>1, NowIsLast, AgesOf
      <4>3. CASE j = Len(passed[p]) + 1
        BY <1>1, <3>1, <3>2, <4>2, <4>3, NowIsLast
      <4>4. CASE j \in 1..Len(passed[p])
        BY <1>1, <3>1, <4>1, <4>2, <4>4, NowIsLast DEF Spaced
      <4>5. QED BY <1>1, <4>3, <4>4
    <3>4. \A i \in 1..Len(passed'[p]) : passed'[p][i] >= CoolDown - cooldown'[p]
      <4>1. passed'[p] \in Ages
        BY <1>1, <3>1, NowIsLast
      <4>2. \A i \in 1..Len(passed'[p]) : passed'[p][i] \in Nat
        BY <4>1, AgesOf
      <4>3. QED BY <3>1, <4>2, OtpAssumption
    <3>5. QED BY <1>2, <3>3, <3>4 DEF Spaced, KeyCovers
  <2>3. QED BY <1>1, <2>1, <2>2
<1>5. OldestFirst' /\ CountedByTwo'
  BY DEF PassCooldown, OldestFirst, CountedByTwo, Counted, Age
<1>6. OnRecord' /\ AnsweredWasSent'
  BY DEF PassCooldown, Go, TypeOK, OnRecord, AnsweredWasSent
<1>7. QED BY <1>3, <1>4, <1>5, <1>6

(* Whoever is admitted is one more under the key; with no key, a new one    *)
(* starts now, and all that are left were admitted before.                  *)
LEMMA CountPhoneInv ==
  ASSUME OtpInv, NEW r \in Requests, CountPhone(r)
  PROVE  OtpInv'
<1> USE DEF OtpInv
<1> DEFINE p == PhoneOf[r]
           w == Incremented(perPhone[p])
           L == Len(admitted[p])
<1>1. /\ p \in Phones /\ admitted[p] \in Ages /\ perPhone[p] \in Keys /\ L \in Nat
      /\ \A i \in 1..L : admitted[p][i] \in Nat
  BY OtpAssumption, AgesOf DEF TypeOK, Ages
<1>2. /\ \A q \in Phones : q # p => admitted'[q] = admitted[q] /\ perPhone'[q] = perPhone[q]
      /\ perPhone'[p] = w
      /\ admitted'[p] = IF w.count <= MaxPerPhone THEN Append(admitted[p], 0) ELSE admitted[p]
  BY <1>1 DEF CountPhone, TypeOK
<1>3. w \in Keys /\ w # NoKey /\ w.count = perPhone[p].count + 1
      /\ w.left = IF perPhone[p] = NoKey THEN Window ELSE perPhone[p].left
  BY <1>1, OtpAssumption DEF Incremented, Keys, NoKey
<1>4. TypeOK'
  <2>1. admitted' \in [Phones -> Ages]
    <3>1. Append(admitted[p], 0) \in Ages /\ admitted \in [Phones -> Ages]
      BY <1>1, NowIsLast DEF TypeOK, Ages
    <3>2. admitted' = admitted \/ admitted' = [admitted EXCEPT ![p] = Append(admitted[p], 0)]
      BY DEF CountPhone
    <3>3. QED BY <1>1, <3>1, <3>2
  <2>2. QED BY <1>3, <2>1 DEF CountPhone, Go, TypeOK, Stages, Ages
<1>5. OldestFirst'
  <2>1. ASSUME w.count <= MaxPerPhone, NEW i \in 1..(L + 1), NEW j \in 1..(L + 1), i < j
        PROVE  admitted'[p][i] >= admitted'[p][j]
    <3>1. admitted'[p] = Append(admitted[p], 0)
      BY <1>2, <2>1
    <3>2. CASE j = L + 1
      BY <1>1, <2>1, <3>1, <3>2, NowIsLast
    <3>3. CASE j \in 1..L
      BY <1>1, <2>1, <3>1, <3>3, NowIsLast DEF OldestFirst
    <3>4. QED BY <1>1, <3>2, <3>3
  <2>2. w.count <= MaxPerPhone => Len(admitted'[p]) = L + 1
    BY <1>1, <1>2, NowIsLast
  <2>3. QED BY <1>2, <2>1, <2>2 DEF OldestFirst
<1>6. /\ perPhone'[p].count > 0 /\ perPhone'[p].left > 0
      /\ Counted(p)' <= Len(admitted'[p])
      /\ Len(admitted'[p]) <= Counted(p)' + MaxPerPhone
      /\ \A i \in 1..Len(admitted'[p]) :
            i > Len(admitted'[p]) - Counted(p)' <=> admitted'[p][i] <= Age(p)'
  <2> DEFINE was == IF perPhone[p] = NoKey THEN 0 ELSE Counted(p)
             since == IF perPhone[p] = NoKey THEN 0 ELSE Age(p)
  <2>1. /\ was \in 0..MaxPerPhone /\ since \in Nat /\ was <= L /\ L <= was + MaxPerPhone
        /\ \A i \in 1..L : i > L - was <=> admitted[p][i] <= since
        /\ w.left \in 1..Window /\ since = Window - w.left
    <3>1. CASE perPhone[p] = NoKey
      BY <1>1, <1>3, <3>1, OtpAssumption DEF CountedByTwo
    <3>2. CASE perPhone[p] # NoKey
      BY <1>1, <1>3, <3>2, OtpAssumption DEF CountedByTwo, Counted, Age, Keys
    <3>3. QED BY <3>1, <3>2
  <2>2. perPhone'[p].count \in Nat \ {0} /\ perPhone'[p].left > 0 /\ Age(p)' = since
    BY <1>1, <1>2, <1>3, <2>1 DEF Age, Keys
  <2>3. was = IF perPhone[p].count < MaxPerPhone THEN perPhone[p].count ELSE MaxPerPhone
    BY OtpAssumption DEF Counted, NoKey
  <2>4. CASE w.count <= MaxPerPhone
    <3>1. Counted(p)' = was + 1
      BY <1>1, <1>2, <1>3, <2>3, <2>4, OtpAssumption DEF Counted, Keys
    <3>2. /\ Len(admitted'[p]) = L + 1 /\ admitted'[p][L + 1] = 0
          /\ \A i \in 1..L : admitted'[p][i] = admitted[p][i]
      BY <1>1, <1>2, <2>4, NowIsLast
    <3>3. ASSUME NEW i \in 1..(L + 1)
          PROVE  i > L - was <=> admitted'[p][i] <= since
      <4>1. CASE i \in 1..L
        BY <2>1, <3>2, <4>1
      <4>2. CASE i = L + 1
        BY <1>1, <2>1, <3>2, <4>2
      <4>3. QED BY <1>1, <4>1, <4>2
    <3>4. (L + 1) - (was + 1) = L - was
      BY <1>1, <2>1
    <3>5. was + 1 <= L + 1 /\ L + 1 <= (was + 1) + MaxPerPhone
      BY <1>1, <2>1, OtpAssumption
    <3>6. QED BY <2>2, <3>1, <3>2, <3>3, <3>4, <3>5
  <2>5. CASE w.count > MaxPerPhone
    <3>1. Counted(p)' = was /\ admitted'[p] = admitted[p]
      BY <1>1, <1>2, <1>3, <2>3, <2>5, OtpAssumption DEF Counted, Keys
    <3>2. QED BY <2>1, <2>2, <3>1
  <2>6. QED BY <1>3, <2>4, <2>5, OtpAssumption DEF Keys
<1>7. CountedByTwo'
  BY <1>2, <1>3, <1>6 DEF CountedByTwo, Counted, Age
<1>8. Spaced' /\ KeyCovers'
  BY DEF CountPhone, Spaced, KeyCovers
<1>9. OnRecord' /\ AnsweredWasSent'
  BY DEF CountPhone, Go, TypeOK, OnRecord, AnsweredWasSent
<1>10. QED BY <1>4, <1>5, <1>7, <1>8, <1>9

(* What is sent. *)
LEMMA SendOutcome ==
  ASSUME TypeOK, NEW r \in Requests, NEW by \in {"WHATSAPP", "SMS"},
         NEW success \in Stages, NEW failure \in Stages \ {success},
         Send(r, by, success, failure)
  PROVE  /\ takenBy' \in [Requests -> SUBSET {"WHATSAPP", "SMS"}]
         /\ pc' \in [Requests -> Stages]
         /\ \A q \in Requests : q # r => takenBy'[q] = takenBy[q] /\ pc'[q] = pc[q]
         /\ pc'[r] = failure \/ (pc'[r] = success /\ by \in takenBy'[r])
<1>1. CASE takenBy' = [takenBy EXCEPT ![r] = @ \cup {by}]
  <2>1. takenBy[r] \cup {by} \in SUBSET {"WHATSAPP", "SMS"}
    BY DEF TypeOK
  <2>2. takenBy' \in [Requests -> SUBSET {"WHATSAPP", "SMS"}] /\ by \in takenBy'[r]
    BY <1>1, <2>1 DEF TypeOK
  <2>3. \A q \in Requests : q # r => takenBy'[q] = takenBy[q]
    BY <1>1 DEF TypeOK
  <2>4. \E stage \in {success, failure} : pc' = [pc EXCEPT ![r] = stage]
    BY DEF Send, Go
  <2>5. /\ pc' \in [Requests -> Stages] /\ pc'[r] \in {success, failure}
        /\ \A q \in Requests : q # r => pc'[q] = pc[q]
    BY <2>4 DEF TypeOK
  <2>6. QED BY <2>2, <2>3, <2>5
<1>2. CASE UNCHANGED takenBy /\ Go(r, failure)
  BY <1>2 DEF Go, TypeOK
<1>3. QED BY <1>1, <1>2 DEF Send

(* The count of the address keeps the invariant.                            *)
LEMMA CountIpInv ==
  ASSUME OtpInv, NEW r \in Requests, CountIp(r)
  PROVE  OtpInv'
<1> USE DEF OtpInv
<1>1. TypeOK'
  <2>1. \A k \in Keys : Incremented(k) \in Keys
    BY OtpAssumption DEF Incremented, Keys, NoKey
  <2>2. QED BY <2>1 DEF CountIp, Go, TypeOK, Stages, history
<1>2. Spaced' /\ KeyCovers' /\ OldestFirst' /\ CountedByTwo'
  BY DEF CountIp, history, Spaced, KeyCovers, OldestFirst, CountedByTwo, Counted, Age
<1>3. OnRecord' /\ AnsweredWasSent'
  BY DEF CountIp, Go, TypeOK, OnRecord, AnsweredWasSent
<1>4. QED BY <1>1, <1>2, <1>3

(* The challenge, its delivery and the end of a request. *)
LEMMA DeliveryInv ==
  ASSUME OtpInv, NEW r \in Requests,
         CreateChallenge(r) \/ SendWhatsApp(r) \/ SendSms(r) \/ RecordFallback(r) \/ End(r)
  PROVE  OtpInv'
<1> USE DEF OtpInv
<1>1. UNCHANGED <<redis, history>>
  BY DEF CreateChallenge, SendWhatsApp, SendSms, RecordFallback, End
<1>2. TypeOK'
  <2>1. CASE SendWhatsApp(r)
    BY <2>1, SendOutcome DEF SendWhatsApp, TypeOK, Stages, redis, history
  <2>2. CASE SendSms(r)
    BY <2>2, SendOutcome DEF SendSms, TypeOK, Stages, redis, history
  <2>3. CASE CreateChallenge(r) \/ RecordFallback(r) \/ End(r)
    BY <2>3 DEF CreateChallenge, RecordFallback, End, Go, TypeOK, Stages, redis, history
  <2>4. QED BY <2>1, <2>2, <2>3
<1>3. Throttle'
  BY <1>1, SameThrottle DEF Throttle
<1>4. OnRecord' /\ AnsweredWasSent'
  <2>1. CASE SendWhatsApp(r)
    <3>1. pc[r] = "created" /\ channel[r] = "WHATSAPP" /\ channel' = channel
      BY <2>1 DEF SendWhatsApp, OnRecord
    <3>2. QED BY <2>1, <3>1, SendOutcome DEF SendWhatsApp, OnRecord, AnsweredWasSent, Stages
  <2>2. CASE SendSms(r)
    BY <2>2, SendOutcome DEF SendSms, OnRecord, AnsweredWasSent, Stages
  <2>3. CASE CreateChallenge(r)
    BY <2>3 DEF CreateChallenge, Go, TypeOK, OnRecord, AnsweredWasSent
  <2>4. CASE RecordFallback(r)
    BY <2>4 DEF RecordFallback, Go, TypeOK, OnRecord, AnsweredWasSent
  <2>5. CASE End(r)
    BY <2>5 DEF End, Go, TypeOK, OnRecord, AnsweredWasSent
  <2>6. QED BY <2>1, <2>2, <2>3, <2>4, <2>5
<1>5. QED BY <1>2, <1>3, <1>4 DEF Throttle

(* Every step keeps the invariant.                                          *)
LEMMA OtpStep == OtpInv /\ [Next]_vars => OtpInv'
<1> SUFFICES ASSUME OtpInv, [Next]_vars PROVE OtpInv'
  OBVIOUS
<1>1. CASE UNCHANGED vars
  BY <1>1, SameThrottle DEF vars, redis, history, OtpInv, Throttle, TypeOK, OnRecord,
                            AnsweredWasSent
<1>2. CASE Tick
  BY <1>2, TickInv
<1>3. ASSUME NEW r \in Requests, Step(r)
      PROVE  OtpInv'
  BY <1>3, PassCooldownInv, CountPhoneInv, CountIpInv, DeliveryInv DEF Step
<1>4. QED BY <1>1, <1>2, <1>3 DEF Next

(* The inductive invariant of the throttle.                                 *)
LEMMA OtpInvariance == Spec => []OtpInv
BY OtpInitInv, OtpStep, PTL DEF Spec

-----------------------------------------------------------------------------
(* Two requests for one number that get past the cool-down are a cool-down  *)
(* apart, any number of them arriving together.                             *)
THEOREM RequestsAreSpaced == Spec => []Spaced
<1>1. OtpInv => Spaced
  BY DEF OtpInv
<1>2. QED BY <1>1, OtpInvariance, PTL

(* A number gets its allowance twice at most within a window's length.      *)
THEOREM AllowanceHolds == Spec => []NoMoreThanTwice
<1>1. OtpInv => NoMoreThanTwice
  <2> SUFFICES ASSUME OtpInv, NEW p \in Phones
               PROVE  Len(admitted[p]) <= 2 * MaxPerPhone
    BY DEF NoMoreThanTwice
  <2>1. perPhone[p] \in Keys /\ Len(admitted[p]) \in Nat
    BY AgesOf DEF OtpInv, TypeOK, Ages
  <2>2. QED BY <2>1, OtpAssumption DEF OtpInv, CountedByTwo, Counted, Keys
<1>2. QED BY <1>1, OtpInvariance, PTL

(* A number is refused only if it had its whole allowance within the last   *)
(* window.                                                                  *)
THEOREM RefusalIsEarned == Spec => RefusalEarned
<1>1. OtpInv /\ [Next]_vars =>
        [\A r \in Requests :
            pc[r] = "cooled" /\ pc'[r] = "refused" =>
                Len(admitted[PhoneOf[r]]) >= MaxPerPhone]_vars
  <2> SUFFICES ASSUME OtpInv, Next, NEW r \in Requests, pc[r] = "cooled", pc'[r] = "refused"
               PROVE  Len(admitted[PhoneOf[r]]) >= MaxPerPhone
    OBVIOUS
  <2> DEFINE p == PhoneOf[r]
  <2>1. CountPhone(r)
    <3>1. PICK q \in Requests : Step(q)
      BY DEF Next, Tick
    <3>2. q = r
      <4>1. \E stage \in Stages : Go(q, stage)
        BY <3>1 DEF Step, PassCooldown, CountPhone, CountIp, CreateChallenge, SendWhatsApp,
                    SendSms, Send, RecordFallback, End, Go, Stages
      <4>2. QED BY <4>1 DEF Go, OtpInv, TypeOK
    <3>3. ~End(r)
      BY DEF End, Go, OtpInv, TypeOK
    <3>4. QED BY <3>1, <3>2, <3>3 DEF Step, PassCooldown, CountIp, CreateChallenge,
                                      SendWhatsApp, SendSms, RecordFallback
  <2>2. /\ p \in Phones /\ perPhone[p] \in Keys /\ Len(admitted[p]) \in Nat
        /\ perPhone[p].count + 1 > MaxPerPhone
    <3>1. p \in Phones /\ perPhone[p] \in Keys /\ Len(admitted[p]) \in Nat
      BY OtpAssumption, AgesOf DEF OtpInv, TypeOK, Ages
    <3>2. Incremented(perPhone[p]).count = perPhone[p].count + 1
      BY DEF Incremented
    <3>3. ~(perPhone[p].count + 1 <= MaxPerPhone)
      BY <2>1, <3>2 DEF CountPhone, Go, OtpInv, TypeOK
    <3>4. QED BY <3>1, <3>3, OtpAssumption DEF Keys
  <2>3. CASE perPhone[p] = NoKey
    BY <2>2, <2>3, OtpAssumption DEF NoKey
  <2>4. CASE perPhone[p] # NoKey
    BY <2>2, <2>4, OtpAssumption DEF OtpInv, CountedByTwo, Counted, Keys
  <2>5. QED BY <2>3, <2>4
<1>2. QED BY <1>1, OtpInvariance, PTL DEF Spec, RefusalEarned

(* Who is told that a code is on its way has been sent one, by the channel  *)
(* on record.                                                               *)
THEOREM AnswersAreTrue == Spec => []AnsweredWasSent
<1>1. OtpInv => AnsweredWasSent
  BY DEF OtpInv
<1>2. QED BY <1>1, OtpInvariance, PTL
=============================================================================
