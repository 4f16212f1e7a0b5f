------------------------------ MODULE OtpRequest ------------------------------
(***************************************************************************)
(* OtpService.request: a customer asks for a sign-in code.  Three Redis    *)
(* commands throttle the request, one after the other and each atomic; then *)
(* the challenge is written and the code goes out by WhatsApp, or by SMS   *)
(* if WhatsApp does not take it.  This is the production configuration;    *)
(* any other answers as if SMS had worked.                                 *)
(*                                                                         *)
(* Time passes in ticks; a Redis key is kept by the ticks it has left.  So *)
(* the model has no clock that would have to stop, and requests come and go *)
(* for ever.                                                               *)
(***************************************************************************)
EXTENDS Integers, Sequences

CONSTANTS
    Requests,           \* requests under way at once
    Phones, Ips,
    PhoneOf, IpOf,      \* the number a request names, the address it is from
    Blocked,            \* numbers of blocked customers
    CoolDown,           \* OTP_RESEND_COOLDOWN_SECONDS
    Window,             \* the hour of the two counters
    MaxPerPhone, MaxPerIp

ASSUME OtpAssumption ==
    /\ PhoneOf \in [Requests -> Phones] /\ IpOf \in [Requests -> Ips]
    /\ Blocked \subseteq Phones
    /\ CoolDown \in Nat \ {0} /\ Window \in Nat \ {0}
    /\ MaxPerPhone \in Nat /\ MaxPerIp \in Nat

VARIABLES
    cooldown,       \* otp:cooldown:<phone>: the ticks it has left
    perPhone,       \* otp:phone:<phone>: a count, and the ticks it has left
    perIp,          \* otp:ip:<ip>, likewise
    pc,
    passed,         \* how long ago requests for a number got past its
    admitted,       \* cool-down, and its count: those of the last window
    channel,        \* the challenge's channel; "none": no challenge
    takenBy         \* the channels whose provider took the code

redis == <<cooldown, perPhone, perIp>>
history == <<passed, admitted>>
vars == <<redis, pc, history, channel, takenBy>>

NoKey == [count |-> 0, left |-> 0]
Keys == [count : Nat, left : 0..Window]

Stages == {"idle", "cooled", "counted", "admitted", "created", "fallback",
           "smsTaken", "answered", "refused"}

Init ==
    /\ cooldown = [p \in Phones |-> 0]
    /\ perPhone = [p \in Phones |-> NoKey]
    /\ perIp = [i \in Ips |-> NoKey]
    /\ pc = [r \in Requests |-> "idle"]
    /\ passed = [p \in Phones |-> <<>>]
    /\ admitted = [p \in Phones |-> <<>>]
    /\ channel = [r \in Requests |-> "none"]
    /\ takenBy = [r \in Requests |-> {}]

Go(r, stage) == pc' = [pc EXCEPT ![r] = stage]

Later(w) == IF w.left <= 1 THEN NoKey ELSE [w EXCEPT !.left = @ - 1]

(* Ages, oldest first, a tick later; those of a whole window are dropped.   *)
Older(ages) ==
    LET gone == CHOOSE n \in 0..Len(ages) :
                    \A i \in 1..Len(ages) : i <= n <=> ages[i] + 1 >= Window
    IN  [i \in 1..(Len(ages) - gone) |-> ages[i + gone] + 1]

Tick ==
    /\ cooldown' = [p \in Phones |-> IF cooldown[p] = 0 THEN 0 ELSE cooldown[p] - 1]
    /\ perPhone' = [p \in Phones |-> Later(perPhone[p])]
    /\ perIp' = [i \in Ips |-> Later(perIp[i])]
    /\ passed' = [p \in Phones |-> Older(passed[p])]
    /\ admitted' = [p \in Phones |-> Older(admitted[p])]
    /\ UNCHANGED <<pc, channel, takenBy>>

-----------------------------------------------------------------------------
(* enforceRateLimits. *)

(* Slip: a GET, and the key set once the request is through. *)
CoolKeyGet(p) == cooldown[p]

(* SET NX EX writes the key only if it is not there. *)
CoolKey(p) == IF cooldown[p] > 0 THEN cooldown[p] ELSE CoolDown

PassCooldown(r) ==
    LET p == PhoneOf[r] IN
    /\ pc[r] = "idle"
    /\ cooldown' = [cooldown EXCEPT ![p] = CoolKey(p)]
    /\ IF cooldown[p] > 0
       THEN Go(r, "refused") /\ UNCHANGED passed
       ELSE Go(r, "cooled") /\ passed' = [passed EXCEPT ![p] = Append(@, 0)]
    /\ UNCHANGED <<perPhone, perIp, admitted, channel, takenBy>>

(* Slips: EXPIRE without NX; a window in milliseconds, over by the next     *)
(* tick.                                                                    *)
IncrementedSliding(w) == [count |-> w.count + 1, left |-> Window]
IncrementedShort(w) ==
    [count |-> w.count + 1, left |-> IF w = NoKey THEN 1 ELSE w.left]

(* incrementWindow: MULTI, INCR, EXPIRE NX. *)
Incremented(w) ==
    [count |-> w.count + 1, left |-> IF w = NoKey THEN Window ELSE w.left]

CountPhone(r) ==
    LET p == PhoneOf[r]  w == Incremented(perPhone[p]) IN
    /\ pc[r] = "cooled"
    /\ perPhone' = [perPhone EXCEPT ![p] = w]
    /\ IF w.count <= MaxPerPhone
       THEN Go(r, "counted") /\ admitted' = [admitted EXCEPT ![p] = Append(@, 0)]
       ELSE Go(r, "refused") /\ UNCHANGED admitted
    /\ UNCHANGED <<cooldown, perIp, passed, channel, takenBy>>

CountIp(r) ==
    LET i == IpOf[r]  w == Incremented(perIp[i]) IN
    /\ pc[r] = "counted"
    /\ perIp' = [perIp EXCEPT ![i] = w]
    /\ Go(r, IF w.count <= MaxPerIp THEN "admitted" ELSE "refused")
    /\ UNCHANGED <<cooldown, perPhone, history, channel, takenBy>>

-----------------------------------------------------------------------------
(* The challenge and its delivery. *)

CreateChallenge(r) ==
    /\ pc[r] = "admitted"
    /\ IF PhoneOf[r] \in Blocked
       THEN Go(r, "refused") /\ UNCHANGED channel
       ELSE Go(r, "created") /\ channel' = [channel EXCEPT ![r] = "WHATSAPP"]
    /\ UNCHANGED <<redis, history, takenBy>>

(* A provider takes the code and says so, takes it though its answer is     *)
(* lost, or does not take it.                                               *)
Send(r, by, success, failure) ==
    \/ takenBy' = [takenBy EXCEPT ![r] = @ \cup {by}] /\ Go(r, success)
    \/ takenBy' = [takenBy EXCEPT ![r] = @ \cup {by}] /\ Go(r, failure)
    \/ UNCHANGED takenBy /\ Go(r, failure)

SendWhatsApp(r) ==
    /\ pc[r] = "created"
    /\ Send(r, "WHATSAPP", "answered", "fallback")
    /\ UNCHANGED <<redis, history, channel>>

SendSms(r) ==
    /\ pc[r] = "fallback"
    /\ Send(r, "SMS", "smsTaken", "refused")
    /\ UNCHANGED <<redis, history, channel>>

(* Slip: the answer is not waited for the update. *)
RecordFallbackLater(r) ==
    /\ pc[r] = "smsTaken"
    /\ Go(r, "answered")
    /\ UNCHANGED <<redis, history, channel, takenBy>>

RecordFallback(r) ==
    /\ pc[r] = "smsTaken"
    /\ channel' = [channel EXCEPT ![r] = "SMS"]
    /\ Go(r, "answered")
    /\ UNCHANGED <<redis, history, takenBy>>

(* The answer goes out; or the API crashes, or Redis or the database fails  *)
(* the request, at any point of it.  Nobody asks for its code again.        *)
End(r) ==
    /\ pc[r] # "idle"
    /\ Go(r, "idle")
    /\ channel' = [channel EXCEPT ![r] = "none"]
    /\ takenBy' = [takenBy EXCEPT ![r] = {}]
    /\ UNCHANGED <<redis, history>>

Step(r) ==
    \/ PassCooldown(r) \/ CountPhone(r) \/ CountIp(r) \/ CreateChallenge(r)
    \/ SendWhatsApp(r) \/ SendSms(r) \/ RecordFallback(r) \/ End(r)

Next == Tick \/ \E r \in Requests : Step(r)

Spec == Init /\ [][Next]_vars

-----------------------------------------------------------------------------
(* Properties. *)

TypeOK ==
    /\ cooldown \in [Phones -> 0..CoolDown]
    /\ perPhone \in [Phones -> Keys]
    /\ perIp \in [Ips -> Keys]
    /\ pc \in [Requests -> Stages]
    /\ passed \in [Phones -> Seq(0..(Window - 1))]
    /\ admitted \in [Phones -> Seq(0..(Window - 1))]
    /\ channel \in [Requests -> {"none", "WHATSAPP", "SMS"}]
    /\ takenBy \in [Requests -> SUBSET {"WHATSAPP", "SMS"}]

(* "Please wait": whatever becomes of them, two requests for one number     *)
(* that get past the cool-down are that long apart, also when they arrive   *)
(* together.                                                                *)
Spaced ==
    \A p \in Phones : \A i, j \in 1..Len(passed[p]) :
        i < j => passed[p][i] - passed[p][j] >= CoolDown

(* The counter restarts at fixed times, so a number may get its allowance   *)
(* twice within one window's length, at the end of a window and at the      *)
(* start of the next; never more.                                           *)
NoMoreThanTwice == \A p \in Phones : Len(admitted[p]) <= 2 * MaxPerPhone

(* "Please try again later" is kept: a number is refused only if it had its *)
(* whole allowance within the last window.  Requests made while it was      *)
(* refused do not put the time off.                                         *)
RefusalEarned ==
    [][\A r \in Requests :
          pc[r] = "cooled" /\ pc'[r] = "refused" =>
              Len(admitted[PhoneOf[r]]) >= MaxPerPhone]_vars

(* A customer who is told that a code is on its way has been sent one, by   *)
(* the channel on record.                                                   *)
AnsweredWasSent ==
    \A r \in Requests : pc[r] = "answered" => channel[r] \in takenBy[r]
===============================================================================
