------------------------------- MODULE Outbox -------------------------------
(***************************************************************************)
(* The notification outbox: rows written with their business event, and    *)
(* worker ticks (NotificationService.processDue) that read what is due,    *)
(* hand each message to a provider and record what became of it, one       *)
(* message at a time, with no transaction around the three.                *)
(***************************************************************************)
EXTENDS Integers, Sequences, FiniteSets

CONSTANTS
    Msgs,           \* the notifications that may ever be written
    Workers,        \* worker processes; the deployment runs one
    ChannelOf,      \* the channel each is written for
    Unwired,        \* channels whose provider writes to its log instead of
                    \* sending, and says that it sent
    MaxAttempts,    \* notifications.maxAttempts
    BatchLimit      \* processDue's limit

Channels == {"WHATSAPP", "SMS", "EMAIL"}

ASSUME OutboxAssumption ==
    /\ ChannelOf \in [Msgs -> Channels]
    /\ Unwired \in SUBSET {"SMS", "EMAIL"}
    /\ MaxAttempts \in Nat \ {0}
    /\ BatchLimit \in Nat \ {0}

VARIABLES
    created,    \* the rows, in the order of createdAt
    status,     \* notifications.status; "NONE": no such row yet
    attempts,   \* notifications.attempts
    due,        \* rows whose nextAttemptAt has passed
    batch,      \* the rows a worker's tick read and has still to do: each
                \* with the attempts it had
    result,     \* the provider's answer to the first of them
    taken,      \* history: how often a provider took a message, up to 2
    blurred     \* history: messages of which a handover's outcome was lost

vars == <<created, status, attempts, due, batch, result,
          taken, blurred>>

Results == {"none", "ok", "retry", "giveup"}

TypeOK ==
    /\ created \in Seq(Msgs)
    /\ status \in [Msgs -> {"NONE", "PENDING", "SENT", "FAILED"}]
    /\ attempts \in [Msgs -> Nat]
    /\ due \in SUBSET Msgs
    /\ batch \in [Workers -> SUBSET (Msgs \X Nat)]
    /\ result \in [Workers -> Results]
    /\ taken \in [Msgs -> 0..2]
    /\ blurred \in SUBSET Msgs

Init ==
    /\ created = <<>>
    /\ status = [m \in Msgs |-> "NONE"]
    /\ attempts = [m \in Msgs |-> 0]
    /\ due = {}
    /\ batch = [w \in Workers |-> {}]
    /\ result = [w \in Workers |-> "none"]
    /\ taken = [m \in Msgs |-> 0]
    /\ blurred = {}

-----------------------------------------------------------------------------
(* The business transaction commits, and the row with it. *)
enqueue(m) ==
    /\ status[m] = "NONE"
    /\ created' = Append(created, m)
    /\ status' = [status EXCEPT ![m] = "PENDING"]
    /\ due' = due \cup {m}
    /\ UNCHANGED <<attempts, batch, result, taken, blurred>>

(* nextAttemptAt passes. *)
BecomeDue(m) ==
    /\ status[m] = "PENDING" /\ m \notin due
    /\ due' = due \cup {m}
    /\ UNCHANGED <<created, status, attempts, batch, result, taken, blurred>>

(* Slip: the query forgets the status and goes by nextAttemptAt alone. *)
IsDueByTime(m) == m \in due

(* Slip: rows that have been tried are left to somebody else. *)
IsDueUntried(m) == status[m] = "PENDING" /\ m \in due /\ attempts[m] = 0

IsDue(m) == status[m] = "PENDING" /\ m \in due

Older(o, m) ==
    \E i, j \in DOMAIN created : i < j /\ created[i] = o /\ created[j] = m

Oldest(S, n) == {m \in S : Cardinality({o \in S : Older(o, m)}) < n}

(* One query: the oldest due rows, with their attempts as they are now. *)
PickDue(w) ==
    LET found == Oldest({m \in Msgs : IsDue(m)}, BatchLimit) IN
    /\ batch[w] = {} /\ found # {}
    /\ batch' = [batch EXCEPT ![w] = {<<m, attempts[m]>> : m \in found}]
    /\ UNCHANGED <<created, status, attempts, due, result, taken, blurred>>

(* The row the loop of the tick is at. *)
IsNext(w, x) == \A y \in batch[w] \ {x} : Older(x[1], y[1])

(* What a call of a provider may come to: what it returns, and how often    *)
(* the message was taken.  A 5xx, a 429, a broken connection or the timeout *)
(* of 15 seconds is worth a retry, and may hide a message that was taken.   *)
Remote == {<<"ok", 1>>, <<"giveup", 0>>, <<"retry", 0>>, <<"retry", 1>>}

(* The message goes to the log, to nobody else, and counts as sent.         *)
Logged == {<<"ok", 0>>}

Refused == {<<"giveup", 0>>}

(* Without an account it refuses, which a remote call may do as well. *)
WhatsAppOutcomes == Remote

(* SMS_PROVIDER is "console", or it is a gateway or one not implemented. *)
SmsOutcomes == IF "SMS" \in Unwired THEN Logged ELSE Remote

(* A stub: without EMAIL_API_KEY it logs, with one it refuses. *)
EmailOutcomes == IF "EMAIL" \in Unwired THEN Logged ELSE Refused

providers == [WHATSAPP |-> WhatsAppOutcomes, SMS |-> SmsOutcomes, EMAIL |-> EmailOutcomes]

(* A channel without a provider fails for good: NO_PROVIDER. *)
Outcomes(m) ==
    IF ChannelOf[m] \in DOMAIN providers THEN providers[ChannelOf[m]] ELSE Refused

(* sendTemplate or sendText of the message's provider. *)
Send(w) ==
    /\ result[w] = "none"
    /\ \E x \in batch[w] : \E o \in Outcomes(x[1]) :
          /\ IsNext(w, x)
          /\ result' = [result EXCEPT ![w] = o[1]]
          /\ taken' = [taken EXCEPT ![x[1]] = IF @ + o[2] > 2 THEN 2 ELSE @ + o[2]]
          /\ blurred' = IF o = <<"retry", 1>> THEN blurred \cup {x[1]} ELSE blurred
    /\ UNCHANGED <<created, status, attempts, due, batch>>

Done(w, x) ==
    /\ batch' = [batch EXCEPT ![w] = @ \ {x}]
    /\ result' = [result EXCEPT ![w] = "none"]

(* The success branch of processDue. *)
RecordSent(w) ==
    /\ result[w] = "ok"
    /\ \E x \in batch[w] :
          /\ IsNext(w, x)
          /\ status' = [status EXCEPT ![x[1]] = "SENT"]
          /\ attempts' = [attempts EXCEPT ![x[1]] = @ + 1]
          /\ Done(w, x)
    /\ UNCHANGED <<created, due, taken, blurred>>

(* Slip: every failure is recorded as the first one. *)
NextAttemptFirst(n) == 1

NextAttempt(n) == n + 1

(* Slip: one attempt too many. *)
ExhaustedLate(r, nextAttempt) == r = "giveup" \/ nextAttempt > MaxAttempts

Exhausted(r, nextAttempt) == r = "giveup" \/ nextAttempt >= MaxAttempts

(* markFailed, which counts on from the attempts the tick read.  It clears   *)
(* nextAttemptAt when it gives up, and a row without one counts as due.     *)
MarkFailed(w) ==
    /\ result[w] \in {"retry", "giveup"}
    /\ \E x \in batch[w] :
          LET over == Exhausted(result[w], NextAttempt(x[2])) IN
          /\ IsNext(w, x)
          /\ attempts' = [attempts EXCEPT ![x[1]] = NextAttempt(x[2])]
          /\ status' = [status EXCEPT ![x[1]] = IF over THEN "FAILED" ELSE "PENDING"]
          /\ due' = IF over THEN due ELSE due \ {x[1]}
          /\ Done(w, x)
    /\ UNCHANGED <<created, taken, blurred>>

(* The worker stops, or the tick ends in an exception: the rest of the      *)
(* batch is dropped, and with it the outcome of a handover not recorded.    *)
Crash(w) ==
    /\ batch[w] # {}
    /\ batch' = [batch EXCEPT ![w] = {}]
    /\ result' = [result EXCEPT ![w] = "none"]
    /\ blurred' = IF result[w] = "none" THEN blurred
                  ELSE blurred \cup {x[1] : x \in {y \in batch[w] : IsNext(w, y)}}
    /\ UNCHANGED <<created, status, attempts, due, taken>>

Next ==
    \/ \E m \in Msgs : enqueue(m) \/ BecomeDue(m)
    \/ \E w \in Workers :
          PickDue(w) \/ Send(w) \/ RecordSent(w) \/ MarkFailed(w) \/ Crash(w)

Spec == Init /\ [][Next]_vars

(* Clocks go on, the worker ticks for ever and in the end stops crashing.   *)
(* Nothing is asked of the providers: they may fail for ever.               *)
Fairness ==
    /\ \A m \in Msgs : WF_vars(BecomeDue(m))
    /\ \A w \in Workers :
          /\ WF_vars(PickDue(w) \/ Send(w) \/ RecordSent(w) \/ MarkFailed(w))
          /\ <>[][~Crash(w)]_vars

FairSpec == Spec /\ Fairness

-----------------------------------------------------------------------------
(* Properties. *)

(* A message is sent twice only if the outcome of a handover was lost: the  *)
(* worker stopped before recording it, or the provider took the message and *)
(* failed to say so.                                                        *)
NoNeedlessRepeat ==
    \A m \in Msgs : taken[m] > 1 => m \in blurred

(* The record is true.  SENT is said only of a message its provider took,   *)
(* except on a channel that is not wired, where it means the log and nobody *)
(* has the message; FAILED is said of none that is known to be taken; none  *)
(* has more than the attempts it is allowed, and one that is pending has    *)
(* some left.                                                               *)
OutcomeIsTrue ==
    \A m \in Msgs :
        /\ status[m] = "SENT" => (taken[m] > 0) # (ChannelOf[m] \in Unwired)
        /\ status[m] = "FAILED" => taken[m] = 0 \/ m \in blurred
        /\ attempts[m] <= MaxAttempts
        /\ status[m] = "PENDING" => attempts[m] < MaxAttempts

(* A notification is not forgotten: written once, it is recorded as sent or *)
(* as given up, however the providers and the worker fail.                  *)
EveryMessageSettles ==
    \A m \in Msgs : status[m] = "PENDING" ~> status[m] \in {"SENT", "FAILED"}

(* Batches, queries and crashes aside, a message is attempted until it is   *)
(* sent or given up, each attempt on record counts once, and it is handed   *)
(* over again only while in doubt.                                          *)
Box == INSTANCE Mailbox WITH LogOnly <- {m \in Msgs : ChannelOf[m] \in Unwired}
DeliversAsMailbox == Box!Spec
=============================================================================
