------------------------------- MODULE Mailbox -------------------------------
(***************************************************************************)
(* What the outbox promises of a message, with no worker, batch, query or  *)
(* crash in sight: it is attempted until it is sent or given up, every     *)
(* recorded attempt counts once, and it is handed over again only when it  *)
(* is in doubt whether the provider has it.                                *)
(***************************************************************************)
EXTENDS Naturals

CONSTANTS
    Msgs,
    MaxAttempts,
    LogOnly     \* messages of a channel that is not wired: nobody is handed
                \* them, and the record says SENT all the same

VARIABLES status, attempts, taken, blurred  \* as in Outbox

vars == <<status, attempts, taken, blurred>>

Init ==
    /\ status = [m \in Msgs |-> "NONE"]
    /\ attempts = [m \in Msgs |-> 0]
    /\ taken = [m \in Msgs |-> 0]
    /\ blurred = {}

Write(m) ==
    /\ status[m] = "NONE"
    /\ status' = [status EXCEPT ![m] = "PENDING"]
    /\ UNCHANGED <<attempts, taken, blurred>>

(* The provider takes the message, and may fail to say so. *)
HandOver(m) ==
    /\ status[m] = "PENDING" /\ m \notin LogOnly
    /\ taken[m] = 0 \/ m \in blurred
    /\ taken' = [taken EXCEPT ![m] = IF @ = 0 THEN 1 ELSE 2]
    /\ blurred' \in {blurred, blurred \cup {m}}
    /\ UNCHANGED <<status, attempts>>

(* What became of some messages is lost. *)
Blur ==
    /\ \E lost \in SUBSET Msgs : blurred' = blurred \cup lost
    /\ UNCHANGED <<status, attempts, taken>>

(* An attempt goes on record, with its outcome: one that failed, or will be *)
(* repeated, did not deliver the message, as far as anybody can tell.       *)
Record(m) ==
    /\ status[m] = "PENDING"
    /\ attempts' = [attempts EXCEPT ![m] = @ + 1]
    /\ \E s \in {"SENT", "PENDING", "FAILED"} :
          /\ s = "SENT" => taken[m] > 0 \/ m \in LogOnly
          /\ s # "SENT" => taken[m] = 0 \/ m \in blurred
          /\ s = "PENDING" => attempts[m] + 1 < MaxAttempts
          /\ status' = [status EXCEPT ![m] = s]
    /\ UNCHANGED <<taken, blurred>>

Next == Blur \/ \E m \in Msgs : Write(m) \/ HandOver(m) \/ Record(m)

Spec == Init /\ [][Next]_vars
=============================================================================
