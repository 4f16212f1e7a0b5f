------------------------------ MODULE VerifyCode ------------------------------
(***************************************************************************)
(* OtpService.verify in front of the sign-in: a request looks its          *)
(* challenge up, compares the code, and then uses the challenge up or      *)
(* counts a wrong answer, in statements other requests come between.  A    *)
(* request that was right goes on as a sign-in of SignIn.                  *)
(*                                                                         *)
(* A challenge is known by the phone its code was sent to.                 *)
(***************************************************************************)
EXTENDS SignIn

CONSTANTS
    WithRightCode,  \* those of SignIns that bring the right code
    MaxAttempts     \* OTP_MAX_ATTEMPTS

ASSUME VerifyAssumption == WithRightCode \subseteq SignIns /\ MaxAttempts \in Nat \ {0}

VARIABLES
    challenge,  \* challenge[p]: "live", "used" (consumedAt) or "gone" (deleted)
    attempts,   \* attempts[p], while the row is there
    expired,    \* challenges past expiresAt
    verify,     \* where the verification of a request stands
    found,      \* attempts as the request's look-up found them
    wrong,      \* history: wrong answers given to a challenge
    late        \* history: requests that came after the code should have ended

rows == <<challenge, attempts, expired>>
verifyVars == <<rows, verify, found, wrong, late>>

VerifyInit ==
    /\ Init
    /\ challenge = [p \in Phones |-> "live"]
    /\ attempts = [p \in Phones |-> 0]
    /\ expired = {}
    /\ verify = [s \in SignIns |-> "idle"]
    /\ found = [s \in SignIns |-> 0]
    /\ wrong = [p \in Phones |-> 0]
    /\ late = {}

Reach(s, stage, n) ==
    /\ verify' = [verify EXCEPT ![s] = stage]
    /\ found' = [found EXCEPT ![s] = n]

(* The request is answered with an error, or is lost. *)
End(s) == Reach(s, "ended", 0)

-----------------------------------------------------------------------------
(* Some request was right about the code of p. *)
Used(p) == \E s \in SignIns : PhoneOf[s] = p /\ verify[s] = "right"

(* findUnique, and the three refusals. *)
LookUp(s) ==
    LET p == PhoneOf[s] IN
    /\ verify[s] = "idle"
    /\ IF challenge[p] # "live" \/ p \in expired THEN End(s)
       ELSE Reach(s, IF attempts[p] >= MaxAttempts THEN "deleting" ELSE "comparing",
                  attempts[p])
    /\ late' = IF Used(p) \/ wrong[p] >= MaxAttempts THEN late \cup {s} ELSE late
    /\ UNCHANGED <<rows, wrong>>

(* The code is right: consumedAt is set, whatever the row says by now.  An  *)
(* update of a row that is gone fails the request.                          *)
Consume(s) ==
    LET p == PhoneOf[s] IN
    /\ verify[s] = "comparing" /\ s \in WithRightCode
    /\ IF challenge[p] = "gone"
       THEN End(s) /\ UNCHANGED challenge
       ELSE Reach(s, "right", 0) /\ challenge' = [challenge EXCEPT ![p] = "used"]
    /\ UNCHANGED <<attempts, expired, wrong, late>>

(* Slip: the attempts written are counted on from those found. *)
IncrementedFound(s) == found[s] + 1

(* attempts: { increment: 1 } *)
Incremented(s) == attempts[PhoneOf[s]] + 1

(* The code is wrong. *)
CountWrong(s) ==
    LET p == PhoneOf[s] IN
    /\ verify[s] = "comparing" /\ s \notin WithRightCode
    /\ IF challenge[p] = "gone"
       THEN End(s) /\ UNCHANGED <<attempts, wrong>>
       ELSE /\ attempts' = [attempts EXCEPT ![p] = Incremented(s)]
            /\ wrong' = [wrong EXCEPT ![p] = @ + 1]
            /\ IF Incremented(s) >= MaxAttempts THEN Reach(s, "deleting", 0) ELSE End(s)
    /\ UNCHANGED <<challenge, expired, late>>

Delete(s) ==
    /\ verify[s] = "deleting"
    /\ challenge' = [challenge EXCEPT ![PhoneOf[s]] = "gone"]
    /\ End(s)
    /\ UNCHANGED <<attempts, expired, wrong, late>>

(* The request is lost: its process ends, or the database fails it. *)
Lose(s) ==
    /\ verify[s] \in {"comparing", "deleting"}
    /\ End(s)
    /\ UNCHANGED <<rows, wrong, late>>

RunOut(p) ==
    /\ p \notin expired
    /\ expired' = expired \cup {p}
    /\ UNCHANGED <<challenge, attempts, verify, found, wrong, late>>

VerifyStep(s) == LookUp(s) \/ Consume(s) \/ CountWrong(s) \/ Delete(s) \/ Lose(s)

VerifyNext ==
    \/ (\E s \in SignIns : VerifyStep(s)) /\ UNCHANGED vars
    \/ (\E p \in Phones : RunOut(p)) /\ UNCHANGED vars
    \/ \E s \in SignIns :
          verify[s] = "right" /\ (Step(s) \/ Abort(s)) /\ UNCHANGED verifyVars

VerifySpec == VerifyInit /\ [][VerifyNext]_<<vars, verifyVars>>

FairVerifySpec ==
    /\ VerifySpec
    /\ \A s \in SignIns :
          WF_vars(verify[s] = "right" /\ pc[s] # "idle" /\ Step(s) /\ UNCHANGED verifyVars)

-----------------------------------------------------------------------------
(* "A code can never be brute-forced or replayed": a request that is right  *)
(* looked its challenge up before any other was right, and before           *)
(* MaxAttempts wrong answers had been given, however requests overlap or    *)
(* are lost.  Requests that looked it up side by side may all be right.     *)
CodeEnds == \A s \in late : verify[s] # "right"

-----------------------------------------------------------------------------
(* The type invariant. *)
VerifyStages == {"idle", "comparing", "deleting", "right", "ended"}

VerifyTypeOK ==
    /\ challenge \in [Phones -> {"live", "used", "gone"}]
    /\ attempts \in [Phones -> Nat]
    /\ verify \in [SignIns -> VerifyStages]
    /\ wrong \in [Phones -> Nat]
    /\ late \subseteq SignIns
=============================================================================
