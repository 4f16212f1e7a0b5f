----------------------------- MODULE StaleReads -----------------------------
(***************************************************************************)
(* What a cache without invalidation promises its readers: an answer is    *)
(* made of parts, and each may be a value its source has left; but once a  *)
(* value of a part is no longer about it never comes back, unless the      *)
(* source takes it again.  The parts of an answer need not be of one time. *)
(***************************************************************************)
CONSTANT Values

VARIABLES
    current,    \* current[i]: what the source of part i holds
    about       \* about[i]: the values of part i a reader may be answered with

Init ==
    /\ \A i \in DOMAIN current : current[i] \in Values
    /\ about = [i \in DOMAIN current |-> {current[i]}]

(* Sources take other values (or keep them), and values are forgotten. *)
Next ==
    /\ DOMAIN current' = DOMAIN current /\ DOMAIN about' = DOMAIN about
    /\ \A i \in DOMAIN current :
          /\ current'[i] \in Values
          /\ current'[i] \in about'[i]
          /\ about'[i] \subseteq about[i] \cup {current'[i]}

Spec == Init /\ [][Next]_<<current, about>>
=============================================================================
