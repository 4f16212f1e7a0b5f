------------------------------ MODULE MCSessions ------------------------------
(* Five requests of one browser: a sign-in and four more. *)
EXTENDS Sessions, TLC

Symmetry == Permutations(Requests)
================================================================================
