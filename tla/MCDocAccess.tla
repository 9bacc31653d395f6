----------------------------- MODULE MCDocAccess -----------------------------
(* Instances of DocAccess for TLC. *)
EXTENDS DocAccess, TLC

\* Requests, and the users other than the one with the panel, are
\* interchangeable.
Interchangeable ==
  Permutations(Requests) \cup Permutations(Users \ {Me})
=============================================================================
