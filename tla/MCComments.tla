----------------------------- MODULE MCComments -----------------------------
(* Instances of Comments for TLC. *)
EXTENDS Comments, TLC

\* Each user has one page and is named after it.
OnePageEach == [p \in Pages |-> p]
Interchangeable == Permutations(Pages) \cup Permutations(Docs)
=============================================================================
