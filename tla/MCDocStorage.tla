---------------------------- MODULE MCDocStorage ----------------------------
(* Instances of DocStorage for TLC. *)
EXTENDS DocStorage, TLC

\* Jobs, updates, version ids and documents are interchangeable.
Interchangeable ==
  UNION {Permutations(Jobs), Permutations(VersionIds), Permutations(Updates),
         Permutations(Docs)}
=============================================================================
