------------------------------ MODULE MCCollab ------------------------------
(* Instances of Collab for TLC. *)
EXTENDS Collab, TLC

CONSTANTS p1, p2, u0, u1, u2, v0, ann, bob, d1, d2

\* One document; p1 is ann's page, the others bob's.
OneDoc == [p \in Pages |-> d1]
TwoUsers == [p \in Pages |-> IF p = p1 THEN ann ELSE bob]

\* Who types what: everything at p1, or u2 at p2.
AllAtFirst == [u \in Updates |-> p1]
SecondAtOther == [u \in Updates |-> IF u = u2 THEN p2 ELSE p1]

\* The backend starts over a database in which d1 has the version v0.
InitSaved ==
  /\ Init!2 /\ Init!3 /\ Init!4 /\ Init!5
  /\ Init!6 /\ Init!7 /\ Init!8 /\ Init!9 /\ Init!10
  /\ blobs = [v \in VersionIds |->
       IF v = v0 THEN [state |-> "whole", data |-> {u0}]
       ELSE Storage!AbsentBlob]
  /\ versions = {[versionId |-> v0, docId |-> d1, parentVersionId |-> None,
                  authorId |-> ann, checksum |-> {u0}, createdAt |-> 0]}
  /\ latest = [d \in Docs |-> v0]
  /\ jobs = [j \in Jobs |-> Storage!IdleJob]
  /\ clock = 1

SpecSaved == InitSaved /\ [][Next]_vars

Interchangeable == Permutations(VersionIds \ {v0})
=============================================================================
