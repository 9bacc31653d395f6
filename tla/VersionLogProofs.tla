-------------------------- MODULE VersionLogProofs --------------------------
(***************************************************************************)
(* What every implementation of VersionLog may be relied upon for, proved  *)
(* of the log alone.  DocStorageProofs proves that the storage protocol is *)
(* such an implementation.                                                 *)
(***************************************************************************)
EXTENDS VersionLog, TLAPS

LogInv == TypeOK /\ HeadIsHeld

\* Recording a version or moving a head keeps every head within its log.
LEMMA NextLogInv == LogInv /\ [Next]_vars => LogInv'
<1> SUFFICES ASSUME LogInv, [Next]_vars PROVE LogInv'
  OBVIOUS
<1> USE DEF LogInv, TypeOK, HeadIsHeld, Holds
<1>1. ASSUME NEW e \in Entry, Record(e) PROVE LogInv'
  BY <1>1 DEF Record
<1>2. ASSUME NEW d \in Docs, NEW v \in VersionIds, MoveHead(d, v)
      PROVE  LogInv'
  BY <1>2 DEF MoveHead
<1>3. CASE UNCHANGED vars
  BY <1>3 DEF vars
<1> QED BY <1>1, <1>2, <1>3 DEF Next

\* A document never points at a version its log does not hold.
THEOREM HeadIsAlwaysHeld == Spec => [](TypeOK /\ HeadIsHeld)
<1>1. Init => LogInv
  BY DEF Init, LogInv, TypeOK, HeadIsHeld
<1> QED BY <1>1, NextLogInv, PTL DEF Spec, LogInv

\* No step removes an entry of the log or alters a field of it.
THEOREM EntriesAreFinal == Spec => LogOnlyGrows
<1>1. [Next]_vars => [log \subseteq log']_vars
  BY DEF Next, Record, MoveHead, vars
<1> QED BY <1>1, PTL DEF Spec, LogOnlyGrows

=============================================================================
