----------------------------- MODULE VersionLog -----------------------------
(***************************************************************************)
(* What the version storage promises, whatever the number of writers and   *)
(* whatever fails: every document has a log of versions that only grows,   *)
(* whose entries never change and descend from earlier entries, and a head *)
(* that only ever points at an entry of that document's own log.           *)
(*                                                                         *)
(* DocStorage implements this log with three remote calls per version and  *)
(* no transaction around them.                                             *)
(***************************************************************************)
CONSTANTS
  Docs,       \* documents
  VersionIds, \* identifiers a version can have
  Contents,   \* what a version can hold
  None        \* JavaScript's null

VARIABLES
  log,        \* the versions recorded so far
  head        \* the version each document currently points at

vars == <<log, head>>

Entry == [id      : VersionIds,
          doc     : Docs,
          parent  : VersionIds \cup {None},
          content : Contents]

TypeOK ==
  /\ log \subseteq Entry
  /\ head \in [Docs -> VersionIds \cup {None}]

\* The log of document d holds a version v.
Holds(d, v) == \E e \in log : e.doc = d /\ e.id = v

Init ==
  /\ log  = {}
  /\ head = [d \in Docs |-> None]

\* A new version is recorded, complete, after the version it descends from.
Record(e) ==
  /\ \A f \in log : f.id # e.id
  /\ e.parent # None => Holds(e.doc, e.parent)
  /\ log' = log \cup {e}
  /\ UNCHANGED head

\* The document is made to point at a version it already holds.
MoveHead(d, v) ==
  /\ Holds(d, v)
  /\ head' = [head EXCEPT ![d] = v]
  /\ UNCHANGED log

Next ==
  \/ \E e \in Entry : Record(e)
  \/ \E d \in Docs, v \in VersionIds : MoveHead(d, v)

Spec == Init /\ [][Next]_vars

-----------------------------------------------------------------------------
(* What a reader of the log may rely on.                                   *)

\* A document that points at a version points at one it can read, and one
\* that is its own.
HeadIsHeld == \A d \in Docs : head[d] # None => Holds(d, head[d])

\* An entry is final: no later step removes it or alters a field of it.
LogOnlyGrows == [][log \subseteq log']_vars

=============================================================================
