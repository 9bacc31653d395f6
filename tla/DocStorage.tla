----------------------------- MODULE DocStorage -----------------------------
(***************************************************************************)
(* Version storage of the backend: persistDocumentVersion of               *)
(* services/doc-storage.js with its three remote calls (a blob PUT to the  *)
(* DFS bridge, DocVersion.create, Document.updateOne), the two REST routes *)
(* that call it (POST /docs/:id/save and /restore) and the route that      *)
(* follows the pointers back (GET /docs/:id).  The flush of the            *)
(* collaboration rooms, its third caller, is in Collab.                    *)
(*                                                                         *)
(* Each awaited call is one action, because other requests run between two *)
(* awaits of the same request.  A call whose caller stops waiting (error,  *)
(* connection lost, process killed) may still take effect afterwards.      *)
(*                                                                         *)
(* A document's content is a set of Yjs updates: merging is union, as Yjs  *)
(* guarantees, and a payload is the set of updates it encodes.             *)
(***************************************************************************)
EXTENDS Naturals

CONSTANTS
  Docs,       \* document ids
  Users,      \* user ids
  Updates,    \* Yjs updates
  VersionIds, \* results of randomUUID, each used for one version
  Jobs,       \* calls of persistDocumentVersion that can be in progress
  Readers,    \* GET /docs/:id requests that can be in progress
  None        \* null

ASSUME NoneIsNoVersion == None \notin VersionIds

VARIABLES
  blobs,      \* the bridge's files, by the version id in their dfsKey
  versions,   \* the doc_versions collection
  latest,     \* latestVersionId of each document
  jobs,       \* the calls of persistDocumentVersion in progress
  reads,      \* the GET /docs/:id requests in progress
  clock       \* the backend's clock, as createdAt timestamps see it

vars == <<blobs, versions, latest, jobs, reads, clock>>

Payloads == SUBSET Updates
MaybeVersion == VersionIds \cup {None}

\* A file that was never opened, that os.Create emptied and io.Copy has not
\* filled, or that holds its whole body.
Blob == [state : {"absent", "torn", "whole"}, data : Payloads]
AbsentBlob == [state |-> "absent", data |-> {}]
TornBlob == [state |-> "torn", data |-> {}]

\* A row of doc_versions.  The checksum is a function of the payload alone,
\* so the payload stands for it.
DocVersion == [versionId : VersionIds, docId : Docs,
               parentVersionId : MaybeVersion, authorId : Users,
               checksum : Payloads, createdAt : Nat]

\* "find" and "fetch" precede the call in a restore; the others are the
\* points where persistDocumentVersion waits; "done" has its result and has
\* not yet been resumed.  live: somebody still waits for the pending call.
Stages == {"idle", "find", "fetch", "put", "writing", "create", "publish",
           "done"}
Job == [pc : Stages, live : BOOLEAN, docId : Docs \cup {None},
        authorId : Users \cup {None}, payload : Payloads,
        parentVersionId : MaybeVersion, versionId : MaybeVersion]
IdleJob == [pc |-> "idle", live |-> TRUE, docId |-> None, authorId |-> None,
            payload |-> {}, parentVersionId |-> None, versionId |-> None]

Read == [pc : {"idle", "row", "blob", "served"}, docId : Docs \cup {None},
         versionId : MaybeVersion, served : {"nothing", "torn", "whole"}]
IdleRead == [pc |-> "idle", docId |-> None, versionId |-> None,
             served |-> "nothing"]

TypeOK ==
  /\ blobs \in [VersionIds -> Blob]
  /\ versions \subseteq DocVersion
  /\ latest \in [Docs -> MaybeVersion]
  /\ jobs \in [Jobs -> Job]
  /\ reads \in [Readers -> Read]
  /\ clock \in Nat

Init ==
  /\ blobs = [v \in VersionIds |-> AbsentBlob]
  /\ versions = {}
  /\ latest = [d \in Docs |-> None]
  /\ jobs = [j \in Jobs |-> IdleJob]
  /\ reads = [r \in Readers |-> IdleRead]
  /\ clock = 0

\* DocVersion.findOne({ docId, versionId }) finds a row.
HasRow(d, v) == \E r \in versions : r.docId = d /\ r.versionId = v

\* The job has called randomUUID and not yet returned its version.
Pending(j) == jobs[j].pc \in {"put", "writing", "create", "publish", "done"}

\* Mutant: ids that differ only from those already stored, as ones made
\* from a timestamp would, not from those other saves are about to store.
FreshInStore(v) == blobs[v].state = "absent"

\* randomUUID never returns an id that is in use.
Fresh(v) ==
  /\ blobs[v].state = "absent"
  /\ \A r \in versions : r.versionId # v
  /\ \A j \in Jobs : jobs[j].versionId # v

-----------------------------------------------------------------------------
(* persistDocumentVersion({ docId, authorId, payload, parentVersionId })   *)

\* The call up to its first await, made by a job that is at stage pc.
Persist(j, pc, d, a, payload, parent) ==
  /\ jobs[j].pc = pc
  /\ \E v \in VersionIds :
       /\ Fresh(v)
       /\ jobs' = [jobs EXCEPT ![j] =
            [pc |-> "put", live |-> TRUE, docId |-> d, authorId |-> a,
             payload |-> payload, parentVersionId |-> parent,
             versionId |-> v]]
  /\ UNCHANGED <<blobs, versions, latest, reads, clock>>

\* The pending call of job j took effect: its caller goes on, if it waits.
Answer(j, pc) ==
  jobs' = [jobs EXCEPT ![j] = IF @.live THEN [@ EXCEPT !.pc = pc] ELSE IdleJob]

\* The bridge opens the file: from here to the end of the copy it is short.
BridgeOpens(j) ==
  /\ jobs[j].pc = "put"
  /\ blobs' = [blobs EXCEPT ![jobs[j].versionId] = TornBlob]
  /\ jobs' = [jobs EXCEPT ![j].pc = "writing"]
  /\ UNCHANGED <<versions, latest, reads, clock>>

BridgeWrites(j) ==
  /\ jobs[j].pc = "writing"
  /\ blobs' = [blobs EXCEPT ![jobs[j].versionId] =
                 [state |-> "whole", data |-> jobs[j].payload]]
  /\ Answer(j, "create")
  /\ UNCHANGED <<versions, latest, reads, clock>>

RowOf(j) ==
  [versionId |-> jobs[j].versionId, docId |-> jobs[j].docId,
   parentVersionId |-> jobs[j].parentVersionId,
   authorId |-> jobs[j].authorId, checksum |-> jobs[j].payload,
   createdAt |-> clock]

\* Mutant: the PUT to the bridge is not awaited.
CreateRowUnawaited(j) ==
  /\ jobs[j].pc \in {"writing", "create"}
  /\ versions' = versions \cup {RowOf(j)}
  /\ clock' = clock + 1
  /\ Answer(j, "publish")
  /\ UNCHANGED <<blobs, latest, reads>>

CreateRow(j) ==
  /\ jobs[j].pc = "create"
  /\ versions' = versions \cup {RowOf(j)}
  /\ clock' = clock + 1
  /\ Answer(j, "publish")
  /\ UNCHANGED <<blobs, latest, reads>>

\* Mutant: DocVersion.create is not awaited.
PublishUnawaited(j) ==
  /\ jobs[j].pc \in {"create", "publish"}
  /\ latest' = [latest EXCEPT ![jobs[j].docId] = jobs[j].versionId]
  /\ Answer(j, "done")
  /\ UNCHANGED <<blobs, versions, reads, clock>>

\* Mutant: the pointer is set to the row, not to its versionId.
PublishRow(j) ==
  /\ jobs[j].pc = "publish"
  /\ latest' = [latest EXCEPT ![jobs[j].docId] = RowOf(j)]
  /\ Answer(j, "done")
  /\ UNCHANGED <<blobs, versions, reads, clock>>

\* updateOne sets latestVersionId whatever it was.
Publish(j) ==
  /\ jobs[j].pc = "publish"
  /\ latest' = [latest EXCEPT ![jobs[j].docId] = jobs[j].versionId]
  /\ Answer(j, "done")
  /\ UNCHANGED <<blobs, versions, reads, clock>>

\* The caller is resumed with the version.
Return(j) ==
  /\ jobs[j].pc = "done"
  /\ jobs' = [jobs EXCEPT ![j] = IdleJob]
  /\ UNCHANGED <<blobs, versions, latest, reads, clock>>

-----------------------------------------------------------------------------
(* Failures.                                                               *)

\* The pending call of j rejects: an error answer, or a lost connection with
\* the request still on its way.  The reads of a restore simply fail.
GiveUp(j) ==
  /\ jobs[j].live
  /\ jobs[j].pc \in Stages \ {"idle", "done"}
  /\ jobs' = [jobs EXCEPT ![j] = IF @.pc \in {"find", "fetch"} THEN IdleJob
                                 ELSE [@ EXCEPT !.live = FALSE]]
  /\ UNCHANGED <<blobs, versions, latest, reads, clock>>

\* A call nobody waits for was lost on its way, or failed half-way.
Lost(j) ==
  /\ ~jobs[j].live
  /\ jobs' = [jobs EXCEPT ![j] = IdleJob]
  /\ UNCHANGED <<blobs, versions, latest, reads, clock>>

\* The backend process dies: nobody waits any more, requests already sent
\* may still take effect.
Crash ==
  /\ jobs' = [j \in Jobs |->
       IF jobs[j].pc \in {"idle", "find", "fetch", "done"} THEN IdleJob
       ELSE [jobs[j] EXCEPT !.live = FALSE]]
  /\ reads' = [r \in Readers |-> IdleRead]
  /\ UNCHANGED <<blobs, versions, latest, clock>>

-----------------------------------------------------------------------------
(* The REST routes.                                                        *)

\* POST /docs/:id/save: an editor's page sends a payload of its own and, as
\* parent, null or a version it was told about.  (A caller with a result may
\* call again before anything else runs: the flush goes on to its next room.)
Save(j, d, a, payload, parent) ==
  /\ parent = None \/ HasRow(d, parent)
  /\ \E pc \in {"idle", "done"} : Persist(j, pc, d, a, payload, parent)

\* POST /docs/:id/restore: find the row, read its blob, persist it again as
\* a child of the version restored.
Restore(j, d, a, v) ==
  /\ jobs[j].pc = "idle"
  /\ jobs' = [jobs EXCEPT ![j] =
       [IdleJob EXCEPT !.pc = "find", !.docId = d, !.authorId = a,
                       !.parentVersionId = v]]
  /\ UNCHANGED <<blobs, versions, latest, reads, clock>>

\* Mutant: the answer of findOne is not tested.
RestoreFindUnchecked(j) ==
  /\ jobs[j].pc = "find"
  /\ jobs' = [jobs EXCEPT ![j].pc = "fetch"]
  /\ UNCHANGED <<blobs, versions, latest, reads, clock>>

RestoreFind(j) ==
  /\ jobs[j].pc = "find"
  /\ jobs' = [jobs EXCEPT ![j] =
       IF HasRow(@.docId, @.parentVersionId) THEN [@ EXCEPT !.pc = "fetch"]
       ELSE IdleJob]
  /\ UNCHANGED <<blobs, versions, latest, reads, clock>>

\* Mutant: the blob of the document's head is fetched, not the row's.
RestoreFetchHead(j) ==
  LET job == jobs[j]
      v == latest[job.docId]
  IN /\ job.pc = "fetch"
     /\ v # None /\ blobs[v].state # "absent"
     /\ Persist(j, "fetch", job.docId, job.authorId, blobs[v].data,
                job.parentVersionId)

RestoreFetch(j) ==
  LET job == jobs[j]
      v == job.parentVersionId
  IN /\ job.pc = "fetch"
     /\ blobs[v].state # "absent"
     /\ Persist(j, "fetch", job.docId, job.authorId, blobs[v].data, v)

\* GET /docs/:id: read the pointer, then the row, then the blob.
GetDoc(r, d) ==
  /\ reads[r].pc = "idle"
  /\ reads' = [reads EXCEPT ![r] =
       [pc |-> IF latest[d] = None THEN "served" ELSE "row", docId |-> d,
        versionId |-> latest[d], served |-> "nothing"]]
  /\ UNCHANGED <<blobs, versions, latest, jobs, clock>>

GetRow(r) ==
  /\ reads[r].pc = "row"
  /\ reads' = [reads EXCEPT ![r].pc =
       IF HasRow(reads[r].docId, reads[r].versionId) THEN "blob" ELSE "served"]
  /\ UNCHANGED <<blobs, versions, latest, jobs, clock>>

GetBlob(r) ==
  LET blob == blobs[reads[r].versionId]
  IN /\ reads[r].pc = "blob"
     /\ reads' = [reads EXCEPT ![r] = [@ EXCEPT !.pc = "served",
          !.served = IF blob.state = "absent" THEN "nothing" ELSE blob.state]]
     /\ UNCHANGED <<blobs, versions, latest, jobs, clock>>

\* The answer is sent, or the request failed at one of its awaits.
GetEnds(r) ==
  /\ reads[r].pc # "idle"
  /\ reads' = [reads EXCEPT ![r] = IdleRead]
  /\ UNCHANGED <<blobs, versions, latest, jobs, clock>>

-----------------------------------------------------------------------------
Steps(j) ==
  \/ BridgeOpens(j) \/ BridgeWrites(j) \/ CreateRow(j) \/ Publish(j)
  \/ Return(j)
  \/ GiveUp(j) \/ Lost(j)
  \/ RestoreFind(j) \/ RestoreFetch(j)

Next ==
  \/ \E j \in Jobs : Steps(j)
  \/ \E j \in Jobs, d \in Docs, a \in Users :
       \/ \E payload \in Payloads, parent \in MaybeVersion :
            Save(j, d, a, payload, parent)
       \/ \E v \in VersionIds : Restore(j, d, a, v)
  \/ \E r \in Readers :
       \/ \E d \in Docs : GetDoc(r, d)
       \/ GetRow(r) \/ GetBlob(r) \/ GetEnds(r)
  \/ Crash

Spec == Init /\ [][Next]_vars

-----------------------------------------------------------------------------
(* Properties.                                                             *)

\* A row of doc_versions is only ever visible together with the complete
\* blob whose checksum it carries (doc-storage.js awaits the PUT first).
RowsHaveTheirBlob ==
  \A r \in versions :
    blobs[r.versionId] = [state |-> "whole", data |-> r.checksum]

\* latestVersionId never dangles: the row it names exists, under the same
\* document, so the null fallbacks of GET /docs/:id and loadRoomState are
\* never taken for a document that has a version.
HeadHasRow == \A d \in Docs : latest[d] # None => HasRow(d, latest[d])

\* The parent recorded for a version is an older version of the same
\* document: the history the parent links form has no cycle and no hole.
ParentPrecedesChild ==
  \A r \in versions : r.parentVersionId # None =>
    \E p \in versions : /\ p.versionId = r.parentVersionId
                        /\ p.docId = r.docId
                        /\ p.createdAt < r.createdAt

\* A GET that saw a version id ends with that version's whole payload,
\* although its three reads are separate and saves run between them.
ReadsAreServed ==
  \A r \in Readers : reads[r].pc = "served" /\ reads[r].versionId # None =>
    reads[r].served = "whole"

\* What a restore persists is what the restored version recorded, although
\* the row and the blob are read by separate awaits.
RestoreCopies ==
  [][\A j \in Jobs : jobs[j].pc = "fetch" /\ jobs'[j].pc = "put" =>
       \E r \in versions : /\ r.versionId = jobs[j].parentVersionId
                           /\ r.checksum = jobs'[j].payload]_vars

\* The refinement mapping: an entry's content is what its blob holds now.
Log == INSTANCE VersionLog WITH
  Contents <- Payloads,
  head <- latest,
  log <- {[id |-> r.versionId, doc |-> r.docId, parent |-> r.parentVersionId,
           content |-> blobs[r.versionId].data] : r \in versions}

\* The three-call protocol implements the append-only version log: rows and
\* the blobs under them never change, and the head stays within the log.
ImplementsVersionLog == Log!Spec
=============================================================================
