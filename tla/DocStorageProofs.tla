-------------------------- MODULE DocStorageProofs --------------------------
(***************************************************************************)
(* Proofs about DocStorage, for every value of its constants.              *)
(***************************************************************************)
EXTENDS DocStorage, TLAPS

\* Two jobs that are past randomUUID write different versions.
OwnVersion ==
  \A i, j \in Jobs : i # j /\ Pending(i) /\ Pending(j) =>
    jobs[i].versionId # jobs[j].versionId

\* What a job has done so far, as its stage tells.
JobOK(j) ==
  LET job == jobs[j]
      v == job.versionId
      unrecorded == \A r \in versions : r.versionId # v
  IN /\ job.pc # "idle" => job.docId \in Docs /\ job.authorId \in Users
     /\ Pending(j) => /\ v \in VersionIds
                      /\ job.parentVersionId # None
                           => HasRow(job.docId, job.parentVersionId)
     /\ ~Pending(j) => v = None
     /\ job.pc = "fetch" => HasRow(job.docId, job.parentVersionId)
     /\ job.pc = "put" => blobs[v].state = "absent" /\ unrecorded
     /\ job.pc = "writing" => blobs[v] = TornBlob /\ unrecorded
     /\ job.pc = "create" =>
          blobs[v] = [state |-> "whole", data |-> job.payload] /\ unrecorded
     /\ job.pc \in {"publish", "done"} => HasRow(job.docId, v)

\* Row ids are unique and every row is older than the clock.
RowsOK ==
  /\ \A r, q \in versions : r.versionId = q.versionId => r = q
  /\ \A r \in versions : r.createdAt < clock

\* A reader looks for the row of a version its document once pointed at.
ReadOK(r) ==
  /\ reads[r].pc \in {"row", "blob"} =>
       HasRow(reads[r].docId, reads[r].versionId)
  /\ reads[r].pc = "served" /\ reads[r].versionId # None =>
       reads[r].served = "whole"

IInv ==
  /\ TypeOK
  /\ OwnVersion
  /\ \A j \in Jobs : JobOK(j)
  /\ RowsOK
  /\ RowsHaveTheirBlob
  /\ HeadHasRow
  /\ ParentPrecedesChild
  /\ \A r \in Readers : ReadOK(r)

-----------------------------------------------------------------------------
(* Each action preserves IInv.                                             *)

\* The backend starts with nothing stored and nothing in progress.
LEMMA InitIInv == Init => IInv
BY DEF Init, IInv, TypeOK, OwnVersion, JobOK, RowsOK, RowsHaveTheirBlob,
   HeadHasRow, ParentPrecedesChild, ReadOK, Blob, AbsentBlob, Job, IdleJob,
   Read, IdleRead, Stages, MaybeVersion, Payloads, Pending, HasRow

\* A job that a step leaves alone stays correct if the step leaves its blob
\* alone and records no row under its version.
LEMMA OtherJob ==
  ASSUME NEW i \in Jobs, JobOK(i),
         jobs'[i] = jobs[i],
         versions \subseteq versions',
         Pending(i) => /\ blobs'[jobs[i].versionId] = blobs[jobs[i].versionId]
                       /\ \A r \in versions' \ versions :
                            r.versionId # jobs[i].versionId
  PROVE  JobOK(i)'
BY DEF JobOK, Pending, HasRow

\* Steps that change nothing but the state of one job.
LEMMA OneJob ==
  ASSUME IInv, NEW j \in Jobs,
         UNCHANGED <<blobs, versions, latest, reads, clock>>,
         jobs' \in [Jobs -> Job],
         \A i \in Jobs \ {j} : jobs'[i] = jobs[i],
         JobOK(j)',
         Pending(j)' => \A i \in Jobs \ {j} :
           Pending(i) => jobs'[j].versionId # jobs[i].versionId
  PROVE  IInv'
<1>1. TypeOK'
  BY DEF IInv, TypeOK
<1>2. OwnVersion'
  BY DEF IInv, OwnVersion, Pending
<1>3. \A i \in Jobs : JobOK(i)'
  <2>1. ASSUME NEW i \in Jobs \ {j} PROVE JobOK(i)'
    BY <2>1, OtherJob DEF IInv
  <2> QED BY <2>1
<1>4. RowsOK' /\ RowsHaveTheirBlob' /\ HeadHasRow' /\ ParentPrecedesChild'
  BY DEF IInv, RowsOK, RowsHaveTheirBlob, HeadHasRow, ParentPrecedesChild,
     HasRow
<1>5. \A r \in Readers : ReadOK(r)'
  BY DEF IInv, ReadOK, HasRow
<1> QED BY <1>1, <1>2, <1>3, <1>4, <1>5 DEF IInv

\* A blob that changes, changes under a version that no row names yet and
\* that belongs to job j.
LEMMA OneBlob ==
  ASSUME IInv, NEW j \in Jobs, NEW b \in Blob,
         jobs[j].pc \in {"put", "writing"},
         UNCHANGED <<versions, latest, reads, clock>>,
         blobs' = [blobs EXCEPT ![jobs[j].versionId] = b],
         jobs' \in [Jobs -> Job],
         \A i \in Jobs \ {j} : jobs'[i] = jobs[i],
         Pending(j)' => jobs'[j].versionId = jobs[j].versionId,
         JobOK(j)'
  PROVE  IInv'
<1> DEFINE v == jobs[j].versionId
<1>1. v \in VersionIds /\ Pending(j) /\ \A r \in versions : r.versionId # v
  BY DEF IInv, JobOK, Pending
<1>2. TypeOK'
  BY <1>1 DEF IInv, TypeOK
<1>3. OwnVersion'
  BY <1>1 DEF IInv, OwnVersion, Pending
<1>4. \A w \in VersionIds \ {v} : blobs'[w] = blobs[w]
  BY <1>1 DEF IInv, TypeOK
<1>5. \A i \in Jobs : JobOK(i)'
  <2>1. ASSUME NEW i \in Jobs \ {j} PROVE JobOK(i)'
    <3>1. Pending(i) => jobs[i].versionId \in VersionIds \ {v}
      BY <1>1 DEF IInv, OwnVersion, JobOK
    <3> QED BY <3>1, <1>4, OtherJob DEF IInv
  <2> QED BY <2>1
<1>6. RowsHaveTheirBlob'
  BY <1>1, <1>4 DEF IInv, RowsHaveTheirBlob, TypeOK, DocVersion
<1>7. RowsOK' /\ HeadHasRow' /\ ParentPrecedesChild'
  BY DEF IInv, RowsOK, HeadHasRow, ParentPrecedesChild, HasRow
<1>8. \A r \in Readers : ReadOK(r)'
  BY DEF IInv, ReadOK, HasRow
<1> QED BY <1>2, <1>3, <1>5, <1>6, <1>7, <1>8 DEF IInv

\* What Answer does to the jobs: it moves j on, or frees it.
LEMMA AnswerMoves ==
  ASSUME IInv, NEW j \in Jobs, NEW pc \in Stages, Answer(j, pc)
  PROVE  /\ jobs' \in [Jobs -> Job]
         /\ \A i \in Jobs \ {j} : jobs'[i] = jobs[i]
         /\ \/ jobs'[j] = IdleJob
            \/ /\ jobs'[j].pc = pc
               /\ jobs'[j].docId = jobs[j].docId
               /\ jobs'[j].authorId = jobs[j].authorId
               /\ jobs'[j].payload = jobs[j].payload
               /\ jobs'[j].parentVersionId = jobs[j].parentVersionId
               /\ jobs'[j].versionId = jobs[j].versionId
BY DEF Answer, IInv, TypeOK, Job, IdleJob, Stages, MaybeVersion, Payloads

\* A free job is correct whatever the stored state is.
LEMMA IdleJobOK ==
  ASSUME NEW j \in Jobs, jobs'[j] = IdleJob
  PROVE  JobOK(j)' /\ ~Pending(j)'
BY DEF JobOK, Pending, IdleJob

\* os.Create of the bridge: the file is torn, and no row names it yet.
LEMMA BridgeOpensIInv ==
  ASSUME IInv, NEW j \in Jobs, BridgeOpens(j) PROVE IInv'
<1>1. /\ jobs' \in [Jobs -> Job]
      /\ \A i \in Jobs \ {j} : jobs'[i] = jobs[i]
      /\ jobs'[j].pc = "writing"
      /\ jobs'[j].docId = jobs[j].docId
      /\ jobs'[j].authorId = jobs[j].authorId
      /\ jobs'[j].parentVersionId = jobs[j].parentVersionId
      /\ jobs'[j].versionId = jobs[j].versionId
  BY DEF BridgeOpens, IInv, TypeOK, Job, Stages
<1>2. jobs[j].versionId \in VersionIds
  BY DEF BridgeOpens, IInv, JobOK, Pending
<1>3. blobs'[jobs[j].versionId] = TornBlob
  BY <1>2 DEF BridgeOpens, IInv, TypeOK
<1>4. JobOK(j)'
  <2>1. JobOK(j) /\ jobs[j].pc = "put" /\ versions' = versions
    BY DEF IInv, BridgeOpens
  <2> QED BY <2>1, <1>1, <1>2, <1>3 DEF JobOK, Pending, HasRow
<1>5. TornBlob \in Blob
  BY DEF TornBlob, Blob, Payloads
<1> QED BY <1>1, <1>4, <1>5, OneBlob DEF BridgeOpens

\* The end of io.Copy: the file is whole before the row can be created.
LEMMA BridgeWritesIInv ==
  ASSUME IInv, NEW j \in Jobs, BridgeWrites(j) PROVE IInv'
<1> DEFINE b == [state |-> "whole", data |-> jobs[j].payload]
<1>1. b \in Blob
  BY DEF Blob, IInv, TypeOK, Job
<1>2. jobs[j].versionId \in VersionIds
  BY DEF BridgeWrites, IInv, JobOK, Pending
<1>3. blobs'[jobs[j].versionId] = b
  BY <1>2 DEF BridgeWrites, IInv, TypeOK
<1>4. Answer(j, "create") /\ "create" \in Stages
  BY DEF BridgeWrites, Stages
<1>5. JobOK(j)' /\ (Pending(j)' => jobs'[j].versionId = jobs[j].versionId)
  <2>1. CASE jobs'[j] = IdleJob
    BY <2>1, IdleJobOK
  <2>2. CASE jobs'[j].pc = "create" /\ jobs'[j] # IdleJob
    BY <2>2, <1>2, <1>3, <1>4, AnswerMoves
       DEF JobOK, Pending, HasRow, BridgeWrites, IInv
  <2> QED BY <1>4, <2>1, <2>2, AnswerMoves
<1> HIDE DEF b
<1>6. /\ blobs' = [blobs EXCEPT ![jobs[j].versionId] = b]
      /\ jobs[j].pc = "writing"
      /\ UNCHANGED <<versions, latest, reads, clock>>
  BY DEF b, BridgeWrites
<1>7. jobs' \in [Jobs -> Job] /\ \A i \in Jobs \ {j} : jobs'[i] = jobs[i]
  BY <1>4, AnswerMoves
<1> QED BY <1>1, <1>5, <1>6, <1>7, OneBlob

\* The new row is older than no other and the only one of its version.
LEMMA CreateRowIInv ==
  ASSUME IInv, NEW j \in Jobs, CreateRow(j) PROVE IInv'
<1> DEFINE row == RowOf(j)
<1>1. /\ Pending(j)
      /\ jobs[j].versionId \in VersionIds
      /\ blobs[jobs[j].versionId] =
           [state |-> "whole", data |-> jobs[j].payload]
      /\ \A r \in versions : r.versionId # jobs[j].versionId
      /\ jobs[j].parentVersionId # None =>
           HasRow(jobs[j].docId, jobs[j].parentVersionId)
  BY DEF CreateRow, Pending, IInv, JobOK
<1>2. row \in DocVersion
  BY <1>1 DEF RowOf, DocVersion, IInv, TypeOK, Job, JobOK, CreateRow
<1>3. /\ row.versionId = jobs[j].versionId
      /\ row.docId = jobs[j].docId
      /\ row.parentVersionId = jobs[j].parentVersionId
      /\ row.checksum = jobs[j].payload
      /\ row.createdAt = clock
  BY DEF RowOf
<1>4. /\ versions' = versions \cup {row}
      /\ clock' = clock + 1
      /\ UNCHANGED <<blobs, latest, reads>>
      /\ Answer(j, "publish")
      /\ "publish" \in Stages
  BY DEF CreateRow, Stages
<1> HIDE DEF row
<1>5. TypeOK'
  BY <1>2, <1>4, AnswerMoves DEF IInv, TypeOK
<1>6. OwnVersion'
  <2>1. \A i \in Jobs : Pending(i)' =>
          Pending(i) /\ jobs'[i].versionId = jobs[i].versionId
    BY <1>1, <1>4, AnswerMoves, IdleJobOK DEF Pending
  <2> QED BY <2>1 DEF IInv, OwnVersion
<1>7. \A i \in Jobs : JobOK(i)'
  <2>1. ASSUME NEW i \in Jobs \ {j} PROVE JobOK(i)'
    <3>1. Pending(i) => jobs[i].versionId # jobs[j].versionId
      BY <1>1 DEF IInv, OwnVersion
    <3>2. jobs'[i] = jobs[i] /\ JobOK(i)
      BY <1>4, AnswerMoves DEF IInv
    <3> QED BY <1>3, <1>4, <3>1, <3>2, OtherJob
  <2>2. ASSUME jobs'[j] = IdleJob PROVE JobOK(j)'
    BY <2>2, IdleJobOK
  <2>3. ASSUME jobs'[j] # IdleJob PROVE JobOK(j)'
    <3>1. /\ jobs'[j].pc = "publish"
          /\ jobs'[j].docId = jobs[j].docId
          /\ jobs'[j].authorId = jobs[j].authorId
          /\ jobs'[j].parentVersionId = jobs[j].parentVersionId
          /\ jobs'[j].versionId = jobs[j].versionId
      BY <2>3, <1>4, AnswerMoves
    <3>2. jobs[j].docId \in Docs /\ jobs[j].authorId \in Users
      BY DEF IInv, JobOK, CreateRow
    <3> QED BY <1>1, <1>3, <1>4, <3>1, <3>2 DEF JobOK, Pending, HasRow
  <2> QED BY <2>1, <2>2, <2>3
<1>8. RowsOK'
  BY <1>1, <1>2, <1>3, <1>4 DEF IInv, RowsOK, TypeOK, DocVersion
<1>9. RowsHaveTheirBlob'
  BY <1>1, <1>3, <1>4 DEF IInv, RowsHaveTheirBlob
<1>10. HeadHasRow'
  BY <1>4 DEF IInv, HeadHasRow, HasRow
<1>11. ParentPrecedesChild'
  <2>1. row.parentVersionId # None =>
          \E p \in versions : /\ p.versionId = row.parentVersionId
                              /\ p.docId = row.docId
                              /\ p.createdAt < row.createdAt
    BY <1>1, <1>3 DEF HasRow, IInv, RowsOK
  <2> QED BY <2>1, <1>4 DEF IInv, ParentPrecedesChild
<1>12. \A r \in Readers : ReadOK(r)'
  BY <1>4 DEF IInv, ReadOK, HasRow
<1> QED BY <1>5, <1>6, <1>7, <1>8, <1>9, <1>10, <1>11, <1>12 DEF IInv

\* updateOne names a row that DocVersion.create has made.
LEMMA PublishIInv ==
  ASSUME IInv, NEW j \in Jobs, Publish(j) PROVE IInv'
<1>1. /\ jobs[j].versionId \in VersionIds
      /\ jobs[j].docId \in Docs
      /\ HasRow(jobs[j].docId, jobs[j].versionId)
  BY DEF Publish, Pending, IInv, JobOK
<1>2. /\ latest' = [latest EXCEPT ![jobs[j].docId] = jobs[j].versionId]
      /\ UNCHANGED <<blobs, versions, reads, clock>>
      /\ Answer(j, "done")
      /\ "done" \in Stages
      /\ Pending(j)
  BY DEF Publish, Stages, Pending
<1>3. TypeOK'
  BY <1>1, <1>2, AnswerMoves DEF IInv, TypeOK, MaybeVersion
<1>4. OwnVersion'
  <2>1. \A i \in Jobs : Pending(i)' =>
          Pending(i) /\ jobs'[i].versionId = jobs[i].versionId
    BY <1>2, AnswerMoves, IdleJobOK DEF Pending
  <2> QED BY <2>1 DEF IInv, OwnVersion
<1>5. \A i \in Jobs : JobOK(i)'
  <2>1. ASSUME NEW i \in Jobs \ {j} PROVE JobOK(i)'
    BY <1>2, AnswerMoves, OtherJob DEF IInv
  <2>2. ASSUME jobs'[j] = IdleJob PROVE JobOK(j)'
    BY <2>2, IdleJobOK
  <2>3. ASSUME jobs'[j] # IdleJob PROVE JobOK(j)'
    <3>1. JobOK(j)
      BY DEF IInv
    <3> QED BY <3>1, <2>3, <1>1, <1>2, AnswerMoves DEF JobOK, Pending, HasRow
  <2> QED BY <2>1, <2>2, <2>3
<1>6. RowsOK' /\ RowsHaveTheirBlob' /\ ParentPrecedesChild'
  BY <1>2 DEF IInv, RowsOK, RowsHaveTheirBlob, ParentPrecedesChild
<1>7. HeadHasRow'
  BY <1>1, <1>2 DEF IInv, TypeOK, HeadHasRow, HasRow
<1>8. \A r \in Readers : ReadOK(r)'
  BY <1>2 DEF IInv, ReadOK, HasRow
<1> QED BY <1>3, <1>4, <1>5, <1>6, <1>7, <1>8 DEF IInv

-----------------------------------------------------------------------------
(* The actions that change nothing but one job.                            *)

\* A call that reaches its first await, from any stage.
LEMMA PersistIInv ==
  ASSUME IInv, NEW j \in Jobs, NEW pc \in Stages,
         NEW d \in Docs, NEW a \in Users, NEW payload \in Payloads,
         NEW parent \in MaybeVersion,
         parent # None => HasRow(d, parent),
         Persist(j, pc, d, a, payload, parent)
  PROVE  IInv'
<1>1. PICK v \in VersionIds :
        /\ Fresh(v)
        /\ jobs' = [jobs EXCEPT ![j] =
             [pc |-> "put", live |-> TRUE, docId |-> d, authorId |-> a,
              payload |-> payload, parentVersionId |-> parent,
              versionId |-> v]]
  BY DEF Persist
<1>2. /\ jobs' \in [Jobs -> Job]
      /\ \A i \in Jobs \ {j} : jobs'[i] = jobs[i]
      /\ jobs'[j].pc = "put"
      /\ jobs'[j].docId = d
      /\ jobs'[j].authorId = a
      /\ jobs'[j].parentVersionId = parent
      /\ jobs'[j].versionId = v
  BY <1>1 DEF IInv, TypeOK, Job, Stages, MaybeVersion
<1>3. UNCHANGED <<blobs, versions, latest, reads, clock>>
  BY DEF Persist
<1>4. /\ blobs[v].state = "absent"
      /\ \A r \in versions : r.versionId # v
      /\ \A i \in Jobs : jobs[i].versionId # v
  BY <1>1 DEF Fresh
<1>5. JobOK(j)'
  BY <1>2, <1>3, <1>4 DEF JobOK, Pending, HasRow
<1> QED BY <1>2, <1>3, <1>4, <1>5, OneJob

\* POST /save: the parent is a version the page was told about.
LEMMA SaveIInv ==
  ASSUME IInv, NEW j \in Jobs, NEW d \in Docs, NEW a \in Users,
         NEW payload \in Payloads, NEW parent \in MaybeVersion,
         Save(j, d, a, payload, parent)
  PROVE  IInv'
<1>1. PICK pc \in {"idle", "done"} : Persist(j, pc, d, a, payload, parent)
  BY DEF Save
<1>2. pc \in Stages /\ (parent # None => HasRow(d, parent))
  BY DEF Save, Stages
<1> QED BY <1>1, <1>2, PersistIInv

\* The restore persists with the parent whose row it has found.
LEMMA RestoreFetchIInv ==
  ASSUME IInv, NEW j \in Jobs, RestoreFetch(j) PROVE IInv'
<1> DEFINE d == jobs[j].docId
           a == jobs[j].authorId
           v == jobs[j].parentVersionId
<1>1. d \in Docs /\ a \in Users /\ HasRow(d, v)
  BY DEF RestoreFetch, IInv, JobOK
<1>2. v \in MaybeVersion /\ blobs[v].data \in Payloads
  BY <1>1 DEF HasRow, IInv, TypeOK, DocVersion, Blob, MaybeVersion
<1>3. Persist(j, "fetch", d, a, blobs[v].data, v) /\ "fetch" \in Stages
  BY DEF RestoreFetch, Stages
<1> QED BY <1>1, <1>2, <1>3, PersistIInv

\* POST /restore reaches its first await: nothing is promised yet.
LEMMA RestoreIInv ==
  ASSUME IInv, NEW j \in Jobs, NEW d \in Docs, NEW a \in Users,
         NEW v \in VersionIds, Restore(j, d, a, v)
  PROVE  IInv'
<1>1. /\ jobs' \in [Jobs -> Job]
      /\ \A i \in Jobs \ {j} : jobs'[i] = jobs[i]
      /\ UNCHANGED <<blobs, versions, latest, reads, clock>>
      /\ jobs'[j].pc = "find"
      /\ jobs'[j].docId = d
      /\ jobs'[j].authorId = a
      /\ jobs'[j].versionId = None
  BY DEF Restore, IInv, TypeOK, Job, IdleJob, Stages, MaybeVersion, Payloads
<1>2. JobOK(j)' /\ ~Pending(j)'
  BY <1>1 DEF JobOK, Pending
<1> QED BY <1>1, <1>2, OneJob

\* The restore goes on only with a row of its own document.
LEMMA RestoreFindIInv ==
  ASSUME IInv, NEW j \in Jobs, RestoreFind(j) PROVE IInv'
<1>1. /\ jobs' \in [Jobs -> Job]
      /\ \A i \in Jobs \ {j} : jobs'[i] = jobs[i]
      /\ UNCHANGED <<blobs, versions, latest, reads, clock>>
      /\ \/ jobs'[j] = IdleJob
         \/ /\ HasRow(jobs[j].docId, jobs[j].parentVersionId)
            /\ jobs'[j] = [jobs[j] EXCEPT !.pc = "fetch"]
  BY DEF RestoreFind, IInv, TypeOK, Job, IdleJob, Stages, MaybeVersion,
     Payloads
<1>2. JobOK(j) /\ jobs[j].pc = "find" /\ jobs[j] \in Job
  BY DEF RestoreFind, IInv, TypeOK
<1>3. JobOK(j)' /\ ~Pending(j)'
  <2>1. CASE jobs'[j] = IdleJob
    BY <2>1, IdleJobOK
  <2>2. CASE jobs'[j] = [jobs[j] EXCEPT !.pc = "fetch"] /\ jobs'[j] # IdleJob
    <3>1. /\ jobs'[j].pc = "fetch"
          /\ jobs'[j].docId = jobs[j].docId
          /\ jobs'[j].authorId = jobs[j].authorId
          /\ jobs'[j].parentVersionId = jobs[j].parentVersionId
          /\ jobs'[j].versionId = jobs[j].versionId
      BY <1>2, <2>2 DEF Job
    <3> QED BY <1>1, <1>2, <2>2, <3>1 DEF JobOK, Pending, HasRow
  <2> QED BY <1>1, <2>1, <2>2
<1> QED BY <1>1, <1>3, OneJob

\* A job that is freed.
LEMMA FreedIInv ==
  ASSUME IInv, NEW j \in Jobs,
         jobs' = [jobs EXCEPT ![j] = IdleJob],
         UNCHANGED <<blobs, versions, latest, reads, clock>>
  PROVE  IInv'
<1>1. /\ jobs' \in [Jobs -> Job]
      /\ \A i \in Jobs \ {j} : jobs'[i] = jobs[i]
      /\ jobs'[j] = IdleJob
  BY DEF IInv, TypeOK, Job, IdleJob, Stages, MaybeVersion, Payloads
<1> QED BY <1>1, IdleJobOK, OneJob

\* A job that differs only in having nobody waiting for it.
LEMMA OrphanOK ==
  ASSUME IInv, NEW j \in Jobs, jobs' \in [Jobs -> Job],
         jobs'[j] = [jobs[j] EXCEPT !.live = FALSE],
         UNCHANGED <<blobs, versions>>
  PROVE  /\ JobOK(j)'
         /\ Pending(j)' => Pending(j) /\ jobs'[j].versionId = jobs[j].versionId
<1>1. JobOK(j) /\ jobs[j] \in Job
  BY DEF IInv, TypeOK
<1>2. /\ jobs'[j].pc = jobs[j].pc
      /\ jobs'[j].docId = jobs[j].docId
      /\ jobs'[j].authorId = jobs[j].authorId
      /\ jobs'[j].payload = jobs[j].payload
      /\ jobs'[j].parentVersionId = jobs[j].parentVersionId
      /\ jobs'[j].versionId = jobs[j].versionId
  BY <1>1 DEF Job
<1> QED BY <1>1, <1>2 DEF JobOK, Pending, HasRow

\* A call that rejects: what it was about to write is still accounted for.
LEMMA GiveUpIInv ==
  ASSUME IInv, NEW j \in Jobs, GiveUp(j) PROVE IInv'
<1>1. CASE jobs[j].pc \in {"find", "fetch"}
  <2>1. jobs' = [jobs EXCEPT ![j] = IdleJob]
    BY <1>1 DEF GiveUp, IInv, TypeOK
  <2> QED BY <2>1, FreedIInv DEF GiveUp
<1>2. CASE jobs[j].pc \notin {"find", "fetch"}
  <2>1. /\ jobs' \in [Jobs -> Job]
        /\ \A i \in Jobs \ {j} : jobs'[i] = jobs[i]
        /\ jobs'[j] = [jobs[j] EXCEPT !.live = FALSE]
    BY <1>2 DEF GiveUp, IInv, TypeOK, Job
  <2>2. UNCHANGED <<blobs, versions, latest, reads, clock>>
    BY DEF GiveUp
  <2>3. Pending(j)' => \A i \in Jobs \ {j} :
          Pending(i) => jobs'[j].versionId # jobs[i].versionId
    BY <2>1, <2>2, OrphanOK DEF IInv, OwnVersion
  <2> QED BY <2>1, <2>2, <2>3, OrphanOK, OneJob
<1> QED BY <1>1, <1>2

\* Every job is freed or left with nobody waiting for it.
LEMMA CrashIInv == ASSUME IInv, Crash PROVE IInv'
<1>1. /\ jobs' \in [Jobs -> Job]
      /\ reads' \in [Readers -> Read]
      /\ UNCHANGED <<blobs, versions, latest, clock>>
  <2>1. IdleJob \in Job /\ IdleRead \in Read
    BY DEF Job, IdleJob, Stages, Payloads, MaybeVersion, Read, IdleRead
  <2>2. \A i \in Jobs : [jobs[i] EXCEPT !.live = FALSE] \in Job
    BY DEF IInv, TypeOK, Job
  <2> QED BY <2>1, <2>2 DEF Crash
<1>2. ASSUME NEW i \in Jobs
      PROVE  /\ JobOK(i)'
             /\ Pending(i)' =>
                  Pending(i) /\ jobs'[i].versionId = jobs[i].versionId
  <2>1. CASE jobs'[i] = IdleJob
    BY <2>1, IdleJobOK
  <2>2. CASE jobs'[i] = [jobs[i] EXCEPT !.live = FALSE]
    BY <1>1, <2>2, OrphanOK
  <2> QED BY <2>1, <2>2 DEF Crash
<1>3. TypeOK'
  BY <1>1 DEF IInv, TypeOK
<1>4. OwnVersion'
  BY <1>2 DEF IInv, OwnVersion
<1>5. RowsOK' /\ RowsHaveTheirBlob' /\ HeadHasRow' /\ ParentPrecedesChild'
  BY <1>1 DEF IInv, RowsOK, RowsHaveTheirBlob, HeadHasRow,
     ParentPrecedesChild, HasRow
<1>6. \A r \in Readers : ReadOK(r)'
  BY DEF Crash, ReadOK, IdleRead
<1> QED BY <1>2, <1>3, <1>4, <1>5, <1>6 DEF IInv

\* Steps of one GET request.
LEMMA ReaderIInv ==
  ASSUME IInv, NEW r \in Readers,
         UNCHANGED <<blobs, versions, latest, jobs, clock>>,
         reads' \in [Readers -> Read],
         \A q \in Readers \ {r} : reads'[q] = reads[q],
         ReadOK(r)'
  PROVE  IInv'
<1>1. TypeOK' /\ OwnVersion'
  BY DEF IInv, TypeOK, OwnVersion, Pending
<1>2. \A i \in Jobs : JobOK(i)'
  BY OtherJob DEF IInv
<1>3. RowsOK' /\ RowsHaveTheirBlob' /\ HeadHasRow' /\ ParentPrecedesChild'
  BY DEF IInv, RowsOK, RowsHaveTheirBlob, HeadHasRow, ParentPrecedesChild,
     HasRow
<1>4. \A q \in Readers : ReadOK(q)'
  BY DEF IInv, ReadOK, HasRow
<1> QED BY <1>1, <1>2, <1>3, <1>4 DEF IInv

\* GET /docs/:id takes the pointer, which never dangles.
LEMMA GetDocIInv ==
  ASSUME IInv, NEW r \in Readers, NEW d \in Docs, GetDoc(r, d) PROVE IInv'
<1>1. /\ reads' \in [Readers -> Read]
      /\ \A q \in Readers \ {r} : reads'[q] = reads[q]
  BY DEF GetDoc, IInv, TypeOK, Read
<1>2. ReadOK(r)'
  BY DEF GetDoc, IInv, TypeOK, ReadOK, HeadHasRow, HasRow
<1> QED BY <1>1, <1>2, ReaderIInv DEF GetDoc

\* The row GET /docs/:id looks for is still there: rows are never removed.
LEMMA GetRowIInv ==
  ASSUME IInv, NEW r \in Readers, GetRow(r) PROVE IInv'
<1>1. HasRow(reads[r].docId, reads[r].versionId)
  BY DEF GetRow, IInv, ReadOK
<1>2. /\ reads' \in [Readers -> Read]
      /\ \A q \in Readers \ {r} : reads'[q] = reads[q]
      /\ reads'[r] = [reads[r] EXCEPT !.pc = "blob"]
  BY <1>1 DEF GetRow, IInv, TypeOK, Read
<1>3. ReadOK(r)'
  BY <1>1, <1>2 DEF GetRow, IInv, TypeOK, Read, ReadOK, HasRow
<1> QED BY <1>2, <1>3, ReaderIInv DEF GetRow

\* The blob GET /docs/:id reads is whole, because its row is visible.
LEMMA GetBlobIInv ==
  ASSUME IInv, NEW r \in Readers, GetBlob(r) PROVE IInv'
<1>1. blobs[reads[r].versionId].state = "whole"
  <2>1. HasRow(reads[r].docId, reads[r].versionId)
    BY DEF GetBlob, IInv, ReadOK
  <2>2. PICK q \in versions : q.versionId = reads[r].versionId
    BY <2>1 DEF HasRow
  <2>3. blobs[q.versionId] = [state |-> "whole", data |-> q.checksum]
    BY DEF IInv, RowsHaveTheirBlob
  <2> QED BY <2>2, <2>3
<1>2. reads[r] \in Read /\ reads \in [Readers -> Read]
  BY DEF IInv, TypeOK
<1>3. reads' = [reads EXCEPT ![r] =
                  [@ EXCEPT !.pc = "served", !.served = "whole"]]
  BY <1>1, <1>2 DEF GetBlob
<1>4. [reads[r] EXCEPT !.pc = "served", !.served = "whole"] \in Read
  BY <1>2 DEF Read
<1>5. /\ reads' \in [Readers -> Read]
      /\ \A q \in Readers \ {r} : reads'[q] = reads[q]
      /\ reads'[r] = [reads[r] EXCEPT !.pc = "served", !.served = "whole"]
  BY <1>2, <1>3, <1>4
<1>6. ReadOK(r)'
  BY <1>2, <1>5 DEF Read, ReadOK
<1> QED BY <1>5, <1>6, ReaderIInv DEF GetBlob

\* A GET request that has ended promises nothing.
LEMMA GetEndsIInv ==
  ASSUME IInv, NEW r \in Readers, GetEnds(r) PROVE IInv'
<1>1. /\ reads' \in [Readers -> Read]
      /\ \A q \in Readers \ {r} : reads'[q] = reads[q]
      /\ reads'[r] = IdleRead
  BY DEF GetEnds, IInv, TypeOK, Read, IdleRead, MaybeVersion
<1>2. ReadOK(r)'
  BY <1>1 DEF ReadOK, IdleRead
<1> QED BY <1>1, <1>2, ReaderIInv DEF GetEnds

\* A step that changes nothing keeps the invariant.
LEMMA StutterIInv == ASSUME IInv, UNCHANGED vars PROVE IInv'
<1>1. TypeOK' /\ OwnVersion'
  BY DEF IInv, vars, TypeOK, OwnVersion, Pending
<1>2. \A i \in Jobs : JobOK(i)'
  BY OtherJob DEF IInv, vars
<1>3. RowsOK' /\ RowsHaveTheirBlob' /\ HeadHasRow' /\ ParentPrecedesChild'
  BY DEF IInv, vars, RowsOK, RowsHaveTheirBlob, HeadHasRow,
     ParentPrecedesChild, HasRow
<1>4. \A q \in Readers : ReadOK(q)'
  BY DEF IInv, vars, ReadOK, HasRow
<1> QED BY <1>1, <1>2, <1>3, <1>4 DEF IInv

-----------------------------------------------------------------------------
(* The theorems.                                                           *)

\* Every step of the backend, its failures included, keeps the invariant.
LEMMA NextIInv == IInv /\ [Next]_vars => IInv'
<1> SUFFICES ASSUME IInv, [Next]_vars PROVE IInv'
  OBVIOUS
<1>1. ASSUME NEW j \in Jobs, Steps(j) PROVE IInv'
  <2>1. CASE BridgeOpens(j)
    BY <2>1, BridgeOpensIInv
  <2>2. CASE BridgeWrites(j)
    BY <2>2, BridgeWritesIInv
  <2>3. CASE CreateRow(j)
    BY <2>3, CreateRowIInv
  <2>4. CASE Publish(j)
    BY <2>4, PublishIInv
  <2>5. CASE Return(j)
    BY <2>5, FreedIInv DEF Return
  <2>6. CASE GiveUp(j)
    BY <2>6, GiveUpIInv
  <2>7. CASE Lost(j)
    BY <2>7, FreedIInv DEF Lost
  <2>8. CASE RestoreFind(j)
    BY <2>8, RestoreFindIInv
  <2>9. CASE RestoreFetch(j)
    BY <2>9, RestoreFetchIInv
  <2> QED BY <1>1, <2>1, <2>2, <2>3, <2>4, <2>5, <2>6, <2>7, <2>8, <2>9
          DEF Steps
<1>2. ASSUME NEW j \in Jobs, NEW d \in Docs, NEW a \in Users,
             NEW payload \in Payloads, NEW parent \in MaybeVersion,
             Save(j, d, a, payload, parent)
      PROVE  IInv'
  BY <1>2, SaveIInv
<1>3. ASSUME NEW j \in Jobs, NEW d \in Docs, NEW a \in Users,
             NEW v \in VersionIds, Restore(j, d, a, v)
      PROVE  IInv'
  BY <1>3, RestoreIInv
<1>4. ASSUME NEW r \in Readers, NEW d \in Docs, GetDoc(r, d) PROVE IInv'
  BY <1>4, GetDocIInv
<1>5. ASSUME NEW r \in Readers, GetRow(r) \/ GetBlob(r) \/ GetEnds(r)
      PROVE  IInv'
  BY <1>5, GetRowIInv, GetBlobIInv, GetEndsIInv
<1>6. CASE Crash
  BY <1>6, CrashIInv
<1>7. CASE UNCHANGED vars
  BY <1>7, StutterIInv
<1> QED BY <1>1, <1>2, <1>3, <1>4, <1>5, <1>6, <1>7 DEF Next

\* The invariant holds for every number of writers, readers, documents and
\* versions: it is what the safety theorems below are read off from.
THEOREM Inductive == Spec => []IInv
BY InitIInv, NextIInv, PTL DEF Spec

\* Types: every variable keeps its type whatever the number of documents,
\* writers, readers and versions.
THEOREM TypeCorrect == Spec => []TypeOK
<1>1. IInv => TypeOK
  BY DEF IInv
<1> QED BY <1>1, Inductive, PTL

\* A row of doc_versions is never visible without its complete blob
\* (persistDocumentVersion awaits the PUT before DocVersion.create).
THEOREM RowsAlwaysHaveTheirBlob == Spec => []RowsHaveTheirBlob
<1>1. IInv => RowsHaveTheirBlob
  BY DEF IInv
<1> QED BY <1>1, Inductive, PTL

\* latestVersionId never dangles, across failures, late effects of calls
\* that were given up, and crashes.
THEOREM HeadAlwaysHasRow == Spec => []HeadHasRow
<1>1. IInv => HeadHasRow
  BY DEF IInv
<1> QED BY <1>1, Inductive, PTL

\* The parent links of the history are acyclic and stay in the document.
THEOREM HistoryIsWellFounded == Spec => []ParentPrecedesChild
<1>1. IInv => ParentPrecedesChild
  BY DEF IInv
<1> QED BY <1>1, Inductive, PTL

\* GET /docs/:id never answers "no content", or a cut-off payload, for a
\* document that has a version.
THEOREM ReadsAreAlwaysServed == Spec => []ReadsAreServed
<1>1. IInv => ReadsAreServed
  BY DEF IInv, ReadOK, ReadsAreServed
<1> QED BY <1>1, Inductive, PTL

-----------------------------------------------------------------------------
(* DocStorage implements VersionLog.                                       *)

\* The entry of the abstract log that a row stands for.
EntryOf(r) == [id |-> r.versionId, doc |-> r.docId,
               parent |-> r.parentVersionId, content |-> r.checksum]

\* When every row has its blob, the log is the image of the rows.
LogOf(B, V) == {[id |-> r.versionId, doc |-> r.docId,
                 parent |-> r.parentVersionId,
                 content |-> B[r.versionId].data] : r \in V}

\* The log of the refinement mapping as a function of rows and blobs.
LEMMA LogIsRows ==
  ASSUME NEW B, NEW V,
         \A r \in V : B[r.versionId] = [state |-> "whole", data |-> r.checksum]
  PROVE  LogOf(B, V) = {EntryOf(r) : r \in V}
<1>1. ASSUME NEW r \in V PROVE B[r.versionId].data = r.checksum
  <2>1. B[r.versionId] = [state |-> "whole", data |-> r.checksum]
    OBVIOUS
  <2> QED BY <2>1
<1> QED BY <1>1 DEF EntryOf, LogOf

\* An empty database is an empty log.
LEMMA InitLog == Init => Log!Init
BY DEF Init, Log!Init

\* Steps that record and publish nothing.
LEMMA LogStutters ==
  ASSUME IInv, IInv', UNCHANGED <<versions, latest>>
  PROVE  UNCHANGED Log!vars
<1>1. \A r \in versions : blobs'[r.versionId].data = blobs[r.versionId].data
  BY DEF IInv, RowsHaveTheirBlob
<1> QED BY <1>1 DEF Log!vars

\* The log holds a version exactly when doc_versions has its row.
LEMMA HoldsIsHasRow ==
  ASSUME NEW d, NEW v PROVE HasRow(d, v) <=> Log!Holds(d, v)
<1>1. ASSUME HasRow(d, v) PROVE Log!Holds(d, v)
  <2>1. PICK r \in versions : r.docId = d /\ r.versionId = v
    BY <1>1 DEF HasRow
  <2> DEFINE entry == [id |-> r.versionId, doc |-> r.docId,
                       parent |-> r.parentVersionId,
                       content |-> blobs[r.versionId].data]
  <2>2. entry.doc = d /\ entry.id = v
    BY <2>1
  <2> QED BY <2>2 DEF Log!Holds
<1>2. ASSUME Log!Holds(d, v) PROVE HasRow(d, v)
  BY <1>2 DEF HasRow, Log!Holds
<1> QED BY <1>1, <1>2

\* CreateRow records one entry.
LEMMA CreateRecords ==
  ASSUME IInv, IInv', NEW j \in Jobs, CreateRow(j)
  PROVE  Log!Next
<1> DEFINE new == EntryOf(RowOf(j))
<1>1. /\ \A r \in versions : r.versionId # jobs[j].versionId
      /\ jobs[j].versionId \in VersionIds
      /\ jobs[j].docId \in Docs
      /\ jobs[j].payload \in Payloads
      /\ jobs[j].parentVersionId \in VersionIds \cup {None}
      /\ jobs[j].parentVersionId # None =>
           HasRow(jobs[j].docId, jobs[j].parentVersionId)
  BY DEF CreateRow, IInv, JobOK, Pending, TypeOK, Job, MaybeVersion
<1>2. new = [id |-> jobs[j].versionId, doc |-> jobs[j].docId,
           parent |-> jobs[j].parentVersionId, content |-> jobs[j].payload]
  BY DEF EntryOf, RowOf
<1>3. new \in Log!Entry
  BY <1>1, <1>2 DEF Log!Entry
<1>4. versions' = versions \cup {RowOf(j)} /\ UNCHANGED latest
  BY DEF CreateRow
<1> HIDE DEF new
<1>5. Log!Record(new)
  <2>1. RowsHaveTheirBlob /\ RowsHaveTheirBlob'
    BY DEF IInv
  <2>2. {EntryOf(r) : r \in versions'} =
          {EntryOf(r) : r \in versions} \cup {new}
    BY <1>4 DEF new
  <2>3. LogOf(blobs, versions)' = LogOf(blobs, versions) \cup {new}
    BY <2>1, <2>2, LogIsRows DEF RowsHaveTheirBlob
  <2>4. \A f \in LogOf(blobs, versions) : f.id # new.id
    BY <1>1, <1>2 DEF LogOf
  <2>5. new.parent # None => Log!Holds(new.doc, new.parent)
    BY <1>1, <1>2, HoldsIsHasRow
  <2> QED BY <1>4, <2>3, <2>4, <2>5 DEF Log!Record, LogOf
<1>6. \E e \in Log!Entry : Log!Record(e)
  BY <1>3, <1>5 DEF Log!Record
<1> QED BY <1>6 DEF Log!Next

\* Publish moves the head within the log.
LEMMA PublishMovesHead ==
  ASSUME IInv, IInv', NEW j \in Jobs, Publish(j)
  PROVE  Log!Next
<1>1. /\ HasRow(jobs[j].docId, jobs[j].versionId)
      /\ jobs[j].docId \in Docs
      /\ jobs[j].versionId \in VersionIds
  BY DEF Publish, IInv, JobOK, Pending
<1>2. /\ UNCHANGED <<blobs, versions>>
      /\ latest' = [latest EXCEPT ![jobs[j].docId] = jobs[j].versionId]
  BY DEF Publish
<1>3. Log!MoveHead(jobs[j].docId, jobs[j].versionId)
  BY <1>1, <1>2, HoldsIsHasRow DEF Log!MoveHead
<1> QED BY <1>1, <1>3 DEF Log!Next

\* Every step records one entry, moves the head, or leaves the log alone.
LEMMA StepLog == IInv /\ IInv' /\ [Next]_vars => [Log!Next]_(Log!vars)
<1> SUFFICES ASSUME IInv, IInv', [Next]_vars PROVE [Log!Next]_(Log!vars)
  OBVIOUS
<1>1. ASSUME NEW j \in Jobs, CreateRow(j) PROVE Log!Next
  BY <1>1, CreateRecords
<1>2. ASSUME NEW j \in Jobs, Publish(j) PROVE Log!Next
  BY <1>2, PublishMovesHead
<1>3. CASE UNCHANGED <<versions, latest>>
  BY <1>3, LogStutters
<1>4. CASE ~UNCHANGED <<versions, latest>>
  <2>1. PICK j \in Jobs : CreateRow(j) \/ Publish(j)
    BY <1>4 DEF Next, vars, Steps, BridgeOpens, BridgeWrites, Return, GiveUp,
       Lost, RestoreFind, RestoreFetch, Save, Restore, Persist, GetDoc,
       GetRow, GetBlob, GetEnds, Crash
  <2> QED BY <1>1, <1>2, <2>1
<1> QED BY <1>3, <1>4

\* The protocol of three remote calls, with its failures and late effects,
\* implements the append-only log: rows and what their blobs hold never
\* change, and the head stays within the document's own log.
THEOREM Refinement == Spec => ImplementsVersionLog
<1>1. Init /\ [][Next]_vars /\ []IInv => Log!Spec
  BY InitLog, StepLog, PTL DEF Log!Spec
<1> QED BY <1>1, Inductive, PTL DEF Spec, ImplementsVersionLog

-----------------------------------------------------------------------------
(* What a restore persists.                                                *)

\* A job leaves the stage "fetch" for "put" only by RestoreFetch.
LEMMA OnlyRestoreFetchPuts ==
  ASSUME IInv, Next, NEW j \in Jobs,
         jobs[j].pc = "fetch", jobs'[j].pc = "put"
  PROVE  RestoreFetch(j)
<1>1. jobs \in [Jobs -> Job] /\ jobs'[j] # jobs[j] /\ jobs'[j] # IdleJob
  BY DEF IInv, TypeOK, IdleJob
<1>2. ASSUME NEW k \in Jobs, Steps(k) PROVE k = j /\ RestoreFetch(j)
  BY <1>1, <1>2 DEF Steps, BridgeOpens, BridgeWrites, CreateRow, Publish,
     Answer, Return, GiveUp, Lost, RestoreFind, RestoreFetch, Persist
<1>3. ASSUME NEW k \in Jobs, NEW d \in Docs, NEW a \in Users,
             NEW v \in VersionIds, Restore(k, d, a, v)
      PROVE  FALSE
  BY <1>1, <1>3 DEF Restore
<1>4. ASSUME NEW k \in Jobs, NEW d \in Docs, NEW a \in Users,
             NEW payload \in Payloads, NEW parent \in MaybeVersion,
             Save(k, d, a, payload, parent)
      PROVE  FALSE
  BY <1>1, <1>4 DEF Save, Persist
<1>5. ASSUME NEW r \in Readers, NEW d \in Docs, GetDoc(r, d) PROVE FALSE
  BY <1>1, <1>5 DEF GetDoc
<1>6. ASSUME NEW r \in Readers, GetRow(r) \/ GetBlob(r) \/ GetEnds(r)
      PROVE  FALSE
  BY <1>1, <1>6 DEF GetRow, GetBlob, GetEnds
<1>7. ASSUME Crash PROVE FALSE
  BY <1>1, <1>7 DEF Crash
<1> QED BY <1>2, <1>3, <1>4, <1>5, <1>6, <1>7 DEF Next

\* A restore persists the payload the restored version's row recorded,
\* although it reads the row and the blob at different times.
THEOREM RestoreAlwaysCopies == Spec => RestoreCopies
<1> DEFINE Copies ==
      \A j \in Jobs : jobs[j].pc = "fetch" /\ jobs'[j].pc = "put" =>
        \E r \in versions : /\ r.versionId = jobs[j].parentVersionId
                            /\ r.checksum = jobs'[j].payload
<1>1. IInv /\ [Next]_vars => [Copies]_vars
  <2> SUFFICES ASSUME IInv, Next, NEW j \in Jobs,
                      jobs[j].pc = "fetch", jobs'[j].pc = "put"
               PROVE  \E r \in versions :
                        /\ r.versionId = jobs[j].parentVersionId
                        /\ r.checksum = jobs'[j].payload
    OBVIOUS
  <2>1. RestoreFetch(j)
    BY OnlyRestoreFetchPuts
  <2>2. PICK r \in versions : r.versionId = jobs[j].parentVersionId
    BY DEF IInv, JobOK, HasRow
  <2>3. jobs'[j].payload = blobs[r.versionId].data
    BY <2>1, <2>2 DEF RestoreFetch, Persist, IInv, TypeOK
  <2>4. blobs[r.versionId] = [state |-> "whole", data |-> r.checksum]
    BY DEF IInv, RowsHaveTheirBlob
  <2> QED BY <2>2, <2>3, <2>4
<1> QED BY <1>1, Inductive, PTL DEF Spec, RestoreCopies
=============================================================================
