---------------------------- MODULE CollabProofs ----------------------------
(***************************************************************************)
(* Proofs about Collab, for every value of its constants: the rooms, the   *)
(* flush and the pages keep to the protocol of DocStorage, so that what is *)
(* proved of the protocol in DocStorageProofs holds of them; and no update *)
(* falls between a room and its pages.                                     *)
(***************************************************************************)
EXTENDS Collab, TLAPS

\* The theorems of DocStorage, read on the variables of Collab.
SP == INSTANCE DocStorageProofs WITH Readers <- {}, reads <- [r \in {} |-> None]

\* a may edit d.
MayEdit(d, a) == \E p \in Editors : UserOf[p] = a /\ DocOf[p] = d

\* Whatever id a room, a loading handler or a page holds names a row of its
\* own document.
KnownIds ==
  /\ \A d \in Docs : rooms[d].latestVersionId # None =>
       Storage!HasRow(d, rooms[d].latestVersionId)
  /\ \A p \in Pages : joins[p].versionId # None =>
       Storage!HasRow(DocOf[p], joins[p].versionId)
  /\ \A p \in Pages : joins[p].pc \in {"row", "blob"} =>
       joins[p].versionId # None
  /\ \A p \in Pages : pages[p].parent # None =>
       Storage!HasRow(DocOf[p], pages[p].parent)

\* A request in progress is about the document of the page that waits for it.
AskersKnown ==
  \A r \in Requests : asker[r].page # None /\ jobs[r].pc # "idle" =>
    jobs[r].docId = DocOf[asker[r].page]

\* Whoever is about to be recorded as an author may edit the document.
RoomEditors ==
  \A d \in Docs : rooms[d].lastEditorId # None =>
    MayEdit(d, rooms[d].lastEditorId)
JobEditors ==
  \A j \in Jobs : jobs[j].pc # "idle" =>
    MayEdit(jobs[j].docId, jobs[j].authorId)
RowEditors == \A r \in versions : MayEdit(r.docId, r.authorId)

CInv ==
  /\ SP!IInv
  /\ TypeOK
  /\ KnownIds
  /\ AskersKnown
  /\ RoomEditors
  /\ JobEditors
  /\ RowEditors

-----------------------------------------------------------------------------
(* The two readings of DocStorage agree.                                   *)

\* DocStorage instantiated by Collab and by this module are the same.
LEMMA SameStorage ==
  /\ Storage!Init <=> SP!Init
  /\ [Storage!Next]_(Storage!vars) <=> [SP!Next]_(SP!vars)
<1>1. Storage!Init <=> SP!Init
  BY DEF Storage!Init, SP!Init, Storage!AbsentBlob, SP!AbsentBlob,
     Storage!IdleJob, SP!IdleJob, Storage!IdleRead, SP!IdleRead
<1>2. [Storage!Next]_(Storage!vars) <=> [SP!Next]_(SP!vars)
  BY DEF Storage!Next, SP!Next, Storage!Steps, SP!Steps,
     Storage!BridgeOpens, SP!BridgeOpens, Storage!BridgeWrites,
     SP!BridgeWrites, Storage!Answer, SP!Answer, Storage!CreateRow,
     SP!CreateRow, Storage!RowOf, SP!RowOf, Storage!Publish, SP!Publish,
     Storage!Return, SP!Return, Storage!GiveUp, SP!GiveUp, Storage!Lost,
     SP!Lost, Storage!RestoreFind, SP!RestoreFind, Storage!RestoreFetch,
     SP!RestoreFetch, Storage!Save, SP!Save, Storage!Restore, SP!Restore,
     Storage!Persist, SP!Persist, Storage!GetDoc, SP!GetDoc,
     Storage!GetRow, SP!GetRow, Storage!GetBlob, SP!GetBlob,
     Storage!GetEnds, SP!GetEnds, Storage!Crash, SP!Crash,
     Storage!HasRow, SP!HasRow, Storage!Fresh, SP!Fresh,
     Storage!IdleJob, SP!IdleJob, Storage!IdleRead, SP!IdleRead,
     Storage!TornBlob, SP!TornBlob, Storage!Payloads, SP!Payloads,
     Storage!MaybeVersion, SP!MaybeVersion, Storage!Stages, SP!Stages,
     Storage!vars, SP!vars
<1> QED BY <1>1, <1>2

\* What Collab needs to know of the state of its storage.
LEMMA StorageFacts ==
  ASSUME CInv
  PROVE  /\ \A d \in Docs : latest[d] # None => Storage!HasRow(d, latest[d])
         /\ \A j \in Jobs : jobs[j].pc = "done" =>
              /\ jobs[j].versionId \in VersionIds
              /\ Storage!HasRow(jobs[j].docId, jobs[j].versionId)
         /\ \A j \in Jobs : jobs[j].pc # "idle" =>
              jobs[j].docId \in Docs /\ jobs[j].authorId \in Users
BY DEF CInv, SP!IInv, SP!HeadHasRow, SP!JobOK, SP!Pending, SP!HasRow,
   Storage!HasRow

\* A step of the storage preserves what is proved of the storage.
LEMMA StorageStepIInv ==
  ASSUME SP!IInv, [Storage!Next]_(Storage!vars)
  PROVE  SP!IInv' /\ Storage!TypeOK'
<1>1. None \notin VersionIds
  BY NoneIsNothing
<1>2. SP!IInv'
  BY <1>1, SameStorage, SP!NextIInv
<1>3. SP!TypeOK'
  BY <1>2 DEF SP!IInv
<1> QED
  BY <1>2, <1>3 DEF SP!TypeOK, Storage!TypeOK, SP!Blob, Storage!Blob,
     SP!DocVersion, Storage!DocVersion, SP!MaybeVersion,
     Storage!MaybeVersion, SP!Job, Storage!Job, SP!Read, Storage!Read,
     SP!Payloads, Storage!Payloads, SP!Stages, Storage!Stages

\* The backend starts with no room, over an empty storage.
LEMMA InitCInv == Init => CInv
<1> SUFFICES ASSUME Init PROVE CInv
  OBVIOUS
<1>1. Storage!Init /\ SP!Init
  BY SameStorage DEF Init
<1>2. None \notin VersionIds
  BY NoneIsNothing
<1>3. SP!IInv
  BY <1>1, <1>2, SP!InitIInv
<1>4. Storage!TypeOK
  BY <1>3 DEF SP!IInv, SP!TypeOK, Storage!TypeOK, SP!Blob, Storage!Blob,
     SP!DocVersion, Storage!DocVersion, SP!MaybeVersion,
     Storage!MaybeVersion, SP!Job, Storage!Job, SP!Read, Storage!Read,
     SP!Payloads, Storage!Payloads, SP!Stages, Storage!Stages
<1>5. TypeOK
  BY <1>4, BoundsAreNumbers
     DEF Init, TypeOK, Room, NewRoom, Join, NoJoin, Page, NewPage, Asker,
     NoAsker, Contents
<1>6. KnownIds /\ AskersKnown /\ RoomEditors
  BY DEF Init, KnownIds, AskersKnown, RoomEditors, NewRoom, NoJoin, NewPage,
     NoAsker
<1>7. JobEditors /\ RowEditors
  BY <1>1 DEF JobEditors, RowEditors, Storage!Init, Storage!IdleJob
<1> QED BY <1>3, <1>5, <1>6, <1>7 DEF CInv

-----------------------------------------------------------------------------
(* Frames.                                                                 *)

\* The types of what Collab adds to the storage.
LocalTypes ==
  /\ rooms \in [Docs -> Room]
  /\ roomOrder \in Seq(Docs)
  /\ joins \in [Pages -> Join]
  /\ pages \in [Pages -> Page]
  /\ asker \in [Requests -> Asker]
  /\ lost \in Contents
  /\ failures \in 0..MaxFailures
  /\ drops \in 0..MaxDrops
  /\ restarts \in 0..MaxRestarts

\* TypeOK is the type of the storage and of the rest.
LEMMA LocalTypeOK == TypeOK <=> Storage!TypeOK /\ LocalTypes
BY DEF TypeOK, LocalTypes

\* Rows are never removed.
LEMMA RowsStay ==
  ASSUME versions \subseteq versions', NEW d, NEW v, Storage!HasRow(d, v)
  PROVE  Storage!HasRow(d, v)'
BY DEF Storage!HasRow

\* A handler that does not call the storage.
LEMMA QuietStep ==
  ASSUME CInv, UNCHANGED <<storage, asker>>, LocalTypes',
         \A d \in Docs : rooms'[d].latestVersionId # None =>
           Storage!HasRow(d, rooms'[d].latestVersionId),
         \A p \in Pages : joins'[p].versionId # None =>
           Storage!HasRow(DocOf[p], joins'[p].versionId),
         \A p \in Pages : joins'[p].pc \in {"row", "blob"} =>
           joins'[p].versionId # None,
         \A p \in Pages : pages'[p].parent # None =>
           Storage!HasRow(DocOf[p], pages'[p].parent),
         RoomEditors'
  PROVE  CInv' /\ [Storage!Next]_(Storage!vars)
<1>1. UNCHANGED Storage!vars
  BY DEF storage, Storage!vars
<1>2. SP!IInv' /\ Storage!TypeOK'
  BY <1>1, StorageStepIInv DEF CInv
<1>3. KnownIds' /\ AskersKnown' /\ JobEditors' /\ RowEditors'
  BY DEF CInv, storage, KnownIds, AskersKnown, JobEditors, RowEditors,
     Storage!HasRow, MayEdit
<1> QED BY <1>1, <1>2, <1>3, LocalTypeOK DEF CInv, LocalTypes, TypeOK

\* getOrCreateRoom adds at most the document asked for.
LEMMA RoomOrderType ==
  ASSUME TypeOK, NEW d \in Docs, GetOrCreateRoom(d)
  PROVE  roomOrder' \in Seq(Docs)
BY DEF TypeOK, GetOrCreateRoom

\* The end of a doc:join handler.
LEMMA FinishJoinStep ==
  ASSUME CInv, NEW p \in Pages, NEW room \in Room, FinishJoin(p, room),
         UNCHANGED <<storage, roomOrder, asker, faults>>,
         room.lastEditorId = rooms[DocOf[p]].lastEditorId,
         room.latestVersionId # None =>
           Storage!HasRow(DocOf[p], room.latestVersionId)
  PROVE  CInv' /\ [Storage!Next]_(Storage!vars)
<1>1. /\ DocOf[p] \in Docs
      /\ rooms \in [Docs -> Room]
      /\ joins \in [Pages -> Join]
      /\ pages \in [Pages -> Page]
  BY PagesOfDocs DEF CInv, TypeOK
<1>2. /\ rooms' = [rooms EXCEPT ![DocOf[p]] = room]
      /\ joins' = [joins EXCEPT ![p] = NoJoin]
      /\ pages' \in [Pages -> Page]
      /\ \A q \in Pages : pages'[q].parent = pages[q].parent
  <2> DEFINE page == [pages[p] EXCEPT !.state = "acked", !.member = TRUE,
                                      !.ydoc = room.ydoc]
  <2>1. page \in Page /\ page.parent = pages[p].parent
    <3>1. pages[p] \in Page /\ room.ydoc \in Contents
      BY <1>1 DEF Room
    <3> QED BY <3>1 DEF Page
  <2>2. \/ pages' = [pages EXCEPT ![p] = page]
        \/ pages' = [pages EXCEPT ![p] = pages[p]]
    BY DEF FinishJoin
  <2>3. /\ rooms' = [rooms EXCEPT ![DocOf[p]] = room]
        /\ joins' = [joins EXCEPT ![p] = NoJoin]
    BY DEF FinishJoin
  <2> HIDE DEF page
  <2> QED BY <1>1, <2>1, <2>2, <2>3
<1>3. LocalTypes'
  BY <1>1, <1>2 DEF LocalTypes, CInv, TypeOK, faults, Join, NoJoin
<1>4. /\ \A d \in Docs : rooms'[d].latestVersionId # None =>
           Storage!HasRow(d, rooms'[d].latestVersionId)
      /\ \A q \in Pages : joins'[q].versionId # None =>
           Storage!HasRow(DocOf[q], joins'[q].versionId)
      /\ \A q \in Pages : joins'[q].pc \in {"row", "blob"} =>
           joins'[q].versionId # None
      /\ \A q \in Pages : pages'[q].parent # None =>
           Storage!HasRow(DocOf[q], pages'[q].parent)
  BY <1>1, <1>2 DEF CInv, KnownIds, NoJoin
<1>5. RoomEditors'
  BY <1>1, <1>2 DEF CInv, RoomEditors, MayEdit
<1> QED BY <1>3, <1>4, <1>5, QuietStep

-----------------------------------------------------------------------------
(* The handlers that do not call the storage.                              *)

\* A page opens.
LEMMA JoinStep ==
  ASSUME CInv, NEW p \in Pages, JoinLoaded(p) \/ JoinLoads(p)
  PROVE  CInv' /\ [Storage!Next]_(Storage!vars)
<1>1. DocOf[p] \in Docs /\ TypeOK
  BY PagesOfDocs DEF CInv
<1>2. PICK page \in Page : /\ pages' = [pages EXCEPT ![p] = page]
                           /\ page.parent = pages[p].parent
  <2> DEFINE acked == [pages[p] EXCEPT !.state = "acked", !.member = TRUE,
                                       !.ydoc = rooms[DocOf[p]].ydoc]
             joining == [pages[p] EXCEPT !.state = "joining"]
  <2>1. acked \in Page /\ acked.parent = pages[p].parent
    BY <1>1 DEF Page, Room, TypeOK
  <2>2. joining \in Page /\ joining.parent = pages[p].parent
    BY <1>1 DEF Page, TypeOK
  <2>3. pages' = [pages EXCEPT ![p] = acked]
        \/ pages' = [pages EXCEPT ![p] = joining]
    BY DEF JoinLoaded, JoinLoads
  <2> HIDE DEF acked, joining
  <2> QED BY <2>1, <2>2, <2>3
<1>3. /\ joins' \in [Pages -> Join]
      /\ \A q \in Pages : /\ joins'[q].versionId = joins[q].versionId
                          /\ joins'[q].pc \in {joins[q].pc, "doc"}
  <2> DEFINE join == [joins[p] EXCEPT !.pc = "doc"]
  <2>1. /\ join \in Join
        /\ join.versionId = joins[p].versionId
        /\ join.pc = "doc"
    BY <1>1 DEF Join, TypeOK
  <2>2. joins' = joins \/ joins' = [joins EXCEPT ![p] = join]
    BY DEF JoinLoaded, JoinLoads
  <2>3. joins \in [Pages -> Join]
    BY <1>1 DEF TypeOK
  <2> HIDE DEF join
  <2> QED BY <2>1, <2>2, <2>3
<1>4. /\ rooms' = rooms
      /\ UNCHANGED <<storage, asker, faults>>
      /\ roomOrder' \in Seq(Docs)
  BY <1>1, RoomOrderType DEF JoinLoaded, JoinLoads, TypeOK
<1>5. LocalTypes'
  BY <1>1, <1>2, <1>3, <1>4 DEF TypeOK, LocalTypes, faults
<1>6. \A q \in Pages : pages'[q].parent = pages[q].parent
  BY <1>1, <1>2 DEF TypeOK
<1>7. RoomEditors'
  BY <1>4 DEF CInv, RoomEditors, MayEdit
<1> QED BY <1>3, <1>4, <1>5, <1>6, <1>7, QuietStep DEF CInv, KnownIds

\* loadRoomState goes on to its next await, or ends.
LEMMA LoadStepStep ==
  ASSUME CInv, NEW p \in Pages, LoadStep(p)
  PROVE  CInv' /\ [Storage!Next]_(Storage!vars)
<1>1. DocOf[p] \in Docs /\ TypeOK
  BY PagesOfDocs DEF CInv
<1> DEFINE old == rooms[DocOf[p]]
<1>2. /\ old \in Room
      /\ joins[p] \in Join
      /\ \A q \in Pages : joins[q] \in Join
      /\ old.latestVersionId # None =>
           Storage!HasRow(DocOf[p], old.latestVersionId)
      /\ joins[p].versionId # None =>
           Storage!HasRow(DocOf[p], joins[p].versionId)
  BY <1>1 DEF TypeOK, CInv, KnownIds
<1>3. CASE LoadReadsDoc(p)
  <2>1. LocalTypes'
    BY <1>1, <1>3 DEF LoadReadsDoc, TypeOK, LocalTypes, faults, Join,
       storage, Storage!TypeOK, Storage!MaybeVersion
  <2>2. \A q \in Pages :
          /\ joins'[q].versionId # None =>
               Storage!HasRow(DocOf[q], joins'[q].versionId)
          /\ joins'[q].pc \in {"row", "blob"} => joins'[q].versionId # None
    BY <1>1, <1>3, StorageFacts DEF LoadReadsDoc, TypeOK, CInv, KnownIds
  <2>3. UNCHANGED <<storage, rooms, pages, asker>>
    BY <1>3 DEF LoadReadsDoc
  <2>4. RoomEditors'
    BY <2>3 DEF CInv, RoomEditors, MayEdit
  <2> QED BY <2>1, <2>2, <2>3, <2>4, QuietStep DEF CInv, KnownIds
<1>4. CASE LoadGetsDoc(p)
  <2> DEFINE room == [old EXCEPT !.latestVersionId = joins[p].versionId]
  <2>1. /\ room \in Room
        /\ [room EXCEPT !.loaded = TRUE] \in Room
        /\ room.lastEditorId = old.lastEditorId
        /\ room.latestVersionId = joins[p].versionId
        /\ [room EXCEPT !.loaded = TRUE].lastEditorId = old.lastEditorId
        /\ [room EXCEPT !.loaded = TRUE].latestVersionId = joins[p].versionId
    BY <1>2 DEF Room, Join
  <2>2. CASE FinishJoin(p, [room EXCEPT !.loaded = TRUE])
    <3>1. UNCHANGED <<storage, roomOrder, asker, faults>>
      BY <1>4 DEF LoadGetsDoc
    <3> HIDE DEF room
    <3> QED BY <2>1, <2>2, <3>1, <1>2, FinishJoinStep
  <2>3. CASE /\ joins[p].versionId # None
             /\ rooms' = [rooms EXCEPT ![DocOf[p]] = room]
             /\ joins' = [joins EXCEPT ![p].pc = "row"]
             /\ UNCHANGED pages
    <3>1. UNCHANGED <<storage, roomOrder, asker, faults>>
      BY <1>4 DEF LoadGetsDoc
    <3>2. \A q \in Pages : joins'[q] \in Join
                           /\ joins'[q].versionId = joins[q].versionId
                           /\ q # p => joins'[q] = joins[q]
      BY <1>2, <2>3 DEF TypeOK, CInv, Join
    <3>3. rooms' \in [Docs -> Room] /\ joins' \in [Pages -> Join]
      <4>1. joins' \in [Pages -> Join]
        <5>1. /\ joins \in [Pages -> Join]
              /\ [joins[p] EXCEPT !.pc = "row"] \in Join
          BY <1>1, <1>2 DEF TypeOK, Join
        <5> QED BY <2>3, <5>1
      <4> HIDE DEF room
      <4> QED BY <1>1, <2>1, <2>3, <4>1 DEF TypeOK
    <3>4. LocalTypes'
      BY <1>1, <2>3, <3>1, <3>3 DEF LocalTypes, TypeOK, faults
    <3>5. \A d \in Docs : rooms'[d] = IF d = DocOf[p] THEN room ELSE rooms[d]
      BY <1>1, <2>3 DEF TypeOK
    <3> HIDE DEF room
    <3>6. \A d \in Docs : rooms'[d].latestVersionId # None =>
            Storage!HasRow(d, rooms'[d].latestVersionId)
      BY <1>2, <2>1, <3>5 DEF CInv, KnownIds
    <3>7. RoomEditors'
      BY <2>1, <3>5 DEF CInv, RoomEditors, MayEdit
    <3> QED BY <2>3, <3>1, <3>2, <3>4, <3>6, <3>7, QuietStep
            DEF CInv, KnownIds
  <2> QED BY <1>4, <2>2, <2>3 DEF LoadGetsDoc
<1>5. CASE LoadGetsRow(p)
  <2>1. UNCHANGED <<storage, roomOrder, asker, faults>>
    BY <1>5 DEF LoadGetsRow
  <2>2. CASE FinishJoin(p, [old EXCEPT !.loaded = TRUE])
    <3>1. /\ [old EXCEPT !.loaded = TRUE] \in Room
          /\ [old EXCEPT !.loaded = TRUE].lastEditorId = old.lastEditorId
          /\ [old EXCEPT !.loaded = TRUE].latestVersionId = old.latestVersionId
      BY <1>2 DEF Room
    <3> QED BY <2>1, <2>2, <3>1, <1>2, FinishJoinStep
  <2>3. CASE joins' = [joins EXCEPT ![p].pc = "blob"]
             /\ UNCHANGED <<rooms, pages>>
    <3>1. /\ joins' \in [Pages -> Join]
          /\ \A q \in Pages : /\ joins'[q].versionId = joins[q].versionId
                              /\ q # p => joins'[q] = joins[q]
          /\ joins[p].pc = "row"
      BY <1>1, <1>5, <2>3 DEF TypeOK, Join, LoadGetsRow
    <3>2. LocalTypes'
      BY <1>1, <2>1, <2>3, <3>1 DEF LocalTypes, TypeOK, faults
    <3>3. RoomEditors'
      BY <2>3 DEF CInv, RoomEditors, MayEdit
    <3> QED BY <2>1, <2>3, <3>1, <3>2, <3>3, QuietStep DEF CInv, KnownIds
  <2> QED BY <1>5, <2>2, <2>3 DEF LoadGetsRow
<1>6. CASE LoadGetsBlob(p)
  <2> DEFINE data == blobs[joins[p].versionId].data
             room == [old EXCEPT !.ydoc = @ \cup data, !.loaded = TRUE]
  <2>1. data \in Contents
    <3>1. joins[p].versionId \in VersionIds
      BY <1>2, <1>6 DEF LoadGetsBlob, CInv, KnownIds, Join
    <3> QED BY <1>1, <3>1 DEF TypeOK, Storage!TypeOK, Storage!Blob,
               Storage!Payloads, Contents
  <2>2. /\ room \in Room
        /\ room.lastEditorId = old.lastEditorId
        /\ room.latestVersionId = old.latestVersionId
    BY <1>2, <2>1 DEF Room, Contents
  <2>3. FinishJoin(p, room) /\ UNCHANGED <<storage, roomOrder, asker, faults>>
    BY <1>6 DEF LoadGetsBlob
  <2> HIDE DEF room
  <2> QED BY <2>2, <2>3, <1>2, FinishJoinStep
<1> QED BY <1>3, <1>4, <1>5, <1>6 DEF LoadStep

\* What a step does to the pages, as far as the storage is concerned: it
\* gives none of them a parent.
PagesKept == \A p \in Pages : pages'[p].parent \in {pages[p].parent, None}

\* A step that changes nothing but pages and bounds.
LEMMA PagesStep ==
  ASSUME CInv, UNCHANGED <<storage, rooms, joins, asker>>,
         LocalTypes', PagesKept
  PROVE  CInv' /\ [Storage!Next]_(Storage!vars)
<1>1. RoomEditors'
  BY DEF CInv, RoomEditors, MayEdit
<1> QED BY <1>1, QuietStep DEF CInv, KnownIds, PagesKept

\* One page changes.
LEMMA OnePageStep ==
  ASSUME CInv, NEW p \in Pages, NEW page \in Page,
         page.parent \in {pages[p].parent, None},
         pages' = [pages EXCEPT ![p] = page],
         UNCHANGED <<storage, rooms, roomOrder, joins, asker, faults>>
  PROVE  CInv' /\ [Storage!Next]_(Storage!vars)
<1>1. pages' \in [Pages -> Page] /\ PagesKept
  BY DEF CInv, TypeOK, PagesKept
<1>2. LocalTypes'
  BY <1>1 DEF LocalTypes, CInv, TypeOK, faults
<1> QED BY <1>1, <1>2, PagesStep

\* The answer to doc:join arrives, or the page is left.
LEMMA PageStep ==
  ASSUME CInv, NEW p \in Pages, ReceiveAck(p) \/ Close(p)
  PROVE  CInv' /\ [Storage!Next]_(Storage!vars)
<1>1. pages[p] \in Page
  BY DEF CInv, TypeOK
<1>2. CASE ReceiveAck(p)
  <2> DEFINE page == [pages[p] EXCEPT !.state = "ready"]
  <2>1. page \in Page /\ page.parent = pages[p].parent
    BY <1>1 DEF Page
  <2>2. /\ pages' = [pages EXCEPT ![p] = page]
        /\ UNCHANGED <<storage, rooms, roomOrder, joins, asker, faults>>
    BY <1>2 DEF ReceiveAck
  <2> HIDE DEF page
  <2> QED BY <2>1, <2>2, OnePageStep
<1>3. CASE Close(p)
  <2>1. Left(pages[p]) \in Page /\ Left(pages[p]).parent = None
    BY <1>1 DEF Page, Left, NewPage, Contents
  <2> QED BY <1>3, <2>1, OnePageStep DEF Close
<1> QED BY <1>2, <1>3

\* The user types, or an update of somebody else arrives.
LEMMA TextStep ==
  ASSUME CInv, NEW p \in Pages, NEW u \in Updates,
         Edit(p, u) \/ ReceiveUpdate(p, u)
  PROVE  CInv' /\ [Storage!Next]_(Storage!vars)
<1> DEFINE page == pages[p]
           edited == [page EXCEPT !.ydoc = @ \cup {u}, !.outbox = @ \cup {u}]
           received == [page EXCEPT !.inbox = @ \ {u}, !.ydoc = @ \cup {u},
                          !.outbox = IF u \in page.ydoc THEN @ ELSE @ \cup {u}]
<1>1. page \in Page /\ pages \in [Pages -> Page]
  BY DEF CInv, TypeOK
<1>2. edited \in Page /\ edited.parent = page.parent
  BY <1>1 DEF Page, Contents
<1>3. received \in Page /\ received.parent = page.parent
  BY <1>1 DEF Page, Contents
<1>4. UNCHANGED <<storage, rooms, roomOrder, joins, asker, faults>>
  BY DEF Edit, ReceiveUpdate
<1>5. CASE Edit(p, u)
  <2>1. pages' = [pages EXCEPT ![p] = edited]
    BY <1>1, <1>5 DEF Edit
  <2> HIDE DEF edited
  <2> QED BY <1>2, <1>4, <2>1, OnePageStep
<1>6. CASE ReceiveUpdate(p, u)
  <2>1. pages' = [pages EXCEPT ![p] = received]
    BY <1>1, <1>6 DEF ReceiveUpdate
  <2> HIDE DEF received
  <2> QED BY <1>3, <1>4, <2>1, OnePageStep
<1> QED BY <1>5, <1>6

\* A replaced connection costs the page messages, never its parent.
LEMMA ReconnectedPage ==
  ASSUME NEW page \in Page, NEW kept \in Contents
  PROVE  /\ Reconnected(page, kept) \in Page
         /\ Reconnected(page, kept).parent \in {page.parent, None}
BY DEF Reconnected, NewPage, Page, Contents

\* A connection is lost, or an await of doc:join rejects.
LEMMA FaultStep ==
  ASSUME CInv, NEW p \in Pages, Drop(p) \/ LoadFails(p) \/ JoinFails(p)
  PROVE  CInv' /\ [Storage!Next]_(Storage!vars)
<1>1. pages \in [Pages -> Page] /\ pages[p] \in Page /\ TypeOK
  BY DEF CInv, TypeOK
<1>2. MaxFailures \in Nat /\ MaxDrops \in Nat
  BY BoundsAreNumbers
<1>3. CASE Drop(p)
  <2>1. PICK kept \in SUBSET pages[p].outbox :
          pages' = [pages EXCEPT ![p] = Reconnected(pages[p], kept)]
    BY <1>3 DEF Drop
  <2>2. kept \in Contents
    BY <1>1, <2>1 DEF Page, Contents
  <2>3. pages' \in [Pages -> Page] /\ PagesKept
    BY <1>1, <2>1, <2>2, ReconnectedPage DEF PagesKept
  <2>4. /\ UNCHANGED <<storage, rooms, roomOrder, joins, asker>>
        /\ UNCHANGED <<lost, failures, restarts>>
        /\ drops < MaxDrops /\ drops' = drops + 1
    BY <1>3 DEF Drop
  <2>5. LocalTypes'
    BY <1>1, <1>2, <2>3, <2>4 DEF LocalTypes, TypeOK
  <2> QED BY <2>3, <2>4, <2>5, PagesStep
<1>4. CASE LoadFails(p)
  <2> DEFINE failed == [pages[p] EXCEPT !.state = "failed"]
  <2>1. failed \in Page /\ failed.parent = pages[p].parent
    BY <1>1 DEF Page
  <2>2. pages' = [pages EXCEPT ![p] = failed]
        \/ pages' = [pages EXCEPT ![p] = pages[p]]
    <3>1. pages' = [pages EXCEPT ![p].state =
                      IF pages[p].state = "joining" THEN "failed"
                      ELSE pages[p].state]
      BY <1>4 DEF LoadFails
    <3>2. [pages[p] EXCEPT !.state = pages[p].state] = pages[p]
      BY <1>1 DEF Page
    <3> QED BY <3>1, <3>2
  <2> HIDE DEF failed
  <2>3. pages' \in [Pages -> Page] /\ PagesKept
    BY <1>1, <2>1, <2>2 DEF PagesKept
  <2>4. /\ UNCHANGED <<storage, rooms, roomOrder, asker>>
        /\ UNCHANGED <<lost, drops, restarts>>
        /\ failures < MaxFailures /\ failures' = failures + 1
        /\ joins' = [joins EXCEPT ![p] = NoJoin]
    BY <1>4 DEF LoadFails
  <2>5. LocalTypes'
    BY <1>1, <1>2, <2>3, <2>4 DEF LocalTypes, TypeOK, Join, NoJoin
  <2>6. \A q \in Pages : joins'[q] = joins[q] \/ joins'[q] = NoJoin
    BY <1>1, <2>4 DEF TypeOK
  <2>7. RoomEditors'
    BY <2>4 DEF CInv, RoomEditors, MayEdit
  <2> QED BY <2>3, <2>4, <2>5, <2>6, <2>7, QuietStep
          DEF CInv, KnownIds, PagesKept, NoJoin
<1>5. CASE JoinFails(p)
  <2> DEFINE failed == [pages[p] EXCEPT !.state = "failed"]
  <2>1. failed \in Page /\ failed.parent = pages[p].parent
    BY <1>1 DEF Page
  <2>2. /\ pages' = [pages EXCEPT ![p] = failed]
        /\ UNCHANGED <<storage, rooms, roomOrder, joins, asker, lost>>
        /\ UNCHANGED <<drops, restarts>>
        /\ failures < MaxFailures /\ failures' = failures + 1
    BY <1>5 DEF JoinFails
  <2> HIDE DEF failed
  <2>3. pages' \in [Pages -> Page] /\ PagesKept
    BY <1>1, <2>1, <2>2 DEF PagesKept
  <2>4. LocalTypes'
    BY <1>1, <1>2, <2>2, <2>3 DEF LocalTypes, TypeOK
  <2> QED BY <2>2, <2>3, <2>4, PagesStep
<1> QED BY <1>3, <1>4, <1>5

\* The permission query of a doc:update rejects: no room changes.
LEMMA UpdateFailsStep ==
  ASSUME CInv, NEW p \in Pages, NEW u \in Updates, UpdateFails(p, u)
  PROVE  CInv' /\ [Storage!Next]_(Storage!vars)
<1> DEFINE page == [pages[p] EXCEPT !.outbox = @ \ {u}]
<1>1. pages \in [Pages -> Page] /\ pages[p] \in Page /\ TypeOK
  BY DEF CInv, TypeOK
<1>2. MaxFailures \in Nat /\ DocOf[p] \in Docs
  BY BoundsAreNumbers, PagesOfDocs
<1>3. page \in Page /\ page.parent = pages[p].parent
  BY <1>1 DEF Page, Contents
<1>4. /\ pages' = [pages EXCEPT ![p] = page]
      /\ UNCHANGED <<storage, rooms, joins, asker, drops, restarts>>
      /\ failures < MaxFailures /\ failures' = failures + 1
      /\ lost' \in {lost, lost \cup {u}}
      /\ roomOrder' \in Seq(Docs)
  BY <1>1, <1>2, RoomOrderType DEF UpdateFails
<1> HIDE DEF page
<1>5. pages' \in [Pages -> Page] /\ PagesKept
  BY <1>1, <1>3, <1>4 DEF PagesKept
<1>6. lost' \in Contents
  BY <1>1, <1>4 DEF TypeOK, Contents
<1>7. LocalTypes'
  BY <1>1, <1>2, <1>4, <1>5, <1>6 DEF LocalTypes, TypeOK
<1> QED BY <1>4, <1>5, <1>7, PagesStep

\* The server handles a doc:update: the room's last editor is an editor.
LEMMA UpdateStep ==
  ASSUME CInv, NEW p \in Pages, NEW u \in Updates,
         ApplyUpdate(p, u) \/ RefuseUpdate(p, u)
  PROVE  CInv' /\ [Storage!Next]_(Storage!vars)
<1> DEFINE d == DocOf[p]
           merged == [rooms[d] EXCEPT !.ydoc = @ \cup {u}, !.dirty = TRUE,
                                      !.lastEditorId = UserOf[p]]
<1>1. d \in Docs /\ UserOf[p] \in Users /\ TypeOK
  BY PagesOfDocs DEF CInv
<1>2. /\ UNCHANGED <<storage, joins, asker, faults>>
      /\ roomOrder' \in Seq(Docs)
  BY <1>1, RoomOrderType DEF ApplyUpdate, RefuseUpdate
<1>3. pages' \in [Pages -> Page] /\ PagesKept
  <2> DEFINE sent == [pages[p] EXCEPT !.outbox = @ \ {u}]
  <2>1. pages \in [Pages -> Page] /\ sent \in Page
        /\ sent.parent = pages[p].parent
    BY <1>1 DEF TypeOK, Page, Contents
  <2>2. ASSUME NEW q \in Pages
        PROVE  /\ [pages[q] EXCEPT !.inbox = @ \cup {u}] \in Page
               /\ [pages[q] EXCEPT !.inbox = @ \cup {u}].parent
                    = pages[q].parent
    BY <2>1 DEF Page, Contents
  <2>3. CASE ApplyUpdate(p, u)
    BY <2>1, <2>2, <2>3 DEF ApplyUpdate, Relay, PagesKept
  <2>4. CASE RefuseUpdate(p, u)
    BY <2>1, <2>4 DEF RefuseUpdate, PagesKept
  <2> QED BY <2>3, <2>4
<1>4. /\ merged \in Room
      /\ merged.lastEditorId = UserOf[p]
      /\ merged.latestVersionId = rooms[d].latestVersionId
  <2>1. rooms[d] \in Room /\ rooms[d].ydoc \cup {u} \in Contents
    BY <1>1 DEF TypeOK, Room, Contents
  <2> QED BY <1>1, <2>1 DEF Room
<1>5. \/ p \in Editors /\ rooms' = [rooms EXCEPT ![d] = merged]
      \/ rooms' = rooms
  <2>1. CASE ApplyUpdate(p, u)
    <3>1. rooms' = [rooms EXCEPT ![d] = merged]
      BY <1>1, <2>1 DEF ApplyUpdate, Merge, TypeOK
    <3> QED BY <2>1, <3>1 DEF ApplyUpdate
  <2>2. CASE RefuseUpdate(p, u)
    BY <2>2 DEF RefuseUpdate
  <2> QED BY <2>1, <2>2
<1> HIDE DEF merged
<1>6. LocalTypes'
  BY <1>1, <1>2, <1>3, <1>4, <1>5 DEF LocalTypes, TypeOK, faults
<1>7. RoomEditors'
  BY <1>1, <1>4, <1>5 DEF CInv, TypeOK, RoomEditors, MayEdit
<1>8. \A e \in Docs : rooms'[e].latestVersionId = rooms[e].latestVersionId
  BY <1>1, <1>4, <1>5 DEF TypeOK
<1> QED BY <1>2, <1>3, <1>6, <1>7, <1>8, QuietStep
        DEF CInv, KnownIds, PagesKept

-----------------------------------------------------------------------------
(* The steps that call the storage.                                        *)

\* The ids that rooms, handlers and pages hold after a step are rows already.
IdsStayKnown ==
  /\ \A d \in Docs : rooms'[d].latestVersionId # None =>
       Storage!HasRow(d, rooms'[d].latestVersionId)
  /\ \A p \in Pages : joins'[p].versionId # None =>
       Storage!HasRow(DocOf[p], joins'[p].versionId)
  /\ \A p \in Pages : joins'[p].pc \in {"row", "blob"} =>
       joins'[p].versionId # None
  /\ \A p \in Pages : pages'[p].parent # None =>
       Storage!HasRow(DocOf[p], pages'[p].parent)

\* A step of the storage under which ids, askers and authors stay right.
LEMMA StorageCall ==
  ASSUME CInv, [Storage!Next]_(Storage!vars), versions \subseteq versions',
         LocalTypes', IdsStayKnown,
         AskersKnown', RoomEditors', JobEditors', RowEditors'
  PROVE  CInv'
<1>1. SP!IInv' /\ Storage!TypeOK'
  BY StorageStepIInv DEF CInv
<1>2. KnownIds'
  BY RowsStay DEF IdsStayKnown, KnownIds
<1> QED BY <1>1, <1>2, LocalTypeOK DEF CInv, LocalTypes, TypeOK

\* A job in progress keeps its document and its author until it is free, and
\* the only row that can appear is its own.
LEMMA StepsKeepJobs ==
  ASSUME CInv, NEW j \in Jobs, Storage!Steps(j)
  PROVE  /\ Storage!Next
         /\ \A i \in Jobs \ {j} : jobs'[i] = jobs[i]
         /\ \/ jobs'[j].pc = "idle"
            \/ /\ jobs[j].pc # "idle"
               /\ jobs'[j].docId = jobs[j].docId
               /\ jobs'[j].authorId = jobs[j].authorId
         /\ versions \subseteq versions'
         /\ \A r \in versions' \ versions : /\ jobs[j].pc # "idle"
                                            /\ r.docId = jobs[j].docId
                                            /\ r.authorId = jobs[j].authorId
<1>1. jobs \in [Jobs -> Storage!Job]
  BY DEF CInv, TypeOK, Storage!TypeOK
<1>2. Storage!Next
  BY DEF Storage!Next
<1>3. CASE Storage!BridgeOpens(j)
  BY <1>1, <1>2, <1>3 DEF Storage!BridgeOpens, Storage!Job
<1>4. CASE Storage!BridgeWrites(j)
  BY <1>1, <1>2, <1>4
     DEF Storage!BridgeWrites, Storage!Answer, Storage!Job, Storage!IdleJob
<1>5. CASE Storage!CreateRow(j)
  BY <1>1, <1>2, <1>5 DEF Storage!CreateRow, Storage!RowOf, Storage!Answer,
     Storage!Job, Storage!IdleJob
<1>6. CASE Storage!Publish(j)
  BY <1>1, <1>2, <1>6
     DEF Storage!Publish, Storage!Answer, Storage!Job, Storage!IdleJob
<1>7. CASE Storage!Return(j) \/ Storage!Lost(j)
  BY <1>1, <1>2, <1>7
     DEF Storage!Return, Storage!Lost, Storage!Job, Storage!IdleJob
<1>8. CASE Storage!GiveUp(j)
  BY <1>1, <1>2, <1>8 DEF Storage!GiveUp, Storage!Job, Storage!IdleJob
<1>9. CASE Storage!RestoreFind(j)
  BY <1>1, <1>2, <1>9 DEF Storage!RestoreFind, Storage!Job, Storage!IdleJob
<1>10. CASE Storage!RestoreFetch(j)
  BY <1>1, <1>2, <1>10
     DEF Storage!RestoreFetch, Storage!Persist, Storage!Job
<1> QED BY <1>3, <1>4, <1>5, <1>6, <1>7, <1>8, <1>9, <1>10
        DEF Storage!Steps

\* A call in progress goes on, returns or fails.
LEMMA StepsCall ==
  ASSUME CInv, NEW j \in Jobs, Storage!Steps(j), LocalTypes', IdsStayKnown,
         RoomEditors',
         \A r \in Requests : asker'[r] \in {asker[r], NoAsker}
  PROVE  CInv' /\ [Storage!Next]_(Storage!vars)
<1>1. AskersKnown'
  BY StepsKeepJobs DEF CInv, AskersKnown, NoAsker, Jobs
<1>2. JobEditors'
  BY StepsKeepJobs DEF CInv, JobEditors, MayEdit
<1>3. RowEditors'
  BY StepsKeepJobs DEF CInv, RowEditors, JobEditors, MayEdit
<1> QED BY <1>1, <1>2, <1>3, StepsKeepJobs, StorageCall

\* A call that begins, for an author who may edit the document.
LEMMA NewCall ==
  ASSUME CInv, NEW j \in Jobs, NEW d \in Docs, NEW a \in Users,
         Storage!Next, versions' = versions,
         \A i \in Jobs \ {j} : jobs'[i] = jobs[i],
         jobs'[j].docId = d, jobs'[j].authorId = a, MayEdit(d, a),
         LocalTypes', IdsStayKnown, RoomEditors',
         \A r \in Requests \ {j} : asker'[r] = asker[r],
         j \in Requests => DocOf[asker'[j].page] = d
  PROVE  CInv'
<1>1. AskersKnown'
  BY DEF CInv, AskersKnown, Jobs
<1>2. JobEditors' /\ RowEditors'
  BY DEF CInv, JobEditors, RowEditors, MayEdit
<1> QED BY <1>1, <1>2, StorageCall

\* A save: by an editor, of a parent that is a row.
LEMMA SaveCall ==
  ASSUME CInv, NEW j \in Jobs, NEW pc \in {"idle", "done"}, NEW d \in Docs,
         NEW a \in Users, NEW payload \in Contents,
         NEW parent \in VersionIds \cup {None},
         Storage!Persist(j, pc, d, a, payload, parent), MayEdit(d, a),
         parent # None => Storage!HasRow(d, parent),
         LocalTypes', IdsStayKnown, RoomEditors',
         \A r \in Requests \ {j} : asker'[r] = asker[r],
         j \in Requests => DocOf[asker'[j].page] = d
  PROVE  CInv' /\ [Storage!Next]_(Storage!vars)
<1>1. Storage!Save(j, d, a, payload, parent)
  BY DEF Storage!Save
<1>2. Storage!Next
  BY <1>1 DEF Storage!Next, Storage!Payloads, Storage!MaybeVersion, Contents
<1>3. /\ versions' = versions
      /\ \A i \in Jobs \ {j} : jobs'[i] = jobs[i]
      /\ jobs'[j].docId = d /\ jobs'[j].authorId = a
  BY DEF Storage!Persist, CInv, TypeOK, Storage!TypeOK
<1> QED BY <1>2, <1>3, NewCall

\* The storage steps that Collab takes as they are, and their failures.
LEMMA StorageStepStep ==
  ASSUME CInv, NEW j \in Jobs, StorageStep(j) \/ CallFails(j)
  PROVE  CInv' /\ [Storage!Next]_(Storage!vars)
<1>1. Storage!Steps(j)
  BY DEF StorageStep, CallFails, Storage!Steps
<1>2. UNCHANGED <<rooms, roomOrder, joins, pages, lost, drops, restarts>>
  BY DEF StorageStep, CallFails, faults
<1>3. /\ \A r \in Requests : asker'[r] \in {asker[r], NoAsker}
      /\ asker' \in [Requests -> Asker]
  <2>1. asker \in [Requests -> Asker] /\ NoAsker \in Asker
    BY DEF CInv, TypeOK, Asker, NoAsker
  <2>2. \/ asker' = asker
        \/ asker' = [r \in Requests |-> IF r = j THEN NoAsker ELSE asker[r]]
    BY DEF StorageStep, CallFails
  <2> QED BY <2>1, <2>2
<1>4. failures' \in 0..MaxFailures
  BY BoundsAreNumbers DEF StorageStep, CallFails, faults, CInv, TypeOK
<1>5. LocalTypes'
  BY <1>2, <1>3, <1>4 DEF LocalTypes, CInv, TypeOK
<1>6. RoomEditors' /\ IdsStayKnown
  BY <1>2 DEF CInv, RoomEditors, MayEdit, KnownIds, IdsStayKnown
<1> QED BY <1>1, <1>3, <1>5, <1>6, StepsCall

\* The next room a flush persists has an editor to be its author.
LEMMA FlushFromSaves ==
  ASSUME CInv, NEW f \in Passes, NEW pc \in {"idle", "done"}, NEW i,
         FlushFrom(f, pc, i), LocalTypes', IdsStayKnown, RoomEditors',
         UNCHANGED asker
  PROVE  CInv' /\ [Storage!Next]_(Storage!vars)
<1>1. PICK k \in DOMAIN roomOrder :
        LET d == roomOrder[k]
        IN /\ NeedsFlush(d)
           /\ Storage!Persist(f, pc, d, rooms[d].lastEditorId, rooms[d].ydoc,
                              rooms[d].latestVersionId)
  BY DEF FlushFrom
<1> DEFINE d == roomOrder[k]
<1>2. d \in Docs
  BY <1>1 DEF CInv, TypeOK
<1>3. /\ rooms[d].lastEditorId \in Users
      /\ MayEdit(d, rooms[d].lastEditorId)
      /\ rooms[d].ydoc \in Contents
      /\ rooms[d].latestVersionId \in VersionIds \cup {None}
      /\ rooms[d].latestVersionId # None =>
           Storage!HasRow(d, rooms[d].latestVersionId)
  BY <1>1, <1>2 DEF CInv, TypeOK, Room, NeedsFlush, KnownIds, RoomEditors
<1>4. f \in Jobs /\ f \notin Requests
  BY PassesAreNotRequests DEF Jobs
<1> HIDE DEF d
<1>5. Storage!Persist(f, pc, d, rooms[d].lastEditorId, rooms[d].ydoc,
                      rooms[d].latestVersionId)
  BY <1>1 DEF d
<1> QED BY <1>2, <1>3, <1>4, <1>5, SaveCall

\* The interval fires, or persistDocumentVersion returns to the loop.
LEMMA FlushStep ==
  ASSUME CInv, NEW f \in Passes, FlushStarts(f) \/ FlushReturns(f)
  PROVE  CInv' /\ [Storage!Next]_(Storage!vars)
<1>1. f \in Jobs /\ TypeOK
  BY DEF Jobs, CInv
<1>2. UNCHANGED <<roomOrder, joins, pages, asker, faults>>
  BY DEF FlushStarts, FlushReturns
<1>3. CASE FlushStarts(f)
  <2>1. LocalTypes' /\ RoomEditors' /\ IdsStayKnown
    BY <1>1, <1>2, <1>3 DEF FlushStarts, LocalTypes, TypeOK, faults, CInv,
       RoomEditors, MayEdit, KnownIds, IdsStayKnown
  <2> QED BY <1>2, <1>3, <2>1, FlushFromSaves DEF FlushStarts
<1>4. CASE FlushReturns(f)
  <2> DEFINE d == jobs[f].docId
             room == [rooms[d] EXCEPT !.latestVersionId = jobs[f].versionId,
                                      !.dirty = FALSE]
  <2>1. /\ d \in Docs
        /\ jobs[f].versionId \in VersionIds
        /\ Storage!HasRow(d, jobs[f].versionId)
    BY <1>1, <1>4, StorageFacts DEF FlushReturns
  <2>2. /\ room \in Room
        /\ room.latestVersionId = jobs[f].versionId
        /\ room.lastEditorId = rooms[d].lastEditorId
    <3>1. rooms[d] \in Room
      BY <1>1, <2>1 DEF TypeOK
    <3> QED BY <2>1, <3>1 DEF Room
  <2>3. rooms' = [rooms EXCEPT ![d] = room]
    BY <1>4 DEF FlushReturns
  <2> HIDE DEF room
  <2>4. LocalTypes'
    BY <1>1, <1>2, <2>1, <2>2, <2>3 DEF LocalTypes, TypeOK, faults
  <2>5. RoomEditors'
    <3>1. \A e \in Docs : rooms'[e].lastEditorId = rooms[e].lastEditorId
      BY <1>1, <2>1, <2>2, <2>3 DEF TypeOK
    <3> QED BY <3>1 DEF CInv, RoomEditors, MayEdit
  <2>6. IdsStayKnown
    BY <1>1, <1>2, <2>1, <2>2, <2>3 DEF TypeOK, CInv, KnownIds, IdsStayKnown
  <2>7. CASE \E i : FlushFrom(f, "done", i)
    BY <1>2, <2>4, <2>5, <2>6, <2>7, FlushFromSaves
  <2>8. CASE Storage!Return(f)
    <3>1. Storage!Steps(f)
      BY <2>8 DEF Storage!Steps
    <3> QED BY <1>1, <1>2, <2>4, <2>5, <2>6, <3>1, StepsCall
  <2> QED BY <1>4, <2>7, <2>8 DEF FlushReturns
<1> QED BY <1>3, <1>4

\* POST /save and POST /restore, sent by the page of an editor.
LEMMA RequestStep ==
  ASSUME CInv, NEW r \in Requests, NEW p \in Pages,
         SavePage(r, p) \/ \E v \in VersionIds : RestoreVersion(r, p, v)
  PROVE  CInv' /\ [Storage!Next]_(Storage!vars)
<1> DEFINE d == DocOf[p]
           a == UserOf[p]
<1>1. /\ r \in Jobs
      /\ d \in Docs
      /\ a \in Users
      /\ TypeOK
      /\ p \in Editors
  BY PagesOfDocs DEF Jobs, CInv, SavePage, RestoreVersion
<1>2. MayEdit(d, a)
  BY <1>1 DEF MayEdit
<1>3. UNCHANGED <<rooms, roomOrder, joins, pages, faults>>
  BY DEF SavePage, RestoreVersion
<1>4. PICK reloads \in BOOLEAN :
        asker' = [asker EXCEPT ![r] = [page |-> p, reloads |-> reloads]]
  BY DEF SavePage, RestoreVersion
<1>5. /\ asker' \in [Requests -> Asker]
      /\ \A q \in Requests \ {r} : asker'[q] = asker[q]
      /\ DocOf[asker'[r].page] = d
  BY <1>1, <1>4 DEF TypeOK, Asker
<1>6. LocalTypes'
  BY <1>1, <1>3, <1>5 DEF LocalTypes, TypeOK, faults
<1>7. RoomEditors' /\ IdsStayKnown
  BY <1>3 DEF CInv, RoomEditors, MayEdit, KnownIds, IdsStayKnown
<1>8. CASE SavePage(r, p)
  <2>1. /\ pages[p].ydoc \in Contents
        /\ pages[p].parent \in VersionIds \cup {None}
        /\ pages[p].parent # None => Storage!HasRow(d, pages[p].parent)
    BY <1>1 DEF TypeOK, Page, CInv, KnownIds
  <2>2. Storage!Persist(r, "idle", d, a, pages[p].ydoc, pages[p].parent)
    BY <1>8 DEF SavePage
  <2> HIDE DEF d, a
  <2> QED BY <1>1, <1>2, <1>5, <1>6, <1>7, <2>1, <2>2, SaveCall
<1>9. CASE \E v \in VersionIds : RestoreVersion(r, p, v)
  <2>1. PICK v \in VersionIds : Storage!Restore(r, d, a, v)
    BY <1>9 DEF RestoreVersion
  <2>2. Storage!Next
    BY <1>1, <2>1 DEF Storage!Next
  <2>3. /\ versions' = versions
        /\ \A i \in Jobs \ {r} : jobs'[i] = jobs[i]
        /\ jobs'[r].docId = d /\ jobs'[r].authorId = a
    BY <1>1, <2>1 DEF Storage!Restore, Storage!IdleJob, TypeOK,
       Storage!TypeOK
  <2> HIDE DEF d, a
  <2> QED BY <1>1, <1>2, <1>5, <1>6, <1>7, <2>2, <2>3, NewCall
<1> QED BY <1>8, <1>9

\* The answer to a request: the page's parent is the row just made.
LEMMA RequestReturnsStep ==
  ASSUME CInv, NEW r \in Requests, RequestReturns(r)
  PROVE  CInv' /\ [Storage!Next]_(Storage!vars)
<1>1. r \in Jobs /\ TypeOK /\ Storage!Steps(r)
  BY DEF Jobs, CInv, RequestReturns, Storage!Steps
<1>2. /\ jobs[r].pc = "done"
      /\ jobs[r].versionId \in VersionIds
      /\ Storage!HasRow(jobs[r].docId, jobs[r].versionId)
  BY <1>1, StorageFacts DEF RequestReturns, Storage!Return
<1>3. /\ UNCHANGED <<rooms, roomOrder, joins, faults>>
      /\ asker' = [asker EXCEPT ![r] = NoAsker]
  BY DEF RequestReturns
<1>4. ASSUME NEW p \in Pages
      PROVE  /\ pages'[p] \in Page
             /\ pages'[p].parent # None =>
                  Storage!HasRow(DocOf[p], pages'[p].parent)
  <2> DEFINE saved == [pages[p] EXCEPT !.parent = jobs[r].versionId]
             left == Left(pages[p])
  <2>1. saved \in Page /\ saved.parent = jobs[r].versionId
    BY <1>1, <1>2 DEF TypeOK, Page
  <2>2. left \in Page /\ left.parent = None
    BY <1>1 DEF TypeOK, Left, NewPage, Page, Contents
  <2>3. pages[p] \in Page
    BY <1>1 DEF TypeOK
  <2>4. \/ pages'[p] = pages[p]
        \/ pages'[p] = left
        \/ pages'[p] = saved /\ p = asker[r].page
    BY DEF RequestReturns
  <2> HIDE DEF saved, left
  <2>5. p = asker[r].page => jobs[r].docId = DocOf[p]
    <3>1. p # None
      BY NoneIsNothing
    <3> QED BY <1>2, <3>1 DEF CInv, AskersKnown
  <2> QED BY <1>2, <2>1, <2>2, <2>3, <2>4, <2>5 DEF CInv, KnownIds
<1>5. pages' \in [Pages -> Page]
  <2>1. DOMAIN pages' = Pages /\ pages' = [p \in Pages |-> pages'[p]]
    BY DEF RequestReturns
  <2> QED BY <1>4, <2>1
<1>6. LocalTypes'
  BY <1>1, <1>3, <1>5 DEF LocalTypes, TypeOK, faults, Asker, NoAsker
<1>7. RoomEditors' /\ IdsStayKnown
  BY <1>3, <1>4 DEF CInv, RoomEditors, MayEdit, KnownIds, IdsStayKnown
<1>8. \A q \in Requests : asker'[q] \in {asker[q], NoAsker}
  BY <1>1, <1>3 DEF TypeOK
<1> QED BY <1>1, <1>6, <1>7, <1>8, StepsCall

\* The backend dies: what it stored stays.
LEMMA RestartStep ==
  ASSUME CInv, Restart
  PROVE  CInv' /\ [Storage!Next]_(Storage!vars)
<1>1. TypeOK /\ MaxRestarts \in Nat
  BY BoundsAreNumbers DEF CInv
<1>2. Storage!Next /\ Storage!Crash
  BY DEF Restart, Storage!Next
<1>3. /\ rooms' = [d \in Docs |-> NewRoom]
      /\ roomOrder' = <<>>
      /\ joins' = [p \in Pages |-> NoJoin]
      /\ asker' = [r \in Requests |-> NoAsker]
      /\ restarts < MaxRestarts /\ restarts' = restarts + 1
      /\ UNCHANGED <<lost, failures, drops>>
  BY DEF Restart
<1>4. PICK kept \in [Pages -> Contents] :
        pages' = [p \in Pages |-> Reconnected(pages[p], kept[p])]
  BY DEF Restart
<1>5. ASSUME NEW p \in Pages
      PROVE  /\ pages'[p] \in Page
             /\ pages'[p].parent \in {pages[p].parent, None}
  BY <1>1, <1>4, ReconnectedPage DEF TypeOK
<1>6. pages' \in [Pages -> Page]
  BY <1>4, <1>5
<1>7. LocalTypes'
  BY <1>1, <1>3, <1>6 DEF LocalTypes, TypeOK, Room, NewRoom, Join, NoJoin,
     Asker, NoAsker, Contents
<1>8. RoomEditors' /\ IdsStayKnown /\ AskersKnown'
  BY <1>3, <1>5 DEF RoomEditors, NewRoom, NoJoin, IdsStayKnown, CInv,
     KnownIds, AskersKnown, NoAsker
<1>9. /\ versions' = versions
      /\ \A j \in Jobs : jobs'[j].pc # "idle" =>
           /\ jobs[j].pc # "idle"
           /\ jobs'[j].docId = jobs[j].docId
           /\ jobs'[j].authorId = jobs[j].authorId
  BY <1>1, <1>2 DEF Storage!Crash, TypeOK, Storage!TypeOK, Storage!Job,
     Storage!IdleJob
<1>10. JobEditors' /\ RowEditors'
  BY <1>9 DEF CInv, JobEditors, RowEditors, MayEdit
<1> QED BY <1>2, <1>7, <1>8, <1>9, <1>10, StorageCall

-----------------------------------------------------------------------------
(* The theorems.                                                           *)

\* Every step of the rooms, the flush, the pages and the faults is a step of
\* the storage protocol or does not touch the storage.
LEMMA NextCInv ==
  ASSUME CInv, [Next]_vars
  PROVE  CInv' /\ [Storage!Next]_(Storage!vars)
<1>1. ASSUME NEW p \in Pages, JoinLoaded(p) \/ JoinLoads(p)
      PROVE  CInv' /\ [Storage!Next]_(Storage!vars)
  BY <1>1, JoinStep
<1>2. ASSUME NEW p \in Pages, LoadStep(p)
      PROVE  CInv' /\ [Storage!Next]_(Storage!vars)
  BY <1>2, LoadStepStep
<1>3. ASSUME NEW p \in Pages, LoadFails(p) \/ JoinFails(p) \/ Drop(p)
      PROVE  CInv' /\ [Storage!Next]_(Storage!vars)
  BY <1>3, FaultStep
<1>4. ASSUME NEW p \in Pages, ReceiveAck(p) \/ Close(p)
      PROVE  CInv' /\ [Storage!Next]_(Storage!vars)
  BY <1>4, PageStep
<1>5. ASSUME NEW p \in Pages, NEW u \in Updates,
             \/ Edit(p, u) \/ ReceiveUpdate(p, u)
             \/ ApplyUpdate(p, u) \/ RefuseUpdate(p, u) \/ UpdateFails(p, u)
      PROVE  CInv' /\ [Storage!Next]_(Storage!vars)
  BY <1>5, TextStep, UpdateStep, UpdateFailsStep
<1>6. ASSUME NEW p \in Pages, NEW r \in Requests,
             \/ SavePage(r, p)
             \/ \E v \in VersionIds : RestoreVersion(r, p, v)
      PROVE  CInv' /\ [Storage!Next]_(Storage!vars)
  BY <1>6, RequestStep
<1>7. ASSUME NEW f \in Passes, FlushStarts(f) \/ FlushReturns(f)
      PROVE  CInv' /\ [Storage!Next]_(Storage!vars)
  BY <1>7, FlushStep
<1>8. ASSUME NEW r \in Requests, RequestReturns(r)
      PROVE  CInv' /\ [Storage!Next]_(Storage!vars)
  BY <1>8, RequestReturnsStep
<1>9. ASSUME NEW j \in Jobs, StorageStep(j) \/ CallFails(j)
      PROVE  CInv' /\ [Storage!Next]_(Storage!vars)
  BY <1>9, StorageStepStep
<1>10. CASE Restart
  BY <1>10, RestartStep
<1>11. CASE UNCHANGED vars
  <2>1. LocalTypes' /\ RoomEditors'
    BY <1>11 DEF vars, faults, LocalTypes, CInv, TypeOK, RoomEditors, MayEdit
  <2> QED BY <1>11, <2>1, QuietStep DEF vars, CInv, KnownIds
<1> QED
  BY <1>1, <1>2, <1>3, <1>4, <1>5, <1>6, <1>7, <1>8, <1>9, <1>10, <1>11
     DEF Next

\* The inductive invariant holds in every reachable state.
THEOREM CollabInvariant == Spec => []CInv
<1>1. CInv /\ [Next]_vars => CInv'
  BY NextCInv
<1> QED BY <1>1, InitCInv, PTL DEF Spec

\* Type correctness: rooms, pages, messages, requests and bounds.
THEOREM TypeCorrect == Spec => []TypeOK
<1>1. CInv => TypeOK
  BY DEF CInv
<1> QED BY <1>1, CollabInvariant, PTL

\* The author recorded for a version may edit the document, although the
\* flush takes the author from the last update of anybody and nobody's role
\* is asked when it runs.
THEOREM AuthorsMayEdit == Spec => []AuthorsAreEditors
<1>1. CInv => AuthorsAreEditors
  BY DEF CInv, RowEditors, MayEdit, AuthorsAreEditors
<1> QED BY <1>1, CollabInvariant, PTL

\* The rooms, the flush and the requests implement the storage protocol:
\* with any number of rooms, pages, overlapping flushes and restarts every
\* save names a parent its document has.
THEOREM ImplementsStorage == Spec => UsesStorage
<1>1. Init => Storage!Init
  BY DEF Init
<1>2. CInv /\ [Next]_vars => [Storage!Next]_(Storage!vars)
  BY NextCInv
<1> QED BY <1>1, <1>2, CollabInvariant, PTL DEF Spec, UsesStorage, Storage!Spec

\* So what DocStorageProofs shows of saves and restores alone also holds
\* under the rooms and their flush: heads and parents name rows of their own
\* document, and every row has its whole blob.
THEOREM StorageStaysConsistent ==
  Spec => []/\ Storage!HeadHasRow
            /\ Storage!RowsHaveTheirBlob
            /\ Storage!ParentPrecedesChild
<1>1. CInv => /\ Storage!HeadHasRow
              /\ Storage!RowsHaveTheirBlob
              /\ Storage!ParentPrecedesChild
  BY DEF CInv, SP!IInv, SP!HeadHasRow, SP!RowsHaveTheirBlob,
     SP!ParentPrecedesChild, SP!HasRow, Storage!HeadHasRow,
     Storage!RowsHaveTheirBlob, Storage!ParentPrecedesChild, Storage!HasRow
<1> QED BY <1>1, CollabInvariant, PTL

-----------------------------------------------------------------------------
(* What the rooms, the pages and the versions hold of a document: as long  *)
(* as no connection is lost and the backend is not restarted, a subscribed *)
(* page misses nothing the room has merged, and a room that can be flushed *)
(* has merged what the versions hold.                                      *)


\* A lost connection loses its messages and a restart empties the rooms:
\* what follows is about the time before either.
Undisturbed == drops = 0 /\ restarts = 0

\* Everything the backend has merged into the room of d, will be sent, or was
\* sent and has dropped.
Known(d) == rooms[d].ydoc \cup OnTheirWay(d) \cup lost

\* The current version of d holds what all of its versions hold.
HeadHoldsAll(d) ==
  \A r \in versions : r.docId = d =>
    \E h \in versions : /\ h.docId = d /\ h.versionId = latest[d]
                        /\ r.checksum \subseteq h.checksum

\* Until the room of d is loaded nobody edits, saves or restores d, and the
\* handlers that load it have read the head it still has.
Unloaded(d) ==
  /\ ~rooms[d].loaded /\ ~rooms[d].dirty /\ rooms[d].ydoc = {}
  /\ \A p \in PagesOf(d) :
       /\ pages[p].state \notin {"acked", "ready"}
       /\ ~pages[p].member /\ pages[p].outbox = {}
       /\ joins[p].pc \in {"answered", "row", "blob"} =>
            joins[p].versionId = latest[d]
  /\ \A j \in Jobs : jobs[j].pc # "idle" => jobs[j].docId # d
  /\ HeadHoldsAll(d)

PageKnown(p) ==
  /\ pages[p].ydoc \subseteq Known(DocOf[p])
  /\ pages[p].inbox \subseteq rooms[DocOf[p]].ydoc
  /\ pages[p].state \in {"new", "joining"} => pages[p].outbox = {}
  /\ pages[p].member => pages[p].outbox \subseteq pages[p].ydoc

JobKnown(j) ==
  jobs[j].pc # "idle" => jobs[j].payload \subseteq Known(jobs[j].docId)

RowKnown(r) == rooms[r.docId].loaded => r.checksum \subseteq Known(r.docId)

Contained ==
  /\ \A d \in Docs : rooms[d].loaded \/ Unloaded(d)
  /\ \A p \in Pages : PageKnown(p)
  /\ \A j \in Jobs : JobKnown(j)
  /\ \A r \in versions : RowKnown(r)
  /\ NoGap

\* An update that reached p from the server: on its connection, or merged and
\* sent back by p, which did not type it.
Relayed(p, u) ==
  \/ u \in pages[p].inbox
  \/ u \in pages[p].outbox /\ AuthorOf[u] # p

\* The room of d and all its members have u, or are about to receive it.
Reached(u, d) ==
  /\ u \in rooms[d].ydoc
  /\ \A q \in PagesOf(d) : pages[q].member =>
       u \in pages[q].ydoc \cup pages[q].inbox

\* What was relayed to one page was relayed to all: nobody waits for the
\* message in which that page sends it back.
Spread ==
  \A p \in Pages, u \in Updates : Relayed(p, u) => Reached(u, DocOf[p])

ContentInv == CInv /\ (Undisturbed => Contained /\ Spread)

\* The backend starts over any consistent storage in which nothing is in
\* progress and every document's head holds what its versions hold.
Start ==
  /\ SP!IInv
  /\ RowEditors
  /\ \A j \in Jobs : jobs[j].pc = "idle"
  /\ \A d \in Docs : HeadHoldsAll(d)
  /\ rooms = [d \in Docs |-> NewRoom]
  /\ roomOrder = <<>>
  /\ joins = [p \in Pages |-> NoJoin]
  /\ pages = [p \in Pages |-> NewPage]
  /\ asker = [r \in Requests |-> NoAsker]
  /\ lost = {}
  /\ failures = 0
  /\ drops = 0
  /\ restarts = 0

SpecFromStart == Start /\ [][Next]_vars

-----------------------------------------------------------------------------
(* Starting.                                                               *)

LEMMA StartInv == Start => ContentInv
<1> SUFFICES ASSUME Start PROVE ContentInv
  OBVIOUS
<1>1. Storage!TypeOK
  BY DEF Start, SP!IInv, SP!TypeOK, Storage!TypeOK, SP!Blob, Storage!Blob,
     SP!DocVersion, Storage!DocVersion, SP!MaybeVersion,
     Storage!MaybeVersion, SP!Job, Storage!Job, SP!Read, Storage!Read,
     SP!Payloads, Storage!Payloads, SP!Stages, Storage!Stages
<1>2. TypeOK
  BY <1>1, BoundsAreNumbers
     DEF Start, TypeOK, Room, NewRoom, Join, NoJoin, Page, NewPage, Asker,
     NoAsker, Contents
<1>3. KnownIds /\ AskersKnown /\ RoomEditors /\ JobEditors
  BY DEF Start, KnownIds, AskersKnown, RoomEditors, JobEditors, NewRoom,
     NoJoin, NewPage, NoAsker
<1>4. CInv
  BY <1>2, <1>3 DEF Start, CInv
<1>5. /\ \A d \in Docs : Unloaded(d)
      /\ \A d \in Docs : ~rooms[d].loaded
  BY DEF Start, Unloaded, NewRoom, PagesOf, NewPage, NoJoin
<1>6. \A p \in Pages : PageKnown(p)
  BY DEF Start, PageKnown, NewPage
<1>7. \A j \in Jobs : JobKnown(j)
  BY DEF Start, JobKnown
<1>8. \A r \in versions : RowKnown(r)
  BY <1>2, <1>5 DEF RowKnown, TypeOK, Storage!TypeOK, Storage!DocVersion
<1>9. NoGap
  BY DEF Start, NoGap, NewPage
<1>10. Spread
  BY DEF Start, Spread, Relayed, NewPage
<1> QED BY <1>4, <1>5, <1>6, <1>7, <1>8, <1>9, <1>10
        DEF ContentInv, Contained

\* An empty storage is one the backend can start over.
LEMMA InitStart == Init => Start
<1> SUFFICES ASSUME Init PROVE Start
  OBVIOUS
<1>1. SP!IInv /\ RowEditors
  BY InitCInv DEF CInv
<1>2. versions = {} /\ \A j \in Jobs : jobs[j].pc = "idle"
  BY DEF Init, Storage!Init, Storage!IdleJob
<1> QED BY <1>1, <1>2 DEF Init, Start, HeadHoldsAll

-----------------------------------------------------------------------------
(* What is known only grows.                                               *)

\* An update is known when the room has it or an editor's page has sent it.
LEMMA KnownIs ==
  /\ \A d, u : u \in OnTheirWay(d) <=>
       \E p \in Pages \cap Editors : DocOf[p] = d /\ u \in pages[p].outbox
  /\ \A d, u : (u \in OnTheirWay(d))' <=>
       \E p \in Pages \cap Editors : DocOf[p] = d /\ u \in pages'[p].outbox
BY DEF OnTheirWay, PagesOf

\* What a step does to the documents: the rooms only gain updates, stay
\* loaded, and no update on its way is lost.
KnownGrows ==
  \A d \in Docs : /\ Known(d) \subseteq Known(d)'
                  /\ rooms[d].loaded => rooms'[d].loaded

\* A job or a row that was contained stays so.
LEMMA JobsAndRowsStay ==
  ASSUME CInv, Contained, KnownGrows
  PROVE  /\ \A j \in Jobs : jobs'[j] = jobs[j] => JobKnown(j)'
         /\ \A r \in versions : rooms[r.docId].loaded => RowKnown(r)'
<1>1. /\ \A j \in Jobs : jobs[j].pc # "idle" => jobs[j].docId \in Docs
      /\ \A r \in versions : r.docId \in Docs
  BY StorageFacts DEF CInv, TypeOK, Storage!TypeOK, Storage!DocVersion
<1>2. ASSUME NEW j \in Jobs, jobs'[j] = jobs[j] PROVE JobKnown(j)'
  <2>1. CASE jobs[j].pc = "idle"
    BY <1>2, <2>1 DEF JobKnown
  <2>2. CASE jobs[j].pc # "idle"
    BY <1>1, <1>2, <2>2 DEF Contained, JobKnown, KnownGrows
  <2> QED BY <2>1, <2>2
<1>3. ASSUME NEW r \in versions, rooms[r.docId].loaded PROVE RowKnown(r)'
  BY <1>1, <1>3 DEF Contained, RowKnown, KnownGrows
<1> QED BY <1>2, <1>3

\* The rooms hold what they held, and those not loaded are as dirty.
SameContent ==
  \A d \in Docs : /\ rooms'[d].ydoc = rooms[d].ydoc
                  /\ rooms'[d].loaded = rooms[d].loaded
                  /\ ~rooms[d].loaded => rooms'[d].dirty = rooms[d].dirty

\* A step of one page that leaves the storage and what the rooms hold alone.
LEMMA OnePageContained ==
  ASSUME CInv, Contained, NEW p \in Pages, NEW page,
         pages' = [pages EXCEPT ![p] = page],
         UNCHANGED <<storage, lost>>, SameContent,
         \A q \in Pages : DocOf[q] # DocOf[p] => joins'[q] = joins[q],
         p \in Editors => pages[p].outbox \subseteq page.outbox,
         page.ydoc \subseteq Known(DocOf[p])
           \cup (IF p \in Editors THEN page.outbox ELSE {}),
         page.inbox \subseteq rooms[DocOf[p]].ydoc,
         page.state \in {"new", "joining"} => page.outbox = {},
         page.member =>
           /\ page.outbox \subseteq page.ydoc
           /\ rooms[DocOf[p]].ydoc \subseteq
                page.ydoc \cup page.inbox \cup OnTheirWay(DocOf[p]) \cup lost,
         rooms[DocOf[p]].loaded \/ Unloaded(DocOf[p])'
  PROVE  Contained'
<1>1. /\ DocOf[p] \in Docs
      /\ pages'[p] = page
      /\ \A q \in Pages : q # p => pages'[q] = pages[q]
      /\ \A q \in Pages : DocOf[q] \in Docs
  BY PagesOfDocs DEF CInv, TypeOK
<1>2. \A d \in Docs : OnTheirWay(d) \subseteq OnTheirWay(d)'
  BY <1>1, KnownIs
<1>3. KnownGrows
  BY <1>2 DEF KnownGrows, Known, SameContent
<1>4. \A d \in Docs : rooms'[d].loaded \/ Unloaded(d)'
  <2>1. ASSUME NEW d \in Docs, d # DocOf[p], ~rooms[d].loaded
        PROVE  Unloaded(d)'
    <3>1. Unloaded(d)
      BY <2>1 DEF Contained
    <3>2. \A q \in PagesOf(d) : pages'[q] = pages[q] /\ joins'[q] = joins[q]
      BY <1>1, <2>1 DEF PagesOf
    <3> QED BY <3>1, <3>2 DEF Unloaded, HeadHoldsAll, storage, PagesOf,
               SameContent
  <2> QED BY <1>1, <2>1 DEF SameContent
<1>5. \A q \in Pages : PageKnown(q)'
  <2>1. ASSUME NEW q \in Pages, q # p PROVE PageKnown(q)'
    BY <1>1, <1>3, <2>1 DEF Contained, PageKnown, KnownGrows, SameContent
  <2>2. PageKnown(p)'
    <3>1. p \in Editors => page.outbox \subseteq OnTheirWay(DocOf[p])'
      BY <1>1, KnownIs
    <3>2. Known(DocOf[p]) \subseteq Known(DocOf[p])'
      BY <1>1, <1>3 DEF KnownGrows
    <3>3. page.ydoc \subseteq Known(DocOf[p])'
      BY <3>1, <3>2 DEF Known
    <3> QED BY <1>1, <3>3 DEF PageKnown, SameContent
  <2> QED BY <2>1, <2>2
<1>6. /\ \A j \in Jobs : JobKnown(j)'
      /\ \A r \in versions' : RowKnown(r)'
  <2>1. versions' = versions /\ jobs' = jobs
    BY DEF storage
  <2>2. \A r \in versions : ~rooms[r.docId].loaded => RowKnown(r)'
    <3>1. \A r \in versions : r.docId \in Docs
      BY DEF CInv, TypeOK, Storage!TypeOK, Storage!DocVersion
    <3> QED BY <3>1 DEF RowKnown, SameContent
  <2> QED BY <1>3, <2>1, <2>2, JobsAndRowsStay
<1>7. NoGap'
  <2>1. \A q \in Pages : q # p /\ pages[q].member =>
          rooms[DocOf[q]].ydoc \subseteq
            pages[q].ydoc \cup pages[q].inbox \cup OnTheirWay(DocOf[q])'
              \cup lost
    BY <1>1, <1>2 DEF Contained, NoGap
  <2>2. page.member => rooms[DocOf[p]].ydoc \subseteq
          page.ydoc \cup page.inbox \cup OnTheirWay(DocOf[p])' \cup lost
    BY <1>1, <1>2
  <2> QED BY <1>1, <2>1, <2>2 DEF NoGap, SameContent
<1> QED BY <1>4, <1>5, <1>6, <1>7 DEF Contained

\* A step of a loading handler that changes no page.
LEMMA NoPageContained ==
  ASSUME CInv, Contained, NEW p \in Pages,
         UNCHANGED <<storage, pages, lost>>, SameContent,
         \A q \in Pages : DocOf[q] # DocOf[p] => joins'[q] = joins[q],
         rooms[DocOf[p]].loaded \/ Unloaded(DocOf[p])'
  PROVE  Contained'
<1> DEFINE page == pages[p]
<1>1. pages' = [pages EXCEPT ![p] = page]
  BY DEF CInv, TypeOK
<1>2. PageKnown(p) /\ NoGap
  BY DEF Contained
<1>3. /\ page.ydoc \subseteq Known(DocOf[p])
      /\ page.inbox \subseteq rooms[DocOf[p]].ydoc
      /\ page.state \in {"new", "joining"} => page.outbox = {}
      /\ page.member => /\ page.outbox \subseteq page.ydoc
                        /\ rooms[DocOf[p]].ydoc \subseteq
                             page.ydoc \cup page.inbox
                               \cup OnTheirWay(DocOf[p]) \cup lost
  BY <1>2 DEF PageKnown, NoGap
<1>4. p \in Editors => pages[p].outbox \subseteq page.outbox
  OBVIOUS
<1> HIDE DEF page
<1> QED BY <1>1, <1>3, <1>4, OnePageContained

-----------------------------------------------------------------------------
(* doc:join and loadRoomState.                                             *)

\* An unloaded room stays so while handlers only read.
LEMMA StaysUnloaded ==
  ASSUME CInv, NEW p \in Pages, Unloaded(DocOf[p]), UNCHANGED storage,
         SameContent,
         \A q \in Pages : q # p => joins'[q] = joins[q],
         \A q \in Pages : q # p => pages'[q] = pages[q],
         pages'[p].state \notin {"acked", "ready"},
         ~pages'[p].member, pages'[p].outbox = {},
         joins'[p].pc \in {"answered", "row", "blob"} =>
           joins'[p].versionId = latest[DocOf[p]]
  PROVE  Unloaded(DocOf[p])'
<1>1. DocOf[p] \in Docs
  BY PagesOfDocs
<1> QED BY <1>1 DEF Unloaded, SameContent, storage, PagesOf, HeadHoldsAll

\* A page opens.
LEMMA JoinContained ==
  ASSUME CInv, Contained, NEW p \in Pages, JoinLoaded(p) \/ JoinLoads(p)
  PROVE  Contained'
<1>1. TypeOK /\ DocOf[p] \in Docs /\ pages[p] \in Page /\ PageKnown(p)
  BY PagesOfDocs DEF CInv, TypeOK, Contained
<1>2. UNCHANGED <<storage, lost>> /\ SameContent /\ pages[p].state = "new"
  BY DEF JoinLoaded, JoinLoads, SameContent, faults
<1>3. CASE JoinLoaded(p)
  <2> DEFINE page == [pages[p] EXCEPT !.state = "acked", !.member = TRUE,
                                      !.ydoc = rooms[DocOf[p]].ydoc]
  <2>1. /\ page.state = "acked" /\ page.outbox = {}
        /\ page.ydoc = rooms[DocOf[p]].ydoc
        /\ page.inbox = pages[p].inbox
        /\ pages[p].outbox = {}
    BY <1>1, <1>2 DEF Page, PageKnown
  <2>2. /\ pages' = [pages EXCEPT ![p] = page]
        /\ joins' = joins
        /\ rooms[DocOf[p]].loaded
    BY <1>3 DEF JoinLoaded
  <2>3. page.inbox \subseteq rooms[DocOf[p]].ydoc
    BY <1>1, <2>1 DEF PageKnown
  <2> HIDE DEF page
  <2>4. page.ydoc \subseteq Known(DocOf[p])
    BY <2>1 DEF Known
  <2> QED BY <1>2, <2>1, <2>2, <2>3, <2>4, OnePageContained
<1>4. CASE JoinLoads(p)
  <2> DEFINE page == [pages[p] EXCEPT !.state = "joining"]
  <2>1. /\ page.state = "joining" /\ page.outbox = {}
        /\ page.ydoc = pages[p].ydoc
        /\ page.inbox = pages[p].inbox
        /\ page.member = pages[p].member
        /\ pages[p].outbox = {}
    BY <1>1, <1>2 DEF Page, PageKnown
  <2>2. /\ pages' = [pages EXCEPT ![p] = page]
        /\ \A q \in Pages : q # p => joins'[q] = joins[q]
        /\ joins'[p].pc = "doc"
    BY <1>1, <1>4 DEF JoinLoads, TypeOK, Join
  <2> HIDE DEF page
  <2>3. Unloaded(DocOf[p])'
    <3>1. Unloaded(DocOf[p])
      BY <1>1, <1>4 DEF JoinLoads, Contained
    <3>2. ~pages[p].member
      BY <3>1 DEF Unloaded, PagesOf
    <3>3. /\ pages'[p] = page
          /\ \A q \in Pages : q # p => pages'[q] = pages[q]
      BY <1>1, <2>2 DEF TypeOK
    <3> QED BY <1>2, <2>1, <2>2, <3>1, <3>2, <3>3, StaysUnloaded
  <2>4. /\ page.ydoc \subseteq Known(DocOf[p])
        /\ page.inbox \subseteq rooms[DocOf[p]].ydoc
        /\ page.member => rooms[DocOf[p]].ydoc \subseteq
             page.ydoc \cup page.inbox \cup OnTheirWay(DocOf[p]) \cup lost
    BY <1>1, <2>1 DEF PageKnown, NoGap, Contained
  <2> QED BY <1>2, <2>1, <2>2, <2>3, <2>4, OnePageContained
<1> QED BY <1>3, <1>4

\* The handler ends: what it merges is known, or the room holds nothing yet
\* and is filled with what the versions hold.
LEMMA FinishJoinContained ==
  ASSUME CInv, Contained, NEW p \in Pages, NEW room, FinishJoin(p, room),
         UNCHANGED <<storage, lost>>,
         room.loaded,
         rooms[DocOf[p]].ydoc \subseteq room.ydoc,
         rooms[DocOf[p]].loaded => room.ydoc \subseteq Known(DocOf[p]),
         ~rooms[DocOf[p]].loaded => Stored(DocOf[p]) \subseteq room.ydoc
  PROVE  Contained'
<1> DEFINE d == DocOf[p]
<1>1. /\ d \in Docs
      /\ rooms'[d] = room
      /\ \A e \in Docs : e # d => rooms'[e] = rooms[e]
      /\ \A q \in Pages : q # p => joins'[q] = joins[q]
      /\ \A q \in Pages : q # p => pages'[q] = pages[q]
      /\ \A q \in Pages : DocOf[q] \in Docs
  BY PagesOfDocs DEF FinishJoin, CInv, TypeOK
<1>2. /\ pages'[p].outbox = pages[p].outbox
      /\ pages'[p].inbox = pages[p].inbox
      /\ \/ pages'[p] = pages[p]
         \/ /\ pages'[p].ydoc = room.ydoc /\ pages'[p].state = "acked"
            /\ pages[p].state = "joining"
  <2>1. pages \in [Pages -> Page] /\ pages[p] \in Page
    BY DEF CInv, TypeOK
  <2> QED BY <2>1 DEF FinishJoin, Page
<1>3. \A e : OnTheirWay(e)' = OnTheirWay(e)
  <2>1. \A q \in Pages : pages'[q].outbox = pages[q].outbox
    BY <1>1, <1>2
  <2> QED BY <2>1 DEF OnTheirWay, PagesOf
<1>4. KnownGrows
  BY <1>1, <1>3 DEF KnownGrows, Known
<1>5. \A e \in Docs : rooms'[e].loaded \/ Unloaded(e)'
  <2>1. ASSUME NEW e \in Docs, e # d, ~rooms[e].loaded PROVE Unloaded(e)'
    <3>1. Unloaded(e)
      BY <2>1 DEF Contained
    <3>2. \A q \in PagesOf(e) : pages'[q] = pages[q] /\ joins'[q] = joins[q]
      BY <1>1, <2>1 DEF PagesOf
    <3> QED BY <1>1, <2>1, <3>1, <3>2
            DEF Unloaded, HeadHoldsAll, storage, PagesOf
  <2> QED BY <1>1, <2>1
<1>6. \A q \in Pages : PageKnown(q)'
  <2>1. ASSUME NEW q \in Pages, q # p PROVE PageKnown(q)'
    BY <1>1, <1>4, <2>1 DEF Contained, PageKnown, KnownGrows
  <2>2. PageKnown(p)'
    <3>1. PageKnown(p)
      BY DEF Contained
    <3>2. pages'[p].inbox \subseteq rooms'[d].ydoc
      BY <1>1, <1>2, <3>1 DEF PageKnown
    <3>3. pages'[p].ydoc \subseteq Known(d)'
      BY <1>1, <1>2, <1>4, <3>1 DEF PageKnown, KnownGrows, Known
    <3> QED BY <1>2, <3>1, <3>2, <3>3 DEF PageKnown
  <2> QED BY <2>1, <2>2
<1>7. \A j \in Jobs : JobKnown(j)'
  BY <1>4, JobsAndRowsStay DEF storage
<1>8. \A r \in versions' : RowKnown(r)'
  <2>1. ASSUME NEW r \in versions, ~rooms[r.docId].loaded, r.docId = d
        PROVE  RowKnown(r)'
    BY <1>1, <2>1 DEF RowKnown, Known, Stored
  <2>2. ASSUME NEW r \in versions, ~rooms[r.docId].loaded, r.docId # d
        PROVE  RowKnown(r)'
    <3>1. r.docId \in Docs
      BY DEF CInv, TypeOK, Storage!TypeOK, Storage!DocVersion
    <3> QED BY <1>1, <2>2, <3>1 DEF RowKnown
  <2> QED BY <1>4, <2>1, <2>2, JobsAndRowsStay DEF storage
<1>9. NoGap'
  <2>1. ASSUME NEW q \in Pages, pages'[q].member, pages'[q] = pages[q]
        PROVE  rooms'[DocOf[q]].ydoc \subseteq
                 pages'[q].ydoc \cup pages'[q].inbox \cup OnTheirWay(DocOf[q])'
                   \cup lost
    <3>1. rooms[DocOf[q]].ydoc \subseteq
            pages[q].ydoc \cup pages[q].inbox \cup OnTheirWay(DocOf[q])
              \cup lost
      BY <1>1, <2>1 DEF NoGap, Contained
    <3>2. CASE DocOf[q] # d
      BY <1>1, <1>3, <2>1, <3>1, <3>2
    <3>3. CASE DocOf[q] = d
      <4>1. rooms[d].loaded
        BY <1>1, <2>1, <3>3 DEF Contained, Unloaded, PagesOf
      <4>2. /\ rooms'[DocOf[q]].ydoc = room.ydoc
            /\ room.ydoc \subseteq rooms[DocOf[q]].ydoc
                 \cup OnTheirWay(DocOf[q]) \cup lost
        BY <1>1, <3>3, <4>1 DEF Known
      <4> QED BY <1>1, <1>3, <2>1, <3>1, <4>2
    <3> QED BY <3>2, <3>3
  <2>2. pages'[p] = pages[p] \/ rooms'[d].ydoc \subseteq pages'[p].ydoc
    BY <1>1, <1>2
  <2> QED BY <1>1, <2>1, <2>2 DEF NoGap
<1> QED BY <1>5, <1>6, <1>7, <1>8, <1>9 DEF Contained

\* What the blob of a version of d holds, the versions of d hold.
LEMMA BlobIsStored ==
  ASSUME CInv, NEW d \in Docs, NEW v, Storage!HasRow(d, v)
  PROVE  /\ blobs[v].data \subseteq Stored(d)
         /\ \A r \in versions : r.versionId = v => blobs[v].data = r.checksum
<1>1. \A r \in versions : r.versionId = v => blobs[v].data = r.checksum
  <2>1. ASSUME NEW r \in versions, r.versionId = v
        PROVE  blobs[v].data = r.checksum
    <3>1. blobs[v] = [state |-> "whole", data |-> r.checksum]
      BY <2>1 DEF CInv, SP!IInv, SP!RowsHaveTheirBlob
    <3> QED BY <3>1
  <2> QED BY <2>1
<1>2. PICK r \in versions : r.docId = d /\ r.versionId = v
  BY DEF Storage!HasRow
<1>3. r.checksum \subseteq Stored(d)
  BY <1>2 DEF Stored
<1> QED BY <1>1, <1>2, <1>3

\* The versions of a loaded document are known.
LEMMA StoredIsKnown ==
  ASSUME Contained, NEW d \in Docs, rooms[d].loaded
  PROVE  Stored(d) \subseteq Known(d)
BY DEF Contained, RowKnown, Stored

\* loadRoomState goes on to its next await, or ends.
LEMMA LoadContained ==
  ASSUME CInv, Contained, NEW p \in Pages, LoadStep(p)
  PROVE  Contained'
<1> DEFINE d == DocOf[p]
           old == rooms[d]
<1>1. /\ d \in Docs /\ old \in Room
      /\ rooms \in [Docs -> Room]
      /\ joins \in [Pages -> Join] /\ joins[p] \in Join
      /\ joins[p].pc \in {"row", "blob"} =>
           joins[p].versionId # None /\ Storage!HasRow(d, joins[p].versionId)
  BY PagesOfDocs DEF CInv, TypeOK, KnownIds
<1>2. old.loaded \/ Unloaded(d)
  BY <1>1 DEF Contained
<1>3. Unloaded(d) => /\ old.ydoc = {} /\ HeadHoldsAll(d)
                     /\ pages[p].state \notin {"acked", "ready"}
                     /\ ~pages[p].member /\ pages[p].outbox = {}
                     /\ joins[p].pc \in {"answered", "row", "blob"} =>
                          joins[p].versionId = latest[d]
  BY DEF Unloaded, PagesOf
<1>4. CASE LoadReadsDoc(p)
  <2>1. /\ UNCHANGED <<storage, rooms, pages, lost>>
        /\ \A q \in Pages : q # p => joins'[q] = joins[q]
        /\ joins'[p].versionId = latest[d]
    BY <1>1, <1>4 DEF LoadReadsDoc, faults
  <2>2. SameContent
    BY <2>1 DEF SameContent
  <2>3. Unloaded(d) => Unloaded(d)'
    BY <1>3, <2>1, <2>2, StaysUnloaded
  <2> QED BY <1>2, <2>1, <2>2, <2>3, NoPageContained
<1>5. CASE LoadGetsDoc(p)
  <2> DEFINE room == [old EXCEPT !.latestVersionId = joins[p].versionId]
  <2>1. joins[p].pc = "answered" /\ UNCHANGED <<storage, lost>>
    BY <1>5 DEF LoadGetsDoc, faults
  <2>2. CASE /\ joins[p].versionId = None
             /\ FinishJoin(p, [room EXCEPT !.loaded = TRUE])
    <3>1. /\ [room EXCEPT !.loaded = TRUE].loaded
          /\ [room EXCEPT !.loaded = TRUE].ydoc = old.ydoc
      BY <1>1 DEF Room
    <3>2. Unloaded(d) => Stored(d) = {}
      <4>1. Unloaded(d) => latest[d] = None
        BY <1>3, <2>1, <2>2
      <4>2. \A h \in versions : h.versionId # None
        BY NoneIsNothing
           DEF CInv, TypeOK, Storage!TypeOK, Storage!DocVersion
      <4> QED BY <1>3, <4>1, <4>2 DEF HeadHoldsAll, Stored
    <3> HIDE DEF room
    <3> QED BY <1>2, <2>1, <2>2, <3>1, <3>2, FinishJoinContained DEF Known
  <2>3. CASE /\ rooms' = [rooms EXCEPT ![DocOf[p]] = room]
             /\ joins' = [joins EXCEPT ![p].pc = "row"]
             /\ UNCHANGED pages
    <3>1. SameContent
      BY <1>1, <2>3 DEF SameContent, Room
    <3>2. /\ \A q \in Pages : q # p => joins'[q] = joins[q]
          /\ joins'[p].versionId = joins[p].versionId
      BY <1>1, <2>3 DEF Join
    <3>3. Unloaded(d) => Unloaded(d)'
      BY <1>3, <2>1, <2>3, <3>1, <3>2, StaysUnloaded
    <3> QED BY <1>2, <2>1, <2>3, <3>1, <3>2, <3>3, NoPageContained
  <2> QED BY <1>5, <2>2, <2>3 DEF LoadGetsDoc
<1>6. CASE LoadGetsRow(p)
  <2>1. /\ joins' = [joins EXCEPT ![p].pc = "blob"]
        /\ UNCHANGED <<storage, rooms, pages, lost>>
        /\ joins[p].pc = "row"
    BY <1>1, <1>6 DEF LoadGetsRow, faults
  <2>2. SameContent
    BY <2>1 DEF SameContent
  <2>3. /\ \A q \in Pages : q # p => joins'[q] = joins[q]
        /\ joins'[p].versionId = joins[p].versionId
    BY <1>1, <2>1 DEF Join
  <2>4. Unloaded(d) => Unloaded(d)'
    BY <1>3, <2>1, <2>2, <2>3, StaysUnloaded
  <2> QED BY <1>2, <2>1, <2>2, <2>3, <2>4, NoPageContained
<1>7. CASE LoadGetsBlob(p)
  <2> DEFINE v == joins[p].versionId
             room == [old EXCEPT !.ydoc = @ \cup blobs[v].data,
                                 !.loaded = TRUE]
  <2>1. /\ joins[p].pc = "blob" /\ UNCHANGED <<storage, lost>>
        /\ FinishJoin(p, room)
    BY <1>7 DEF LoadGetsBlob, faults
  <2>2. room.loaded /\ room.ydoc = old.ydoc \cup blobs[v].data
    BY <1>1 DEF Room
  <2>3. Storage!HasRow(d, v)
    BY <1>1, <2>1
  <2>4. old.loaded => room.ydoc \subseteq Known(d)
    BY <1>1, <2>2, <2>3, BlobIsStored, StoredIsKnown DEF Known
  <2>5. Unloaded(d) => Stored(d) \subseteq room.ydoc
    <3>1. ASSUME Unloaded(d), NEW r \in versions, r.docId = d
          PROVE  r.checksum \subseteq blobs[v].data
      <4>1. PICK h \in versions : /\ h.docId = d /\ h.versionId = v
                                  /\ r.checksum \subseteq h.checksum
        BY <1>3, <2>1, <3>1 DEF HeadHoldsAll
      <4> QED BY <1>1, <2>3, <4>1, BlobIsStored
    <3> QED BY <2>2, <3>1 DEF Stored
  <2> HIDE DEF room
  <2> QED BY <1>2, <2>1, <2>2, <2>4, <2>5, FinishJoinContained
<1> QED BY <1>4, <1>5, <1>6, <1>7 DEF LoadStep

\* An await of doc:join rejects: the room stays as it is.
LEMMA JoinFailsContained ==
  ASSUME CInv, Contained, NEW p \in Pages, LoadFails(p) \/ JoinFails(p)
  PROVE  Contained'
<1>1. /\ pages \in [Pages -> Page] /\ pages[p] \in Page
      /\ joins \in [Pages -> Join]
      /\ PageKnown(p) /\ NoGap
      /\ DocOf[p] \in Docs
      /\ rooms[DocOf[p]].loaded \/ Unloaded(DocOf[p])
  BY PagesOfDocs DEF CInv, TypeOK, Contained
<1>2. PICK s \in {pages[p].state, "failed"} :
        pages' = [pages EXCEPT ![p].state = s]
  BY DEF LoadFails, JoinFails
<1> DEFINE page == [pages[p] EXCEPT !.state = s]
<1>3. /\ page.outbox = pages[p].outbox /\ page.ydoc = pages[p].ydoc
      /\ page.inbox = pages[p].inbox /\ page.member = pages[p].member
      /\ page.state \in {pages[p].state, "failed"}
  BY <1>1 DEF Page
<1>4. /\ pages' = [pages EXCEPT ![p] = page]
      /\ UNCHANGED <<storage, rooms, lost>>
      /\ joins'[p].pc = "idle" \/ joins'[p] = joins[p]
      /\ \A q \in Pages : q # p => joins'[q] = joins[q]
  BY <1>1, <1>2 DEF LoadFails, JoinFails, NoJoin
<1> HIDE DEF page
<1>5. SameContent
  BY <1>4 DEF SameContent
<1>6. Unloaded(DocOf[p]) => Unloaded(DocOf[p])'
  <2>1. Unloaded(DocOf[p]) =>
          /\ pages[p].state \notin {"acked", "ready"}
          /\ ~pages[p].member /\ pages[p].outbox = {}
          /\ joins[p].pc \in {"answered", "row", "blob"} =>
               joins[p].versionId = latest[DocOf[p]]
    BY DEF Unloaded, PagesOf
  <2> QED BY <1>1, <1>3, <1>4, <1>5, <2>1, StaysUnloaded
<1> QED BY <1>1, <1>3, <1>4, <1>5, <1>6, OnePageContained
        DEF PageKnown, NoGap

-----------------------------------------------------------------------------
(* The page and doc:update.                                                *)

\* The answer to doc:join arrives, or the page is left.
LEMMA PageContained ==
  ASSUME CInv, Contained, NEW p \in Pages, ReceiveAck(p) \/ Close(p)
  PROVE  Contained'
<1>1. /\ pages \in [Pages -> Page] /\ pages[p] \in Page
      /\ PageKnown(p) /\ NoGap
      /\ DocOf[p] \in Docs
      /\ rooms[DocOf[p]].loaded \/ Unloaded(DocOf[p])
  BY PagesOfDocs DEF CInv, TypeOK, Contained
<1>2. UNCHANGED <<storage, rooms, joins, lost>> /\ SameContent
  BY DEF ReceiveAck, Close, SameContent, faults
<1>3. Unloaded(DocOf[p]) => /\ pages[p].state \notin {"acked", "ready"}
                            /\ pages[p].outbox = {}
                            /\ joins[p].pc \in {"answered", "row", "blob"} =>
                                 joins[p].versionId = latest[DocOf[p]]
  BY DEF Unloaded, PagesOf
<1>4. CASE ReceiveAck(p)
  <2> DEFINE page == [pages[p] EXCEPT !.state = "ready"]
  <2>1. /\ page.outbox = pages[p].outbox /\ page.ydoc = pages[p].ydoc
        /\ page.inbox = pages[p].inbox /\ page.member = pages[p].member
        /\ page.state = "ready"
    BY <1>1 DEF Page
  <2>2. /\ pages' = [pages EXCEPT ![p] = page]
        /\ pages[p].state = "acked"
    BY <1>4 DEF ReceiveAck
  <2> HIDE DEF page
  <2> QED BY <1>1, <1>2, <1>3, <2>1, <2>2, OnePageContained
          DEF PageKnown, NoGap
<1>5. CASE Close(p)
  <2> DEFINE page == Left(pages[p])
  <2>1. /\ page.outbox = pages[p].outbox /\ page.ydoc = {}
        /\ page.inbox = {} /\ ~page.member /\ page.state = "closed"
    BY <1>1 DEF Left, NewPage
  <2>2. pages' = [pages EXCEPT ![p] = page]
    BY <1>5 DEF Close
  <2> HIDE DEF page
  <2>3. Unloaded(DocOf[p]) => Unloaded(DocOf[p])'
    BY <1>1, <1>2, <1>3, <2>1, <2>2, StaysUnloaded
  <2> QED BY <1>1, <1>2, <2>1, <2>2, <2>3, OnePageContained
<1> QED BY <1>4, <1>5

\* The user types, or an update of somebody else arrives.
LEMMA TextContained ==
  ASSUME CInv, Contained, NEW p \in Pages, NEW u \in Updates,
         Edit(p, u) \/ ReceiveUpdate(p, u)
  PROVE  Contained'
<1>1. /\ pages \in [Pages -> Page] /\ pages[p] \in Page
      /\ PageKnown(p) /\ NoGap
      /\ DocOf[p] \in Docs
      /\ rooms[DocOf[p]].loaded \/ Unloaded(DocOf[p])
  BY PagesOfDocs DEF CInv, TypeOK, Contained
<1>2. UNCHANGED <<storage, rooms, joins, lost>> /\ SameContent
  BY DEF Edit, ReceiveUpdate, SameContent, faults
<1>3. pages[p].state = "ready" /\ rooms[DocOf[p]].loaded
  BY <1>1 DEF Edit, ReceiveUpdate, Unloaded, PagesOf
<1>4. pages[p].member =>
        /\ pages[p].outbox \subseteq pages[p].ydoc
        /\ rooms[DocOf[p]].ydoc \subseteq pages[p].ydoc
             \cup pages[p].inbox \cup OnTheirWay(DocOf[p]) \cup lost
  BY <1>1 DEF PageKnown, NoGap
<1>5. CASE Edit(p, u)
  <2> DEFINE page == [pages[p] EXCEPT !.ydoc = @ \cup {u},
                                      !.outbox = @ \cup {u}]
  <2>1. /\ page.outbox = pages[p].outbox \cup {u}
        /\ page.ydoc = pages[p].ydoc \cup {u}
        /\ page.inbox = pages[p].inbox /\ page.member = pages[p].member
        /\ page.state = "ready"
    BY <1>1, <1>3 DEF Page
  <2>2. pages' = [pages EXCEPT ![p] = page] /\ p \in Editors
    BY <1>1, <1>5 DEF Edit
  <2> HIDE DEF page
  <2>3. /\ page.ydoc \subseteq Known(DocOf[p]) \cup page.outbox
        /\ page.inbox \subseteq rooms[DocOf[p]].ydoc
    BY <1>1, <2>1 DEF PageKnown
  <2> QED BY <1>2, <1>3, <1>4, <2>1, <2>2, <2>3, OnePageContained
<1>6. CASE ReceiveUpdate(p, u)
  <2> DEFINE page == [pages[p] EXCEPT !.inbox = @ \ {u}, !.ydoc = @ \cup {u},
                        !.outbox = IF u \in pages[p].ydoc THEN @
                                   ELSE @ \cup {u}]
  <2>1. /\ pages[p].outbox \subseteq page.outbox
        /\ page.outbox \subseteq pages[p].outbox \cup {u}
        /\ page.ydoc = pages[p].ydoc \cup {u}
        /\ page.inbox = pages[p].inbox \ {u}
        /\ page.member = pages[p].member
        /\ page.state = "ready"
    BY <1>1, <1>3 DEF Page
  <2>2. pages' = [pages EXCEPT ![p] = page] /\ u \in pages[p].inbox
    BY <1>1, <1>6 DEF ReceiveUpdate
  <2> HIDE DEF page
  <2>3. /\ page.ydoc \subseteq Known(DocOf[p])
        /\ page.inbox \subseteq rooms[DocOf[p]].ydoc
    BY <1>1, <2>1, <2>2 DEF PageKnown, Known
  <2> QED BY <1>2, <1>3, <1>4, <2>1, <2>2, <2>3, OnePageContained
<1> QED BY <1>5, <1>6

\* A viewer's message is dropped: nobody counted on it.
LEMMA RefuseContained ==
  ASSUME CInv, Contained, NEW p \in Pages, NEW u \in Updates,
         RefuseUpdate(p, u)
  PROVE  Contained'
<1> DEFINE page == [pages[p] EXCEPT !.outbox = @ \ {u}]
<1>1. /\ pages \in [Pages -> Page] /\ pages[p] \in Page
      /\ PageKnown(p) /\ NoGap
      /\ DocOf[p] \in Docs
      /\ rooms[DocOf[p]].loaded \/ Unloaded(DocOf[p])
  BY PagesOfDocs DEF CInv, TypeOK, Contained
<1>2. /\ UNCHANGED <<storage, rooms, joins, lost>> /\ SameContent
      /\ pages' = [pages EXCEPT ![p] = page]
      /\ p \notin Editors
      /\ u \in pages[p].outbox
  BY DEF RefuseUpdate, SameContent, faults
<1>3. rooms[DocOf[p]].loaded
  BY <1>1, <1>2 DEF Unloaded, PagesOf
<1>4. /\ page.outbox = pages[p].outbox \ {u} /\ page.ydoc = pages[p].ydoc
      /\ page.inbox = pages[p].inbox /\ page.member = pages[p].member
      /\ page.state = pages[p].state
  BY <1>1 DEF Page
<1> HIDE DEF page
<1> QED BY <1>1, <1>2, <1>3, <1>4, OnePageContained DEF PageKnown, NoGap

\* The server merges an editor's message and relays it to every other page
\* of the room, which no longer has to wait for it.
LEMMA ApplyContained ==
  ASSUME CInv, Contained, NEW p \in Pages, NEW u \in Updates,
         ApplyUpdate(p, u)
  PROVE  Contained'
<1> DEFINE d == DocOf[p]
<1>1. /\ pages \in [Pages -> Page]
      /\ rooms \in [Docs -> Room]
      /\ d \in Docs /\ \A q \in Pages : DocOf[q] \in Docs
      /\ u \in pages[p].outbox /\ p \in Editors
      /\ UNCHANGED <<storage, joins, lost>>
  BY PagesOfDocs DEF CInv, TypeOK, ApplyUpdate, faults
<1>2. rooms[d].loaded
  BY <1>1 DEF Contained, Unloaded, PagesOf
<1>3. /\ rooms'[d].ydoc = rooms[d].ydoc \cup {u}
      /\ \A e \in Docs : rooms'[e].loaded = rooms[e].loaded
      /\ \A e \in Docs : e # d => rooms'[e] = rooms[e]
  BY <1>1 DEF ApplyUpdate, Merge, Room
<1>4. ASSUME NEW q \in Pages
      PROVE  /\ pages'[q].ydoc = pages[q].ydoc
             /\ pages'[q].state = pages[q].state
             /\ pages'[q].member = pages[q].member
             /\ q = p => /\ pages'[q].outbox = pages[q].outbox \ {u}
                         /\ pages'[q].inbox = pages[q].inbox
             /\ q # p => pages'[q].outbox = pages[q].outbox
             /\ q # p /\ DocOf[q] = d /\ pages[q].member =>
                  pages'[q].inbox = pages[q].inbox \cup {u}
             /\ DocOf[q] # d \/ ~pages[q].member =>
                  pages'[q].inbox = pages[q].inbox
  <2>1. pages[q] \in Page
    BY <1>1
  <2> QED BY <2>1 DEF ApplyUpdate, Relay, Members, Page
<1>5. /\ \A e \in Docs : OnTheirWay(e) \subseteq OnTheirWay(e)' \cup {u}
      /\ \A e \in Docs : e # d => OnTheirWay(e) \subseteq OnTheirWay(e)'
  BY <1>4, KnownIs
<1>6. KnownGrows
  BY <1>1, <1>3, <1>5 DEF KnownGrows, Known
<1>7. \A e \in Docs : rooms'[e].loaded \/ Unloaded(e)'
  <2>1. ASSUME NEW e \in Docs, ~rooms[e].loaded PROVE Unloaded(e)'
    <3>1. Unloaded(e) /\ e # d
      BY <1>2, <2>1 DEF Contained
    <3>2. \A q \in PagesOf(e) : /\ pages'[q].state = pages[q].state
                                /\ pages'[q].member = pages[q].member
                                /\ pages'[q].outbox = pages[q].outbox
      BY <1>4, <3>1 DEF PagesOf
    <3> QED BY <1>1, <1>3, <3>1, <3>2
            DEF Unloaded, HeadHoldsAll, storage, PagesOf
  <2> QED BY <1>3, <2>1
<1>8. \A q \in Pages : PageKnown(q)'
  <2>1. ASSUME NEW q \in Pages PROVE PageKnown(q)'
    <3>1. PageKnown(q) /\ Known(DocOf[q]) \subseteq Known(DocOf[q])'
      BY <1>1, <1>6 DEF Contained, KnownGrows
    <3>2. pages'[q].inbox \subseteq rooms'[DocOf[q]].ydoc
      BY <1>1, <1>3, <1>4, <3>1 DEF PageKnown
    <3>3. pages'[q].outbox \subseteq pages[q].outbox
      BY <1>4
    <3> QED BY <1>4, <3>1, <3>2, <3>3 DEF PageKnown
  <2> QED BY <2>1
<1>9. /\ \A j \in Jobs : JobKnown(j)'
      /\ \A r \in versions' : RowKnown(r)'
  <2>1. versions' = versions /\ jobs' = jobs
    BY <1>1 DEF storage
  <2>2. \A r \in versions : ~rooms[r.docId].loaded => RowKnown(r)'
    <3>1. \A r \in versions : r.docId \in Docs
      BY DEF CInv, TypeOK, Storage!TypeOK, Storage!DocVersion
    <3> QED BY <1>3, <3>1 DEF RowKnown
  <2> QED BY <1>6, <2>1, <2>2, JobsAndRowsStay
<1>10. NoGap'
  <2>1. ASSUME NEW q \in Pages, pages'[q].member
        PROVE  rooms'[DocOf[q]].ydoc \subseteq
                 pages'[q].ydoc \cup pages'[q].inbox \cup OnTheirWay(DocOf[q])'
                   \cup lost'
    <3>1. /\ rooms[DocOf[q]].ydoc \subseteq
               pages[q].ydoc \cup pages[q].inbox \cup OnTheirWay(DocOf[q])
                 \cup lost
          /\ pages[q].outbox \subseteq pages[q].ydoc
      BY <1>4, <2>1 DEF Contained, NoGap, PageKnown
    <3>2. CASE DocOf[q] # d
      BY <1>1, <1>3, <1>4, <1>5, <3>1, <3>2
    <3>3. CASE DocOf[q] = d
      <4>1. u \in pages'[q].ydoc \cup pages'[q].inbox
        BY <1>1, <1>4, <2>1, <3>1, <3>3
      <4>2. pages[q].inbox \subseteq pages'[q].inbox
        BY <1>4, <2>1, <3>3
      <4> QED BY <1>1, <1>3, <1>4, <1>5, <3>1, <3>3, <4>1, <4>2
    <3> QED BY <3>2, <3>3
  <2> QED BY <2>1 DEF NoGap
<1> QED BY <1>7, <1>8, <1>9, <1>10 DEF Contained

\* An editor's message is dropped: it is recorded as lost, or everybody who
\* was to have the update has it.
LEMMA UpdateFailsContained ==
  ASSUME CInv, Contained, Spread, NEW p \in Pages, NEW u \in Updates,
         UpdateFails(p, u)
  PROVE  Contained'
<1> DEFINE d == DocOf[p]
<1>1. /\ pages \in [Pages -> Page]
      /\ d \in Docs /\ \A q \in Pages : DocOf[q] \in Docs
      /\ u \in pages[p].outbox
      /\ UNCHANGED <<storage, rooms, joins>>
      /\ lost \subseteq lost'
  BY PagesOfDocs DEF CInv, TypeOK, UpdateFails
<1>2. ASSUME NEW q \in Pages
      PROVE  /\ pages'[q].ydoc = pages[q].ydoc
             /\ pages'[q].inbox = pages[q].inbox
             /\ pages'[q].state = pages[q].state
             /\ pages'[q].member = pages[q].member
             /\ pages'[q].outbox = IF q = p THEN pages[q].outbox \ {u}
                                   ELSE pages[q].outbox
  BY <1>1 DEF UpdateFails, Page
<1>3. rooms[d].loaded
  BY <1>1 DEF Contained, Unloaded, PagesOf
<1>4. u \in lost' \/ Reached(u, d)
  BY <1>1 DEF UpdateFails, Spread, Relayed
<1>5. /\ \A e \in Docs : OnTheirWay(e) \subseteq OnTheirWay(e)' \cup {u}
      /\ \A e \in Docs : e # d => OnTheirWay(e) \subseteq OnTheirWay(e)'
  <2>1. ASSUME NEW e \in Docs, NEW x \in OnTheirWay(e), x # u \/ e # d
        PROVE  x \in OnTheirWay(e)'
    <3>1. PICK q \in Pages \cap Editors : DocOf[q] = e /\ x \in pages[q].outbox
      BY KnownIs
    <3>2. x \in pages'[q].outbox
      BY <1>2, <2>1, <3>1
    <3> QED BY <3>1, <3>2, KnownIs
  <2> QED BY <2>1
<1>6. KnownGrows
  BY <1>1, <1>4, <1>5 DEF KnownGrows, Known, Reached
<1>7. \A e \in Docs : rooms'[e].loaded \/ Unloaded(e)'
  <2>1. ASSUME NEW e \in Docs, ~rooms[e].loaded PROVE Unloaded(e)'
    <3>1. Unloaded(e) /\ e # d
      BY <1>3, <2>1 DEF Contained
    <3>2. \A q \in PagesOf(e) : /\ pages'[q].state = pages[q].state
                                /\ pages'[q].member = pages[q].member
                                /\ pages'[q].outbox = pages[q].outbox
      BY <1>2, <3>1 DEF PagesOf
    <3> QED BY <1>1, <3>1, <3>2
            DEF Unloaded, HeadHoldsAll, storage, PagesOf
  <2> QED BY <1>1, <2>1
<1>8. \A q \in Pages : PageKnown(q)'
  <2>1. ASSUME NEW q \in Pages PROVE PageKnown(q)'
    <3>1. PageKnown(q) /\ Known(DocOf[q]) \subseteq Known(DocOf[q])'
      BY <1>1, <1>6 DEF Contained, KnownGrows
    <3> QED BY <1>1, <1>2, <3>1 DEF PageKnown
  <2> QED BY <2>1
<1>9. /\ \A j \in Jobs : JobKnown(j)'
      /\ \A r \in versions' : RowKnown(r)'
  <2>1. versions' = versions /\ jobs' = jobs
    BY <1>1 DEF storage
  <2>2. \A r \in versions : ~rooms[r.docId].loaded => RowKnown(r)'
    BY <1>1 DEF RowKnown
  <2> QED BY <1>6, <2>1, <2>2, JobsAndRowsStay
<1>10. NoGap'
  <2>1. ASSUME NEW q \in Pages, pages'[q].member
        PROVE  rooms'[DocOf[q]].ydoc \subseteq
                 pages'[q].ydoc \cup pages'[q].inbox \cup OnTheirWay(DocOf[q])'
                   \cup lost'
    <3>1. rooms[DocOf[q]].ydoc \subseteq
            pages[q].ydoc \cup pages[q].inbox \cup OnTheirWay(DocOf[q])
              \cup lost
      BY <1>2, <2>1 DEF Contained, NoGap
    <3>2. CASE DocOf[q] # d
      BY <1>1, <1>2, <1>5, <3>1, <3>2
    <3>3. CASE DocOf[q] = d
      <4>1. u \in pages[q].ydoc \cup pages[q].inbox \cup lost'
        BY <1>2, <1>4, <2>1, <3>3 DEF Reached, PagesOf
      <4> QED BY <1>1, <1>2, <1>5, <3>1, <3>3, <4>1
    <3> QED BY <3>2, <3>3
  <2> QED BY <2>1 DEF NoGap
<1> QED BY <1>7, <1>8, <1>9, <1>10 DEF Contained

-----------------------------------------------------------------------------
(* Saves, restores and the flush.                                          *)

\* A job is about a loaded document and holds what is known of it.
LoadedJob(job) ==
  /\ job.docId \in Docs /\ rooms[job.docId].loaded
  /\ job.payload \subseteq Known(job.docId)

LEMMA JobsAreLoaded ==
  ASSUME CInv, Contained
  PROVE  \A j \in Jobs : jobs[j].pc # "idle" => LoadedJob(jobs[j])
<1>1. ASSUME NEW j \in Jobs, jobs[j].pc # "idle"
      PROVE  LoadedJob(jobs[j])
  <2>1. jobs[j].docId \in Docs
    BY <1>1, StorageFacts
  <2>2. rooms[jobs[j].docId].loaded
    BY <1>1, <2>1 DEF Contained, Unloaded
  <2> QED BY <1>1, <2>1, <2>2 DEF LoadedJob, Contained, JobKnown
<1> QED BY <1>1

\* A page is as it was, but for its parent, or is left; what it sent stays.
KeptOrLeft(old, new) ==
  /\ new.outbox = old.outbox
  /\ \/ /\ new.ydoc = old.ydoc /\ new.inbox = old.inbox
        /\ new.member = old.member /\ new.state = old.state
     \/ new.ydoc = {} /\ new.inbox = {} /\ ~new.member /\ new.state = "closed"

\* A step of the storage whose jobs and new rows hold what is known of
\* loaded documents, and that moves no head of another.
LEMMA StorageContained ==
  ASSUME CInv, Contained, UNCHANGED <<joins, lost>>, SameContent,
         \A q \in Pages : KeptOrLeft(pages[q], pages'[q]),
         \A j \in Jobs : jobs'[j].pc # "idle" => LoadedJob(jobs'[j]),
         versions \subseteq versions',
         \A r \in versions' \ versions :
           /\ r.docId \in Docs /\ rooms[r.docId].loaded
           /\ r.checksum \subseteq Known(r.docId),
         \A d \in Docs : ~rooms[d].loaded => latest'[d] = latest[d]
  PROVE  Contained'
<1>1. \A d : OnTheirWay(d)' = OnTheirWay(d)
  <2>1. \A q \in Pages : pages'[q].outbox = pages[q].outbox
    BY DEF KeptOrLeft
  <2> QED BY <2>1 DEF OnTheirWay, PagesOf
<1>2. \A d \in Docs : Known(d)' = Known(d)
  BY <1>1 DEF Known, SameContent
<1>3. KnownGrows
  BY <1>2 DEF KnownGrows, SameContent
<1>4. \A d \in Docs : rooms'[d].loaded \/ Unloaded(d)'
  <2>1. ASSUME NEW d \in Docs, ~rooms[d].loaded PROVE Unloaded(d)'
    <3>1. Unloaded(d)
      BY <2>1 DEF Contained
    <3>2. \A q \in PagesOf(d) : /\ pages'[q].state \notin {"acked", "ready"}
                                /\ ~pages'[q].member
                                /\ pages'[q].outbox = {}
      BY <3>1 DEF KeptOrLeft, Unloaded, PagesOf
    <3>3. \A j \in Jobs : jobs'[j].pc # "idle" => jobs'[j].docId # d
      BY <2>1 DEF LoadedJob
    <3>4. \A r \in versions' : r.docId = d => r \in versions
      BY <2>1
    <3>5. HeadHoldsAll(d)'
      BY <2>1, <3>1, <3>4 DEF Unloaded, HeadHoldsAll
    <3> QED BY <2>1, <3>1, <3>2, <3>3, <3>5 DEF Unloaded, SameContent, PagesOf
  <2> QED BY <2>1 DEF SameContent
<1>5. \A q \in Pages : PageKnown(q)'
  <2>1. ASSUME NEW q \in Pages PROVE PageKnown(q)'
    <3>1. /\ PageKnown(q) /\ DocOf[q] \in Docs
      BY PagesOfDocs DEF Contained
    <3>2. /\ Known(DocOf[q])' = Known(DocOf[q])
          /\ rooms'[DocOf[q]].ydoc = rooms[DocOf[q]].ydoc
      BY <1>2, <3>1 DEF SameContent
    <3> QED BY <3>1, <3>2 DEF PageKnown, KeptOrLeft
  <2> QED BY <2>1
<1>6. \A j \in Jobs : JobKnown(j)'
  <2>1. ASSUME NEW j \in Jobs, jobs'[j].pc # "idle" PROVE JobKnown(j)'
    <3>1. PICK d \in Docs : /\ d = jobs'[j].docId
                            /\ jobs'[j].payload \subseteq Known(d)
      BY <2>1 DEF LoadedJob
    <3>2. jobs'[j].payload \subseteq Known(d)'
      BY <1>2, <3>1
    <3> QED BY <3>1, <3>2 DEF JobKnown, Known, OnTheirWay, PagesOf
  <2> QED BY <2>1 DEF JobKnown
<1>7. \A r \in versions' : RowKnown(r)'
  <2>1. \A r \in versions : r.docId \in Docs
    BY DEF CInv, TypeOK, Storage!TypeOK, Storage!DocVersion
  <2>2. ASSUME NEW r \in versions PROVE RowKnown(r)'
    BY <1>2, <2>1 DEF Contained, RowKnown, SameContent
  <2>3. ASSUME NEW r \in versions' \ versions PROVE RowKnown(r)'
    BY <1>2, <2>3 DEF RowKnown
  <2> QED BY <2>2, <2>3
<1>8. NoGap'
  <2>1. \A q \in Pages : DocOf[q] \in Docs
    BY PagesOfDocs
  <2> QED BY <1>1, <2>1 DEF Contained, NoGap, KeptOrLeft, SameContent
<1> QED BY <1>4, <1>5, <1>6, <1>7, <1>8 DEF Contained

\* The version of a job that is done, or about to be, is of a loaded
\* document, and so is its payload.
LEMMA StepsContained ==
  ASSUME CInv, Contained, NEW j \in Jobs, Storage!Steps(j)
  PROVE  /\ \A i \in Jobs : jobs'[i].pc # "idle" => LoadedJob(jobs'[i])
         /\ versions \subseteq versions'
         /\ \A r \in versions' \ versions :
              /\ r.docId \in Docs /\ rooms[r.docId].loaded
              /\ r.checksum \subseteq Known(r.docId)
         /\ \A d \in Docs : ~rooms[d].loaded => latest'[d] = latest[d]
<1>1. /\ jobs \in [Jobs -> Storage!Job]
      /\ latest \in [Docs -> Storage!MaybeVersion]
      /\ \A i \in Jobs \ {j} : jobs'[i] = jobs[i]
  BY StepsKeepJobs DEF CInv, TypeOK, Storage!TypeOK
<1>2. \A i \in Jobs : jobs[i].pc # "idle" => LoadedJob(jobs[i])
  BY JobsAreLoaded
<1>3. jobs'[j].pc = "idle" \/ LoadedJob(jobs'[j])
  <2>1. CASE Storage!RestoreFetch(j)
    <3> DEFINE d == jobs[j].docId
               v == jobs[j].parentVersionId
    <3>1. /\ jobs[j].pc = "fetch"
          /\ jobs'[j].docId = d /\ jobs'[j].payload = blobs[v].data
      BY <1>1, <2>1 DEF Storage!RestoreFetch, Storage!Persist
    <3>2. SP!HasRow(d, v)
      BY <3>1 DEF CInv, SP!IInv, SP!JobOK
    <3>3. Storage!HasRow(d, v)
      BY <3>2 DEF SP!HasRow, Storage!HasRow
    <3>4. d \in Docs /\ rooms[d].loaded
      BY <1>2, <3>1 DEF LoadedJob
    <3>5. blobs[v].data \subseteq Known(d)
      BY <3>3, <3>4, BlobIsStored, StoredIsKnown
    <3> QED BY <3>1, <3>4, <3>5 DEF LoadedJob
  <2>2. CASE ~Storage!RestoreFetch(j)
    <3>1. \/ jobs'[j].pc = "idle"
          \/ /\ jobs[j].pc # "idle"
             /\ jobs'[j].docId = jobs[j].docId
             /\ jobs'[j].payload = jobs[j].payload
      <4>1. CASE Storage!BridgeOpens(j)
        BY <1>1, <4>1 DEF Storage!BridgeOpens, Storage!Job
      <4>2. CASE Storage!BridgeWrites(j) \/ Storage!CreateRow(j)
                 \/ Storage!Publish(j)
        BY <1>1, <4>2 DEF Storage!BridgeWrites, Storage!CreateRow,
           Storage!Publish, Storage!Answer, Storage!Job, Storage!IdleJob
      <4>3. CASE Storage!Return(j) \/ Storage!Lost(j)
        BY <1>1, <4>3 DEF Storage!Return, Storage!Lost, Storage!IdleJob
      <4>4. CASE Storage!GiveUp(j)
        BY <1>1, <4>4 DEF Storage!GiveUp, Storage!Job, Storage!IdleJob
      <4>5. CASE Storage!RestoreFind(j)
        BY <1>1, <4>5 DEF Storage!RestoreFind, Storage!Job, Storage!IdleJob
      <4> QED BY <2>2, <4>1, <4>2, <4>3, <4>4, <4>5 DEF Storage!Steps
    <3> QED BY <1>2, <3>1 DEF LoadedJob
  <2> QED BY <2>1, <2>2
<1>4. \/ versions' = versions
      \/ /\ jobs[j].pc # "idle"
         /\ versions' = versions \cup {Storage!RowOf(j)}
  BY DEF Storage!Steps, Storage!BridgeOpens, Storage!BridgeWrites,
     Storage!CreateRow, Storage!Publish, Storage!Return, Storage!GiveUp,
     Storage!Lost, Storage!RestoreFind, Storage!RestoreFetch, Storage!Persist
<1>5. \/ latest' = latest
      \/ /\ jobs[j].pc # "idle"
         /\ \A d \in Docs : d # jobs[j].docId => latest'[d] = latest[d]
  BY <1>1 DEF Storage!Steps, Storage!BridgeOpens, Storage!BridgeWrites,
     Storage!CreateRow, Storage!Publish, Storage!Return, Storage!GiveUp,
     Storage!Lost, Storage!RestoreFind, Storage!RestoreFetch, Storage!Persist
<1>6. /\ Storage!RowOf(j).docId = jobs[j].docId
      /\ Storage!RowOf(j).checksum = jobs[j].payload
  BY DEF Storage!RowOf
<1>7. \A i \in Jobs : jobs'[i].pc # "idle" => LoadedJob(jobs'[i])
  BY <1>1, <1>2, <1>3
<1>8. /\ versions \subseteq versions'
      /\ \A r \in versions' \ versions :
           /\ r.docId \in Docs /\ rooms[r.docId].loaded
           /\ r.checksum \subseteq Known(r.docId)
  BY <1>2, <1>4, <1>6 DEF LoadedJob
<1>9. \A d \in Docs : ~rooms[d].loaded => latest'[d] = latest[d]
  BY <1>2, <1>5 DEF LoadedJob
<1> QED BY <1>7, <1>8, <1>9

\* A call of persistDocumentVersion with a payload that is known.
LEMMA PersistContained ==
  ASSUME CInv, Contained, NEW j \in Jobs, NEW pc, NEW d \in Docs, NEW a,
         NEW payload, NEW parent,
         Storage!Persist(j, pc, d, a, payload, parent),
         rooms[d].loaded, payload \subseteq Known(d)
  PROVE  /\ \A i \in Jobs : jobs'[i].pc # "idle" => LoadedJob(jobs'[i])
         /\ versions' = versions /\ latest' = latest
<1>1. /\ jobs \in [Jobs -> Storage!Job]
      /\ \A i \in Jobs : jobs[i].pc # "idle" => LoadedJob(jobs[i])
  BY JobsAreLoaded DEF CInv, TypeOK, Storage!TypeOK
<1>2. /\ \A i \in Jobs \ {j} : jobs'[i] = jobs[i]
      /\ jobs'[j].docId = d /\ jobs'[j].payload = payload
      /\ versions' = versions /\ latest' = latest
  BY <1>1 DEF Storage!Persist
<1> QED BY <1>1, <1>2 DEF LoadedJob

\* Pages and rooms that a storage step leaves alone.
LEMMA Kept ==
  /\ pages' = pages => \A q \in Pages : KeptOrLeft(pages[q], pages'[q])
  /\ rooms' = rooms => SameContent
BY DEF KeptOrLeft, SameContent

\* POST /save and POST /restore.
LEMMA RequestContained ==
  ASSUME CInv, Contained, NEW r \in Requests, NEW p \in Pages,
         SavePage(r, p) \/ \E v \in VersionIds : RestoreVersion(r, p, v)
  PROVE  Contained'
<1>1. /\ r \in Jobs /\ DocOf[p] \in Docs
      /\ pages[p].state = "ready"
      /\ UNCHANGED <<rooms, joins, pages, lost>>
      /\ PageKnown(p)
  BY PagesOfDocs DEF Jobs, SavePage, RestoreVersion, Contained, faults
<1>2. rooms[DocOf[p]].loaded
  BY <1>1 DEF Contained, Unloaded, PagesOf
<1>3. CASE SavePage(r, p)
  <2>1. /\ Storage!Persist(r, "idle", DocOf[p], UserOf[p], pages[p].ydoc,
                           pages[p].parent)
        /\ pages[p].ydoc \subseteq Known(DocOf[p])
    BY <1>1, <1>3 DEF SavePage, PageKnown
  <2>2. /\ \A i \in Jobs : jobs'[i].pc # "idle" => LoadedJob(jobs'[i])
        /\ versions' = versions /\ latest' = latest
    BY <1>1, <1>2, <2>1, PersistContained
  <2> QED BY <1>1, <2>2, Kept, StorageContained
<1>4. CASE \E v \in VersionIds : RestoreVersion(r, p, v)
  <2>1. PICK v \in VersionIds : Storage!Restore(r, DocOf[p], UserOf[p], v)
    BY <1>4 DEF RestoreVersion
  <2>2. /\ jobs \in [Jobs -> Storage!Job]
        /\ \A i \in Jobs : jobs[i].pc # "idle" => LoadedJob(jobs[i])
    BY JobsAreLoaded DEF CInv, TypeOK, Storage!TypeOK
  <2>3. /\ \A i \in Jobs \ {r} : jobs'[i] = jobs[i]
        /\ jobs'[r].docId = DocOf[p] /\ jobs'[r].payload = {}
        /\ versions' = versions /\ latest' = latest
    BY <1>1, <2>1, <2>2 DEF Storage!Restore, Storage!IdleJob
  <2>4. \A i \in Jobs : jobs'[i].pc # "idle" => LoadedJob(jobs'[i])
    BY <1>1, <1>2, <2>2, <2>3 DEF LoadedJob
  <2> QED BY <1>1, <2>3, <2>4, Kept, StorageContained
<1> QED BY <1>3, <1>4

\* The answer to a request: the page takes a parent or is reloaded.
LEMMA RequestReturnsContained ==
  ASSUME CInv, Contained, NEW r \in Requests, RequestReturns(r)
  PROVE  Contained'
<1>1. /\ r \in Jobs /\ Storage!Steps(r)
      /\ UNCHANGED <<rooms, joins, lost>>
  BY DEF Jobs, RequestReturns, Storage!Steps, faults
<1>2. \A q \in Pages : KeptOrLeft(pages[q], pages'[q])
  <2>1. ASSUME NEW q \in Pages PROVE KeptOrLeft(pages[q], pages'[q])
    <3>1. pages[q] \in Page
      BY DEF CInv, TypeOK
    <3>2. pages'[q] \in {pages[q], Left(pages[q]),
                         [pages[q] EXCEPT !.parent = jobs[r].versionId]}
      BY DEF RequestReturns
    <3> QED BY <3>1, <3>2 DEF KeptOrLeft, Left, NewPage, Page
  <2> QED BY <2>1
<1> QED BY <1>1, <1>2, Kept, StepsContained, StorageContained

\* A step of the storage, or its failure.
LEMMA StorageStepContained ==
  ASSUME CInv, Contained, NEW j \in Jobs, StorageStep(j) \/ CallFails(j)
  PROVE  Contained'
<1>1. Storage!Steps(j) /\ UNCHANGED <<rooms, joins, pages, lost>>
  BY DEF StorageStep, CallFails, Storage!Steps, faults
<1> QED BY <1>1, Kept, StepsContained, StorageContained

\* The next room a flush persists is loaded.
LEMMA FlushFromContained ==
  ASSUME CInv, Contained, NEW f \in Passes, NEW pc, NEW i,
         FlushFrom(f, pc, i)
  PROVE  /\ \A j \in Jobs : jobs'[j].pc # "idle" => LoadedJob(jobs'[j])
         /\ versions' = versions /\ latest' = latest
<1>1. PICK k \in DOMAIN roomOrder :
        LET d == roomOrder[k]
        IN /\ NeedsFlush(d)
           /\ Storage!Persist(f, pc, d, rooms[d].lastEditorId, rooms[d].ydoc,
                              rooms[d].latestVersionId)
  BY DEF FlushFrom
<1> DEFINE d == roomOrder[k]
<1>2. d \in Docs /\ f \in Jobs
  BY <1>1 DEF CInv, TypeOK, Jobs
<1>3. rooms[d].loaded
  BY <1>1, <1>2 DEF NeedsFlush, Contained, Unloaded
<1>4. rooms[d].ydoc \subseteq Known(d)
  BY DEF Known
<1>5. Storage!Persist(f, pc, d, rooms[d].lastEditorId, rooms[d].ydoc,
                      rooms[d].latestVersionId)
  BY <1>1
<1> HIDE DEF d
<1> QED BY <1>2, <1>3, <1>4, <1>5, PersistContained

\* The interval fires, or persistDocumentVersion returns to the loop: the
\* room that was written is no longer dirty and keeps what it holds.
LEMMA FlushContained ==
  ASSUME CInv, Contained, NEW f \in Passes,
         FlushStarts(f) \/ FlushReturns(f)
  PROVE  Contained'
<1>1. UNCHANGED <<joins, pages, lost>> /\ f \in Jobs
  BY DEF FlushStarts, FlushReturns, Jobs, faults
<1>2. CASE FlushStarts(f)
  BY <1>1, <1>2, Kept, FlushFromContained, StorageContained DEF FlushStarts
<1>3. CASE FlushReturns(f)
  <2> DEFINE d == jobs[f].docId
  <2>1. /\ \A j \in Jobs : jobs'[j].pc # "idle" => LoadedJob(jobs'[j])
        /\ versions \subseteq versions'
        /\ \A r \in versions' \ versions :
             /\ r.docId \in Docs /\ rooms[r.docId].loaded
             /\ r.checksum \subseteq Known(r.docId)
        /\ \A e \in Docs : ~rooms[e].loaded => latest'[e] = latest[e]
    <3>1. CASE \E i : FlushFrom(f, "done", i)
      BY <3>1, FlushFromContained
    <3>2. CASE Storage!Return(f)
      BY <1>1, <3>2, StepsContained DEF Storage!Steps
    <3> QED BY <1>3, <3>1, <3>2 DEF FlushReturns
  <2>2. /\ d \in Docs /\ rooms[d].loaded
        /\ rooms \in [Docs -> Room] /\ rooms[d] \in Room
    BY <1>1, <1>3, JobsAreLoaded DEF FlushReturns, LoadedJob, CInv, TypeOK
  <2>3. /\ \A e \in Docs : /\ rooms'[e].ydoc = rooms[e].ydoc
                           /\ rooms'[e].loaded = rooms[e].loaded
        /\ \A e \in Docs : e # d => rooms'[e] = rooms[e]
    BY <1>3, <2>2 DEF FlushReturns, Room
  <2>4. SameContent
    BY <2>2, <2>3 DEF SameContent
  <2> QED BY <1>1, <2>1, <2>4, Kept, StorageContained
<1> QED BY <1>2, <1>3

-----------------------------------------------------------------------------
(* What was relayed to one page was relayed to all.                        *)

\* A step that relays nothing: rooms only grow, no message from the server is
\* new, and a member has what the room has or has kept what it had.
LEMMA NothingRelayed ==
  ASSUME CInv, Spread,
         \A d \in Docs : rooms[d].ydoc \subseteq rooms'[d].ydoc,
         \A q \in Pages, u \in Updates : Relayed(q, u)' => Relayed(q, u),
         \A q \in Pages : pages'[q].member =>
           \/ rooms[DocOf[q]].ydoc \subseteq pages'[q].ydoc
           \/ /\ pages[q].member
              /\ pages[q].ydoc \cup pages[q].inbox \subseteq
                   pages'[q].ydoc \cup pages'[q].inbox
  PROVE  Spread'
<1> SUFFICES ASSUME NEW p \in Pages, NEW u \in Updates, Relayed(p, u)'
             PROVE  Reached(u, DocOf[p])'
  BY DEF Spread
<1>1. DocOf[p] \in Docs /\ Reached(u, DocOf[p])
  BY PagesOfDocs DEF Spread
<1> QED BY <1>1 DEF Reached, PagesOf

\* The steps that leave the pages and what the rooms hold alone.
LEMMA SpreadKept ==
  ASSUME CInv, Spread, UNCHANGED pages,
         \A d \in Docs : rooms[d].ydoc \subseteq rooms'[d].ydoc
  PROVE  Spread'
BY NothingRelayed DEF Relayed

\* The steps that change one page and leave what the rooms hold alone.
LEMMA SpreadOnePage ==
  ASSUME CInv, Spread, NEW p \in Pages, NEW page,
         pages' = [pages EXCEPT ![p] = page],
         \A d \in Docs : rooms[d].ydoc \subseteq rooms'[d].ydoc,
         \A u \in Updates :
           u \in page.inbox \/ (u \in page.outbox /\ AuthorOf[u] # p)
             => Relayed(p, u),
         page.member =>
           \/ rooms[DocOf[p]].ydoc \subseteq page.ydoc
           \/ /\ pages[p].member
              /\ pages[p].ydoc \cup pages[p].inbox \subseteq
                   page.ydoc \cup page.inbox
  PROVE  Spread'
<1>1. /\ pages'[p] = page
      /\ \A q \in Pages : q # p => pages'[q] = pages[q]
  BY DEF CInv, TypeOK
<1> QED BY <1>1, NothingRelayed DEF Relayed

\* A page opens, or loadRoomState goes on: a page that joins has what the
\* room has.
LEMMA JoinSpreads ==
  ASSUME CInv, Spread, NEW p \in Pages,
         \/ JoinLoaded(p) \/ JoinLoads(p) \/ JoinFails(p)
         \/ LoadStep(p) \/ LoadFails(p)
  PROVE  Spread'
<1>1. /\ pages \in [Pages -> Page] /\ pages[p] \in Page
      /\ rooms \in [Docs -> Room] /\ rooms[DocOf[p]] \in Room
      /\ DocOf[p] \in Docs
  BY PagesOfDocs DEF CInv, TypeOK
<1>2. ASSUME NEW s, pages' = [pages EXCEPT ![p].state = s], rooms' = rooms
      PROVE  Spread'
  <2> DEFINE page == [pages[p] EXCEPT !.state = s]
  <2>1. /\ page.outbox = pages[p].outbox /\ page.ydoc = pages[p].ydoc
        /\ page.inbox = pages[p].inbox /\ page.member = pages[p].member
    BY <1>1 DEF Page
  <2>2. pages' = [pages EXCEPT ![p] = page]
    BY <1>2
  <2> HIDE DEF page
  <2> QED BY <1>2, <2>1, <2>2, SpreadOnePage DEF Relayed
<1>3. ASSUME NEW ydoc, rooms[DocOf[p]].ydoc \subseteq ydoc,
             pages' = [pages EXCEPT ![p] =
               [@ EXCEPT !.state = "acked", !.member = TRUE, !.ydoc = ydoc]],
             \A d \in Docs : rooms[d].ydoc \subseteq rooms'[d].ydoc
      PROVE  Spread'
  <2> DEFINE page == [pages[p] EXCEPT !.state = "acked", !.member = TRUE,
                                      !.ydoc = ydoc]
  <2>1. /\ page.outbox = pages[p].outbox /\ page.ydoc = ydoc
        /\ page.inbox = pages[p].inbox
    BY <1>1 DEF Page
  <2>2. pages' = [pages EXCEPT ![p] = page]
    BY <1>3
  <2> HIDE DEF page
  <2> QED BY <1>3, <2>1, <2>2, SpreadOnePage DEF Relayed
<1>4. ASSUME NEW room, FinishJoin(p, room),
             rooms[DocOf[p]].ydoc \subseteq room.ydoc
      PROVE  Spread'
  <2>1. \A d \in Docs : rooms[d].ydoc \subseteq rooms'[d].ydoc
    BY <1>1, <1>4 DEF FinishJoin
  <2>2. CASE pages[p].state # "joining"
    BY <1>1, <1>4, <2>1, <2>2, SpreadKept DEF FinishJoin
  <2>3. CASE pages[p].state = "joining"
    BY <1>3, <1>4, <2>1, <2>3 DEF FinishJoin
  <2> QED BY <2>2, <2>3
<1>5. CASE JoinLoaded(p)
  BY <1>3, <1>5 DEF JoinLoaded
<1>6. CASE JoinLoads(p) \/ JoinFails(p)
  BY <1>2, <1>6 DEF JoinLoads, JoinFails
<1>7. CASE LoadFails(p)
  <2>1. PICK s : pages' = [pages EXCEPT ![p].state = s]
    BY <1>7 DEF LoadFails
  <2> QED BY <1>2, <1>7, <2>1 DEF LoadFails
<1>8. CASE LoadReadsDoc(p)
  BY <1>8, SpreadKept DEF LoadReadsDoc
<1>9. CASE LoadGetsDoc(p)
  <2> DEFINE room == [rooms[DocOf[p]] EXCEPT
                        !.latestVersionId = joins[p].versionId]
  <2>1. /\ [room EXCEPT !.loaded = TRUE].ydoc = rooms[DocOf[p]].ydoc
        /\ room.ydoc = rooms[DocOf[p]].ydoc
    BY <1>1 DEF Room
  <2> HIDE DEF room
  <2>2. \/ FinishJoin(p, [room EXCEPT !.loaded = TRUE])
        \/ /\ rooms' = [rooms EXCEPT ![DocOf[p]] = room]
           /\ UNCHANGED pages
    BY <1>9 DEF LoadGetsDoc, room
  <2>3. ASSUME rooms' = [rooms EXCEPT ![DocOf[p]] = room], UNCHANGED pages
        PROVE  Spread'
    <3>1. \A d \in Docs : rooms[d].ydoc \subseteq rooms'[d].ydoc
      BY <1>1, <2>1, <2>3
    <3> QED BY <2>3, <3>1, SpreadKept
  <2> QED BY <1>4, <2>1, <2>2, <2>3
<1>10. CASE LoadGetsRow(p)
  <2>1. [rooms[DocOf[p]] EXCEPT !.loaded = TRUE].ydoc = rooms[DocOf[p]].ydoc
    BY <1>1 DEF Room
  <2>2. \/ FinishJoin(p, [rooms[DocOf[p]] EXCEPT !.loaded = TRUE])
        \/ UNCHANGED <<rooms, pages>>
    BY <1>10 DEF LoadGetsRow
  <2> QED BY <1>4, <2>1, <2>2, SpreadKept
<1>11. CASE LoadGetsBlob(p)
  <2> DEFINE data == blobs[joins[p].versionId].data
             room == [rooms[DocOf[p]] EXCEPT !.ydoc = @ \cup data,
                                             !.loaded = TRUE]
  <2>1. room.ydoc = rooms[DocOf[p]].ydoc \cup data
    BY <1>1 DEF Room
  <2>2. FinishJoin(p, room)
    BY <1>11 DEF LoadGetsBlob
  <2> HIDE DEF room
  <2> QED BY <1>4, <2>1, <2>2
<1> QED BY <1>5, <1>6, <1>7, <1>8, <1>9, <1>10, <1>11 DEF LoadStep

\* The page: what it sends is its own, or came from the server.
LEMMA PageSpreads ==
  ASSUME CInv, Spread, NEW p \in Pages,
         \/ ReceiveAck(p) \/ Close(p)
         \/ \E u \in Updates : \/ Edit(p, u) \/ ReceiveUpdate(p, u)
                               \/ RefuseUpdate(p, u) \/ UpdateFails(p, u)
  PROVE  Spread'
<1>1. pages \in [Pages -> Page] /\ pages[p] \in Page
  BY DEF CInv, TypeOK
<1>2. rooms' = rooms
  BY DEF ReceiveAck, Close, Edit, ReceiveUpdate, RefuseUpdate, UpdateFails
<1>3. CASE ReceiveAck(p)
  <2> DEFINE page == [pages[p] EXCEPT !.state = "ready"]
  <2>1. /\ page.outbox = pages[p].outbox /\ page.ydoc = pages[p].ydoc
        /\ page.inbox = pages[p].inbox /\ page.member = pages[p].member
        /\ pages' = [pages EXCEPT ![p] = page]
    BY <1>1, <1>3 DEF Page, ReceiveAck
  <2> HIDE DEF page
  <2> QED BY <1>2, <2>1, SpreadOnePage DEF Relayed
<1>4. CASE Close(p)
  <2> DEFINE page == Left(pages[p])
  <2>1. /\ page.outbox = pages[p].outbox /\ page.inbox = {} /\ ~page.member
        /\ pages' = [pages EXCEPT ![p] = page]
    BY <1>1, <1>4 DEF Left, NewPage, Close
  <2> HIDE DEF page
  <2> QED BY <1>2, <2>1, SpreadOnePage DEF Relayed
<1>5. ASSUME NEW u \in Updates, Edit(p, u)
      PROVE  Spread'
  <2> DEFINE page == [pages[p] EXCEPT !.ydoc = @ \cup {u},
                                      !.outbox = @ \cup {u}]
  <2>1. /\ page.outbox = pages[p].outbox \cup {u}
        /\ page.ydoc = pages[p].ydoc \cup {u}
        /\ page.inbox = pages[p].inbox /\ page.member = pages[p].member
        /\ pages' = [pages EXCEPT ![p] = page]
        /\ AuthorOf[u] = p
    BY <1>1, <1>5 DEF Page, Edit
  <2> HIDE DEF page
  <2>2. \A x \in Updates :
          x \in page.inbox \/ (x \in page.outbox /\ AuthorOf[x] # p)
            => Relayed(p, x)
    BY <2>1 DEF Relayed
  <2>3. page.member => /\ pages[p].member
                       /\ pages[p].ydoc \cup pages[p].inbox \subseteq
                            page.ydoc \cup page.inbox
    BY <2>1
  <2>4. \A d \in Docs : rooms[d].ydoc \subseteq rooms'[d].ydoc
    BY <1>2
  <2> QED BY <2>1, <2>2, <2>3, <2>4, SpreadOnePage
<1>6. ASSUME NEW u \in Updates, ReceiveUpdate(p, u)
      PROVE  Spread'
  <2> DEFINE page == [pages[p] EXCEPT !.inbox = @ \ {u}, !.ydoc = @ \cup {u},
                        !.outbox = IF u \in pages[p].ydoc THEN @
                                   ELSE @ \cup {u}]
  <2>1. /\ page.outbox \subseteq pages[p].outbox \cup {u}
        /\ page.ydoc = pages[p].ydoc \cup {u}
        /\ page.inbox = pages[p].inbox \ {u}
        /\ page.member = pages[p].member
        /\ pages' = [pages EXCEPT ![p] = page]
        /\ u \in pages[p].inbox
    BY <1>1, <1>6 DEF Page, ReceiveUpdate
  <2> HIDE DEF page
  <2>2. \A x \in Updates :
          x \in page.inbox \/ (x \in page.outbox /\ AuthorOf[x] # p)
            => Relayed(p, x)
    BY <2>1 DEF Relayed
  <2>3. page.member => /\ pages[p].member
                       /\ pages[p].ydoc \cup pages[p].inbox \subseteq
                            page.ydoc \cup page.inbox
    BY <2>1
  <2>4. \A d \in Docs : rooms[d].ydoc \subseteq rooms'[d].ydoc
    BY <1>2
  <2> QED BY <2>1, <2>2, <2>3, <2>4, SpreadOnePage
<1>7. ASSUME NEW u \in Updates, RefuseUpdate(p, u) \/ UpdateFails(p, u)
      PROVE  Spread'
  <2> DEFINE page == [pages[p] EXCEPT !.outbox = @ \ {u}]
  <2>1. /\ page.outbox \subseteq pages[p].outbox
        /\ page.ydoc = pages[p].ydoc
        /\ page.inbox = pages[p].inbox /\ page.member = pages[p].member
        /\ pages' = [pages EXCEPT ![p] = page]
    BY <1>1, <1>7 DEF Page, RefuseUpdate, UpdateFails
  <2> HIDE DEF page
  <2> QED BY <1>2, <2>1, SpreadOnePage DEF Relayed
<1> QED BY <1>3, <1>4, <1>5, <1>6, <1>7

\* The server merges a message and relays it to all members but the sender,
\* who has it.
LEMMA ApplySpreads ==
  ASSUME CInv, Spread, NEW p \in Pages, PageKnown(p), NEW u \in Updates,
         ApplyUpdate(p, u)
  PROVE  Spread'
<1> DEFINE d == DocOf[p]
<1>1. /\ pages \in [Pages -> Page]
      /\ rooms \in [Docs -> Room] /\ rooms[d] \in Room
      /\ d \in Docs /\ \A q \in Pages : DocOf[q] \in Docs
      /\ u \in pages[p].outbox
  BY PagesOfDocs DEF CInv, TypeOK, ApplyUpdate
<1>2. /\ rooms'[d].ydoc = rooms[d].ydoc \cup {u}
      /\ \A e \in Docs : rooms[e].ydoc \subseteq rooms'[e].ydoc
  BY <1>1 DEF ApplyUpdate, Merge, Room
<1>3. ASSUME NEW q \in Pages
      PROVE  /\ pages'[q].ydoc = pages[q].ydoc
             /\ pages'[q].member = pages[q].member
             /\ pages'[q].outbox \subseteq pages[q].outbox
             /\ pages[q].inbox \subseteq pages'[q].inbox
             /\ pages'[q].inbox \subseteq pages[q].inbox \cup {u}
             /\ DocOf[q] # d => pages'[q].inbox = pages[q].inbox
             /\ q # p /\ DocOf[q] = d /\ pages[q].member =>
                  u \in pages'[q].inbox
  <2>1. pages[q] \in Page
    BY <1>1
  <2> QED BY <2>1 DEF ApplyUpdate, Relay, Members, Page
<1>4. Reached(u, d)'
  BY <1>1, <1>2, <1>3 DEF Reached, PagesOf, PageKnown
<1> SUFFICES ASSUME NEW q \in Pages, NEW x \in Updates, Relayed(q, x)'
             PROVE  Reached(x, DocOf[q])'
  BY DEF Spread
<1>5. \/ Relayed(q, x)
      \/ x = u /\ DocOf[q] = d
  BY <1>3 DEF Relayed
<1>6. ASSUME Relayed(q, x) PROVE Reached(x, DocOf[q])'
  <2>1. Reached(x, DocOf[q])
    BY <1>6 DEF Spread
  <2> QED BY <1>1, <1>2, <1>3, <2>1 DEF Reached, PagesOf
<1> QED BY <1>4, <1>5, <1>6

\* A flush that returns leaves what the rooms hold alone.
LEMMA FlushSpreads ==
  ASSUME CInv, Spread, NEW f \in Passes, FlushStarts(f) \/ FlushReturns(f)
  PROVE  Spread'
<1>1. rooms \in [Docs -> Room] /\ pages' = pages /\ f \in Jobs
  BY DEF CInv, TypeOK, FlushStarts, FlushReturns, Jobs
<1>2. CASE FlushStarts(f)
  BY <1>1, <1>2, SpreadKept DEF FlushStarts
<1>3. CASE FlushReturns(f)
  <2>1. \A d \in Docs : rooms[d].ydoc \subseteq rooms'[d].ydoc
    BY <1>1, <1>3, StorageFacts DEF FlushReturns, Room
  <2> QED BY <1>1, <2>1, SpreadKept
<1> QED BY <1>2, <1>3

\* The answer to a request: the page takes a parent or is left.
LEMMA RequestReturnsSpreads ==
  ASSUME CInv, Spread, NEW r \in Requests, RequestReturns(r)
  PROVE  Spread'
<1>1. \A q \in Pages : KeptOrLeft(pages[q], pages'[q])
  <2>1. ASSUME NEW q \in Pages PROVE KeptOrLeft(pages[q], pages'[q])
    <3>1. pages[q] \in Page
      BY DEF CInv, TypeOK
    <3>2. pages'[q] \in {pages[q], Left(pages[q]),
                         [pages[q] EXCEPT !.parent = jobs[r].versionId]}
      BY DEF RequestReturns
    <3> QED BY <3>1, <3>2 DEF KeptOrLeft, Left, NewPage, Page
  <2> QED BY <2>1
<1>2. rooms' = rooms
  BY DEF RequestReturns
<1> QED BY <1>1, <1>2, NothingRelayed DEF Relayed, KeptOrLeft

\* Every step but a lost connection and a restart.
LEMMA SpreadStays ==
  ASSUME CInv, Spread, \A p \in Pages : PageKnown(p), [Next]_vars,
         \A p \in Pages : ~Drop(p), ~Restart
  PROVE  Spread'
<1>1. ASSUME NEW p \in Pages, NEW r \in Requests,
             \/ SavePage(r, p)
             \/ \E v \in VersionIds : RestoreVersion(r, p, v)
      PROVE  Spread'
  BY <1>1, SpreadKept DEF SavePage, RestoreVersion
<1>2. ASSUME NEW j \in Jobs, StorageStep(j) \/ CallFails(j)
      PROVE  Spread'
  BY <1>2, SpreadKept DEF StorageStep, CallFails
<1>3. CASE UNCHANGED vars
  BY <1>3, SpreadKept DEF vars
<1> QED BY <1>1, <1>2, <1>3, JoinSpreads, PageSpreads, ApplySpreads,
           FlushSpreads, RequestReturnsSpreads DEF Next

-----------------------------------------------------------------------------
(* The theorems.                                                           *)

\* Every step keeps the invariant; a lost connection or a restart ends the
\* time it is about.
LEMMA NextContentInv ==
  ASSUME ContentInv, [Next]_vars
  PROVE  ContentInv'
<1>1. CInv /\ CInv'
  BY NextCInv DEF ContentInv
<1> SUFFICES ASSUME Undisturbed' PROVE Contained' /\ Spread'
  BY <1>1 DEF ContentInv
<1>2. drops \in Nat /\ restarts \in Nat
  BY <1>1, BoundsAreNumbers DEF CInv, TypeOK
<1>3. /\ \A p \in Pages : ~Drop(p)
      /\ ~Restart
  BY <1>2 DEF Undisturbed, Drop, Restart
<1>4. UNCHANGED <<drops, restarts>>
  <2>1. \A p \in Pages :
          \/ JoinLoaded(p) \/ JoinLoads(p) \/ JoinFails(p)
          \/ LoadStep(p) \/ LoadFails(p) \/ ReceiveAck(p) \/ Close(p)
          => UNCHANGED <<drops, restarts>>
    BY DEF JoinLoaded, JoinLoads, JoinFails, LoadStep, LoadReadsDoc,
       LoadGetsDoc, LoadGetsRow, LoadGetsBlob, LoadFails, ReceiveAck, Close,
       faults
  <2>2. \A p \in Pages, u \in Updates :
          \/ Edit(p, u) \/ ReceiveUpdate(p, u)
          \/ ApplyUpdate(p, u) \/ RefuseUpdate(p, u) \/ UpdateFails(p, u)
          => UNCHANGED <<drops, restarts>>
    BY DEF Edit, ReceiveUpdate, ApplyUpdate, RefuseUpdate, UpdateFails, faults
  <2>3. \A r \in Requests, p \in Pages :
          \/ SavePage(r, p)
          \/ \E v \in VersionIds : RestoreVersion(r, p, v)
          => UNCHANGED <<drops, restarts>>
    BY DEF SavePage, RestoreVersion, faults
  <2>4. \A r \in Requests : RequestReturns(r) => UNCHANGED <<drops, restarts>>
    BY DEF RequestReturns, faults
  <2>5. \A f \in Passes : FlushStarts(f) \/ FlushReturns(f)
                           => UNCHANGED <<drops, restarts>>
    BY DEF FlushStarts, FlushReturns, faults
  <2>6. \A j \in Jobs : StorageStep(j) \/ CallFails(j)
                         => UNCHANGED <<drops, restarts>>
    BY DEF StorageStep, CallFails, faults
  <2>7. UNCHANGED vars => UNCHANGED <<drops, restarts>>
    BY DEF vars, faults
  <2> QED BY <1>3, <2>1, <2>2, <2>3, <2>4, <2>5, <2>6, <2>7 DEF Next
<1>5. Contained /\ Spread
  BY <1>4 DEF ContentInv, Undisturbed
<1>6. ASSUME NEW p \in Pages, JoinLoaded(p) \/ JoinLoads(p)
      PROVE  Contained'
  BY <1>1, <1>5, <1>6, JoinContained
<1>7. ASSUME NEW p \in Pages, LoadStep(p) \/ LoadFails(p) \/ JoinFails(p)
      PROVE  Contained'
  BY <1>1, <1>5, <1>7, LoadContained, JoinFailsContained
<1>8. ASSUME NEW p \in Pages, ReceiveAck(p) \/ Close(p)
      PROVE  Contained'
  BY <1>1, <1>5, <1>8, PageContained
<1>9. ASSUME NEW p \in Pages, NEW u \in Updates,
             \/ Edit(p, u) \/ ReceiveUpdate(p, u)
             \/ ApplyUpdate(p, u) \/ RefuseUpdate(p, u) \/ UpdateFails(p, u)
      PROVE  Contained'
  BY <1>1, <1>5, <1>9, TextContained, ApplyContained, RefuseContained,
     UpdateFailsContained
<1>10. ASSUME NEW p \in Pages, NEW r \in Requests,
              \/ SavePage(r, p)
              \/ \E v \in VersionIds : RestoreVersion(r, p, v)
       PROVE  Contained'
  BY <1>1, <1>5, <1>10, RequestContained
<1>11. ASSUME NEW f \in Passes, FlushStarts(f) \/ FlushReturns(f)
       PROVE  Contained'
  BY <1>1, <1>5, <1>11, FlushContained
<1>12. ASSUME NEW r \in Requests, RequestReturns(r)
       PROVE  Contained'
  BY <1>1, <1>5, <1>12, RequestReturnsContained
<1>13. ASSUME NEW j \in Jobs, StorageStep(j) \/ CallFails(j)
       PROVE  Contained'
  BY <1>1, <1>5, <1>13, StorageStepContained
<1>14. ASSUME UNCHANGED vars PROVE Contained'
  <2>1. UNCHANGED <<versions, latest, jobs, rooms, joins, pages, lost>>
    BY <1>14 DEF vars, storage, faults
  <2>2. \A j \in Jobs : jobs'[j].pc # "idle" => LoadedJob(jobs'[j])
    BY <1>1, <1>5, <2>1, JobsAreLoaded
  <2> QED BY <1>1, <1>5, <2>1, <2>2, Kept, StorageContained
<1>15. Contained'
  BY <1>3, <1>6, <1>7, <1>8, <1>9, <1>10, <1>11, <1>12, <1>13, <1>14
     DEF Next
<1>16. Spread'
  BY <1>1, <1>3, <1>5, SpreadStays DEF Contained
<1> QED BY <1>15, <1>16

\* A backend that starts over an empty storage is a case of one that starts
\* over any consistent storage.
THEOREM EmptyStart == Spec => SpecFromStart
BY InitStart DEF Spec, SpecFromStart

\* The inductive invariant holds in every state reached from such a start.
THEOREM ContentInvariant == SpecFromStart => []ContentInv
<1>1. ContentInv /\ [Next]_vars => ContentInv'
  BY NextContentInv
<1> QED BY <1>1, StartInv, PTL DEF SpecFromStart

\* Until a connection is lost or the backend restarts, no update falls
\* between the state a page is sent and the updates it is relayed, however
\* many joins, saves, restores, flushes and failed calls overlap: a page can
\* miss no more than the edits that were dropped because their query failed.
THEOREM NoUpdateFallsBetween == SpecFromStart => [](Undisturbed => NoGap)
<1>1. ContentInv => (Undisturbed => NoGap)
  BY DEF ContentInv, Contained
<1> QED BY <1>1, ContentInvariant, PTL

\* In the same time a room that can be flushed has merged every version of
\* its document, or is about to be sent what it lacks: what a flush writes
\* over the head lacks no saved content but messages still to be handled and
\* edits that were dropped because their query failed.
THEOREM NothingIsForgotten ==
  SpecFromStart => [](Undisturbed => NothingForgotten)
<1>1. ContentInv => (Undisturbed => NothingForgotten)
  <2> SUFFICES ASSUME ContentInv, Undisturbed, NEW d \in Docs,
                      rooms[d].loaded \/ rooms[d].dirty
               PROVE  Stored(d) \subseteq
                        rooms[d].ydoc \cup OnTheirWay(d) \cup lost
    BY DEF NothingForgotten
  <2>1. Contained
    BY DEF ContentInv
  <2>2. rooms[d].loaded
    BY <2>1 DEF Contained, Unloaded
  <2> QED BY <2>1, <2>2, StoredIsKnown DEF Known
<1> QED BY <1>1, ContentInvariant, PTL

=============================================================================
