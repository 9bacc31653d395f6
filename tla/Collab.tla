------------------------------- MODULE Collab -------------------------------
(***************************************************************************)
(* Real-time editing of the backend: the rooms of services/collab-room.js, *)
(* the doc:join and doc:update handlers of sockets/collab.js, the 5-second *)
(* flush, the page that edits (EditorPage.jsx and SocketIOProvider.js) and *)
(* the REST saves and restores of that page.  Versions are written through *)
(* the three-call protocol of DocStorage.                                  *)
(*                                                                         *)
(* JavaScript runs one handler at a time and switches at an await: every   *)
(* action is what runs between two awaits, in full.  The permission query  *)
(* of a handler is its first await and nothing but the creation of the     *)
(* empty room precedes it, so a message and the answer to its query are    *)
(* one action.                                                             *)
(*                                                                         *)
(* A Yjs document is the set of the updates it has merged.  Roles do not   *)
(* change while pages are open.                                            *)
(***************************************************************************)
EXTENDS Naturals, Sequences

CONSTANTS
  Docs, Users, Updates, VersionIds, None,
  Pages,       \* editor pages, opened once each; a reload is another page
  Passes,      \* flushAllDirtyRooms calls that may overlap
  Requests,    \* POST /save and /restore requests that may be in progress
  DocOf,       \* the document of each page
  UserOf,      \* the user of each page
  AuthorOf,    \* the page at which each update is typed
  Editors,     \* the pages of users whose role is owner or editor
  MaxFailures, \* bound: remote calls that fail
  MaxDrops,    \* bound: connections that are lost
  MaxRestarts  \* bound: restarts of the backend

ASSUME NoneIsNothing == None \notin VersionIds \cup Users \cup Pages
ASSUME PagesOfDocs == /\ DocOf \in [Pages -> Docs]
                      /\ UserOf \in [Pages -> Users]
                      /\ AuthorOf \in [Updates -> Pages]
                      /\ Editors \subseteq Pages
ASSUME PassesAreNotRequests == Passes \cap Requests = {}
ASSUME BoundsAreNumbers == {MaxFailures, MaxDrops, MaxRestarts} \subseteq Nat

VARIABLES
  blobs, versions, latest, jobs, clock,  \* as in DocStorage
  rooms,      \* the room of each document, as collab-room.js keeps it
  roomOrder,  \* the documents that have one, in the order of the Map
  joins,      \* the doc:join handlers that are loading a room
  pages,      \* the pages and what is on their connections
  asker,      \* the page that waits for each request
  lost,       \* history: edits that were dropped on arrival
  failures, drops, restarts

Jobs == Passes \cup Requests
storage == <<blobs, versions, latest, jobs, clock>>
faults == <<lost, failures, drops, restarts>>
vars == <<storage, rooms, roomOrder, joins, pages, asker, faults>>

\* Nobody reads by GET here.
Storage == INSTANCE DocStorage WITH Readers <- {}, reads <- [r \in {} |-> None]

Contents == SUBSET Updates

Room == [ydoc : Contents, loaded : BOOLEAN, dirty : BOOLEAN,
         lastEditorId : Users \cup {None},
         latestVersionId : VersionIds \cup {None}]
NewRoom == [ydoc |-> {}, loaded |-> FALSE, dirty |-> FALSE,
            lastEditorId |-> None, latestVersionId |-> None]

\* Where loadRoomState waits: for findById, with its answer in hand, for
\* findOne, for getBlob.
Join == [pc : {"idle", "doc", "answered", "row", "blob"},
         versionId : VersionIds \cup {None}]
NoJoin == [pc |-> "idle", versionId |-> None]

\* acked: the room is joined and the answer, with ydoc, is on its way.
\* member: the page's connection is in the Socket.IO room.  outbox: its
\* doc:update messages not yet handled; inbox: those not yet received.
Page == [state : {"new", "joining", "acked", "ready", "failed", "closed"},
         member : BOOLEAN, ydoc : Contents, outbox : Contents,
         inbox : Contents, parent : VersionIds \cup {None}]
NewPage == [state |-> "new", member |-> FALSE, ydoc |-> {}, outbox |-> {},
            inbox |-> {}, parent |-> None]

\* A page waits for a save, or for a restore after which it reloads.
Asker == [page : Pages \cup {None}, reloads : BOOLEAN]
NoAsker == [page |-> None, reloads |-> FALSE]

TypeOK ==
  /\ Storage!TypeOK
  /\ rooms \in [Docs -> Room]
  /\ roomOrder \in Seq(Docs)
  /\ joins \in [Pages -> Join]
  /\ pages \in [Pages -> Page]
  /\ asker \in [Requests -> Asker]
  /\ lost \in Contents
  /\ failures \in 0..MaxFailures
  /\ drops \in 0..MaxDrops
  /\ restarts \in 0..MaxRestarts

Init ==
  /\ Storage!Init
  /\ rooms = [d \in Docs |-> NewRoom]
  /\ roomOrder = <<>>
  /\ joins = [p \in Pages |-> NoJoin]
  /\ pages = [p \in Pages |-> NewPage]
  /\ asker = [r \in Requests |-> NoAsker]
  /\ lost = {}
  /\ failures = 0
  /\ drops = 0
  /\ restarts = 0

\* getOrCreateRoom: a Map keeps the order in which its keys were set.
GetOrCreateRoom(d) ==
  roomOrder' = IF \E i \in DOMAIN roomOrder : roomOrder[i] = d THEN roomOrder
               ELSE Append(roomOrder, d)

-----------------------------------------------------------------------------
(* doc:join and loadRoomState.                                             *)

\* Mutant: the state is encoded before loadRoomState is awaited.
FinishJoinEarly(p, room) ==
  /\ rooms' = [rooms EXCEPT ![DocOf[p]] = room]
  /\ joins' = [joins EXCEPT ![p] = NoJoin]
  /\ pages' = [pages EXCEPT ![p] =
       IF @.state # "joining" THEN @
       ELSE [@ EXCEPT !.state = "acked", !.member = TRUE,
                      !.ydoc = rooms[DocOf[p]].ydoc]]

\* The handler ends with room as the room: the page, if it is still there,
\* is subscribed and sent the room's whole state in the same tick.
FinishJoin(p, room) ==
  /\ rooms' = [rooms EXCEPT ![DocOf[p]] = room]
  /\ joins' = [joins EXCEPT ![p] = NoJoin]
  /\ pages' = [pages EXCEPT ![p] =
       IF @.state # "joining" THEN @
       ELSE [@ EXCEPT !.state = "acked", !.member = TRUE, !.ydoc = room.ydoc]]

\* The page opens and its doc:join is admitted.
JoinLoaded(p) ==
  /\ pages[p].state = "new"
  /\ rooms[DocOf[p]].loaded
  /\ pages' = [pages EXCEPT ![p] =
       [@ EXCEPT !.state = "acked", !.member = TRUE,
                 !.ydoc = rooms[DocOf[p]].ydoc]]
  /\ UNCHANGED <<storage, rooms, roomOrder, joins, asker, faults>>

JoinLoads(p) ==
  /\ pages[p].state = "new"
  /\ ~rooms[DocOf[p]].loaded
  /\ GetOrCreateRoom(DocOf[p])
  /\ pages' = [pages EXCEPT ![p].state = "joining"]
  /\ joins' = [joins EXCEPT ![p].pc = "doc"]
  /\ UNCHANGED <<storage, rooms, asker, faults>>

\* The database answers findById; the answer reaches the handler later.
LoadReadsDoc(p) ==
  /\ joins[p].pc = "doc"
  /\ joins' = [joins EXCEPT ![p] = [pc |-> "answered",
                                    versionId |-> latest[DocOf[p]]]]
  /\ UNCHANGED <<storage, rooms, roomOrder, pages, asker, faults>>

\* Mutant: the room is marked loaded as soon as its version is known.
LoadGetsDocEarly(p) ==
  LET room == [rooms[DocOf[p]] EXCEPT !.latestVersionId = joins[p].versionId,
                                      !.loaded = TRUE]
  IN /\ joins[p].pc = "answered"
     /\ \/ joins[p].versionId = None /\ FinishJoin(p, room)
        \/ /\ joins[p].versionId # None
           /\ rooms' = [rooms EXCEPT ![DocOf[p]] = room]
           /\ joins' = [joins EXCEPT ![p].pc = "row"]
           /\ UNCHANGED pages
     /\ UNCHANGED <<storage, roomOrder, asker, faults>>

LoadGetsDoc(p) ==
  LET room == [rooms[DocOf[p]] EXCEPT !.latestVersionId = joins[p].versionId]
  IN /\ joins[p].pc = "answered"
     /\ \/ /\ joins[p].versionId = None
           /\ FinishJoin(p, [room EXCEPT !.loaded = TRUE])
        \/ /\ joins[p].versionId # None
           /\ rooms' = [rooms EXCEPT ![DocOf[p]] = room]
           /\ joins' = [joins EXCEPT ![p].pc = "row"]
           /\ UNCHANGED pages
     /\ UNCHANGED <<storage, roomOrder, asker, faults>>

LoadGetsRow(p) ==
  /\ joins[p].pc = "row"
  /\ IF Storage!HasRow(DocOf[p], joins[p].versionId)
     THEN joins' = [joins EXCEPT ![p].pc = "blob"] /\ UNCHANGED <<rooms, pages>>
     ELSE FinishJoin(p, [rooms[DocOf[p]] EXCEPT !.loaded = TRUE])
  /\ UNCHANGED <<storage, roomOrder, asker, faults>>

LoadGetsBlob(p) ==
  /\ joins[p].pc = "blob"
  /\ blobs[joins[p].versionId].state # "absent"
  /\ FinishJoin(p, [rooms[DocOf[p]] EXCEPT
       !.ydoc = @ \cup blobs[joins[p].versionId].data, !.loaded = TRUE])
  /\ UNCHANGED <<storage, roomOrder, asker, faults>>

\* One of the three awaits rejects: the room stays as it is, not loaded.
LoadFails(p) ==
  /\ joins[p].pc # "idle"
  /\ failures < MaxFailures
  /\ failures' = failures + 1
  /\ joins' = [joins EXCEPT ![p] = NoJoin]
  /\ pages' = [pages EXCEPT ![p].state = IF @ = "joining" THEN "failed" ELSE @]
  /\ UNCHANGED <<storage, rooms, roomOrder, asker, lost, drops, restarts>>

\* The permission query of a doc:join rejects: there is no room yet.
JoinFails(p) ==
  /\ pages[p].state = "new"
  /\ failures < MaxFailures
  /\ failures' = failures + 1
  /\ pages' = [pages EXCEPT ![p].state = "failed"]
  /\ UNCHANGED <<storage, rooms, roomOrder, joins, asker, lost>>
  /\ UNCHANGED <<drops, restarts>>

-----------------------------------------------------------------------------
(* The page and doc:update.                                                *)

\* The answer to doc:join arrives: the page applies it, then listens.
ReceiveAck(p) ==
  /\ pages[p].state = "acked"
  /\ pages' = [pages EXCEPT ![p].state = "ready"]
  /\ UNCHANGED <<storage, rooms, roomOrder, joins, asker, faults>>

\* The user types; _onLocalUpdate sends the update.
Edit(p, u) ==
  /\ pages[p].state = "ready"
  /\ p \in Editors
  /\ AuthorOf[u] = p
  /\ u \notin pages[p].ydoc
  /\ pages' = [pages EXCEPT ![p].ydoc = @ \cup {u}, ![p].outbox = @ \cup {u}]
  /\ UNCHANGED <<storage, rooms, roomOrder, joins, asker, faults>>

\* _onRemoteUpdate.  The update is applied without an origin, so what is new
\* to the page passes the test of _onLocalUpdate and is sent once more.
ReceiveUpdate(p, u) ==
  /\ pages[p].state = "ready"
  /\ u \in pages[p].inbox
  /\ pages' = [pages EXCEPT
       ![p].inbox = @ \ {u}, ![p].ydoc = @ \cup {u},
       ![p].outbox = IF u \in pages[p].ydoc THEN @ ELSE @ \cup {u}]
  /\ UNCHANGED <<storage, rooms, roomOrder, joins, asker, faults>>

\* What the others are sent, and what is left of the sender's messages.
Relay(p, u, listeners) ==
  pages' = [q \in Pages |->
    IF q = p THEN [pages[p] EXCEPT !.outbox = @ \ {u}]
    ELSE IF q \in listeners /\ DocOf[q] = DocOf[p]
         THEN [pages[q] EXCEPT !.inbox = @ \cup {u}]
         ELSE pages[q]]

\* applyUpdate of collab-room.js.
Merge(d, u, editor) ==
  rooms' = [rooms EXCEPT ![d].ydoc = @ \cup {u}, ![d].dirty = TRUE,
                         ![d].lastEditorId = editor]

Members == {p \in Pages : pages[p].member}

\* Mutant: any permission admits an update.
ApplyAnyUpdate(p, u) ==
  /\ u \in pages[p].outbox
  /\ GetOrCreateRoom(DocOf[p])
  /\ Merge(DocOf[p], u, UserOf[p])
  /\ Relay(p, u, Members)
  /\ UNCHANGED <<storage, joins, asker, faults>>

\* Mutant: a page is relayed updates only once it has its initial state.
ApplyUpdateToReady(p, u) ==
  /\ u \in pages[p].outbox
  /\ p \in Editors
  /\ GetOrCreateRoom(DocOf[p])
  /\ Merge(DocOf[p], u, UserOf[p])
  /\ Relay(p, u, {q \in Members : pages[q].state = "ready"})
  /\ UNCHANGED <<storage, joins, asker, faults>>

\* The server handles an editor's doc:update and relays it to the others.
ApplyUpdate(p, u) ==
  /\ u \in pages[p].outbox
  /\ p \in Editors
  /\ GetOrCreateRoom(DocOf[p])
  /\ Merge(DocOf[p], u, UserOf[p])
  /\ Relay(p, u, Members)
  /\ UNCHANGED <<storage, joins, asker, faults>>

\* A viewer's doc:update is dropped, after the room was created for it.
RefuseUpdate(p, u) ==
  /\ u \in pages[p].outbox
  /\ p \notin Editors
  /\ GetOrCreateRoom(DocOf[p])
  /\ pages' = [pages EXCEPT ![p].outbox = @ \ {u}]
  /\ UNCHANGED <<storage, rooms, joins, asker, faults>>

\* The permission query of a doc:update rejects: the message is logged and
\* dropped, and nobody is told.  The echo of an update is no loss, as the
\* server has relayed it before.
UpdateFails(p, u) ==
  /\ u \in pages[p].outbox
  /\ failures < MaxFailures
  /\ failures' = failures + 1
  /\ GetOrCreateRoom(DocOf[p])
  /\ pages' = [pages EXCEPT ![p].outbox = @ \ {u}]
  /\ lost' = IF AuthorOf[u] = p THEN lost \cup {u} ELSE lost
  /\ UNCHANGED <<storage, rooms, joins, asker, drops, restarts>>

-----------------------------------------------------------------------------
(* flushAllDirtyRooms.                                                     *)

NeedsFlush(d) == rooms[d].dirty /\ rooms[d].lastEditorId # None

\* The loop goes on after position i of the Map: it skips the rooms that do
\* not need a flush and persists the next one, or ends.
FlushFrom(f, pc, i) ==
  \E k \in DOMAIN roomOrder :
    LET d == roomOrder[k]
    IN /\ k > i /\ NeedsFlush(d)
       /\ \A m \in (i + 1)..(k - 1) : ~NeedsFlush(roomOrder[m])
       /\ Storage!Persist(f, pc, d, rooms[d].lastEditorId, rooms[d].ydoc,
                          rooms[d].latestVersionId)

\* Mutant: the room takes the new version's id before the version is saved.
FlushStartsEagerly(f) ==
  /\ FlushFrom(f, "idle", 0)
  /\ rooms' = [rooms EXCEPT ![jobs'[f].docId].latestVersionId =
                 jobs'[f].versionId]
  /\ UNCHANGED <<roomOrder, joins, pages, asker, faults>>

\* The interval fires.
FlushStarts(f) ==
  /\ FlushFrom(f, "idle", 0)
  /\ UNCHANGED <<rooms, roomOrder, joins, pages, asker, faults>>

\* Mutant: the room takes the row that was created, not its versionId.
FlushReturnsRow(f) ==
  /\ jobs[f].pc = "done"
  /\ rooms' = [rooms EXCEPT ![jobs[f].docId] =
       [@ EXCEPT !.latestVersionId = Storage!RowOf(f), !.dirty = FALSE]]
  /\ Storage!Return(f)
  /\ UNCHANGED <<roomOrder, joins, pages, asker, faults>>

\* persistDocumentVersion returns; the loop goes on in the same tick.
FlushReturns(f) ==
  LET d == jobs[f].docId
      i == CHOOSE k \in DOMAIN roomOrder : roomOrder[k] = d
  IN /\ jobs[f].pc = "done"
     /\ rooms' = [rooms EXCEPT ![d] =
          [@ EXCEPT !.latestVersionId = jobs[f].versionId, !.dirty = FALSE]]
     /\ \/ FlushFrom(f, "done", i)
        \/ /\ \A k \in DOMAIN roomOrder : k > i => ~NeedsFlush(roomOrder[k])
           /\ Storage!Return(f)
     /\ UNCHANGED <<roomOrder, joins, pages, asker, faults>>

-----------------------------------------------------------------------------
(* Saves and restores by the page, and the storage protocol behind them.   *)

\* The 30-second autosave or the "Save version" button.
SavePage(r, p) ==
  /\ pages[p].state = "ready"
  /\ p \in Editors
  /\ asker' = [asker EXCEPT ![r] = [page |-> p, reloads |-> FALSE]]
  /\ Storage!Persist(r, "idle", DocOf[p], UserOf[p], pages[p].ydoc,
                     pages[p].parent)
  /\ UNCHANGED <<rooms, roomOrder, joins, pages, faults>>

RestoreVersion(r, p, v) ==
  /\ pages[p].state = "ready"
  /\ p \in Editors
  /\ Storage!HasRow(DocOf[p], v)
  /\ asker' = [asker EXCEPT ![r] = [page |-> p, reloads |-> TRUE]]
  /\ Storage!Restore(r, DocOf[p], UserOf[p], v)
  /\ UNCHANGED <<rooms, roomOrder, joins, pages, faults>>

\* The page is left.  What it sent still arrives.
Left(page) == [NewPage EXCEPT !.state = "closed", !.outbox = page.outbox]

\* Mutant: the page takes the saved version, not its versionId.
RequestReturnsSaved(r) ==
  /\ asker' = [asker EXCEPT ![r] = NoAsker]
  /\ pages' = [p \in Pages |->
       IF p # asker[r].page \/ pages[p].state # "ready" THEN pages[p]
       ELSE IF asker[r].reloads THEN Left(pages[p])
       ELSE [pages[p] EXCEPT !.parent = Storage!RowOf(r)]]
  /\ Storage!Return(r)
  /\ UNCHANGED <<rooms, roomOrder, joins, faults>>

\* The answer, if the page is still there: after a save it becomes the page's
\* parent version, after a restore the page is reloaded.
RequestReturns(r) ==
  /\ asker' = [asker EXCEPT ![r] = NoAsker]
  /\ pages' = [p \in Pages |->
       IF p # asker[r].page \/ pages[p].state # "ready" THEN pages[p]
       ELSE IF asker[r].reloads THEN Left(pages[p])
       ELSE [pages[p] EXCEPT !.parent = jobs[r].versionId]]
  /\ Storage!Return(r)
  /\ UNCHANGED <<rooms, roomOrder, joins, faults>>

StorageStep(j) ==
  /\ \/ Storage!BridgeOpens(j) \/ Storage!BridgeWrites(j)
     \/ Storage!CreateRow(j) \/ Storage!Publish(j) \/ Storage!Lost(j)
     \/ Storage!RestoreFind(j) \/ Storage!RestoreFetch(j)
  /\ UNCHANGED <<rooms, roomOrder, joins, pages, asker, faults>>

\* Mutant: the flag is reset in a finally block.
CallFailsClean(j) ==
  /\ failures < MaxFailures
  /\ failures' = failures + 1
  /\ Storage!GiveUp(j)
  /\ asker' = [r \in Requests |-> IF r = j THEN NoAsker ELSE asker[r]]
  /\ rooms' = [d \in Docs |-> IF j \in Passes /\ d = jobs[j].docId
                              THEN [rooms[d] EXCEPT !.dirty = FALSE]
                              ELSE rooms[d]]
  /\ UNCHANGED <<roomOrder, joins, pages, lost, drops, restarts>>

\* An awaited call rejects.  The page keeps its parent; a flush that fails
\* ends its whole pass and leaves its room dirty.
CallFails(j) ==
  /\ failures < MaxFailures
  /\ failures' = failures + 1
  /\ Storage!GiveUp(j)
  /\ asker' = [r \in Requests |-> IF r = j THEN NoAsker ELSE asker[r]]
  /\ UNCHANGED <<rooms, roomOrder, joins, pages, lost, drops, restarts>>

-----------------------------------------------------------------------------
(* Connections and restarts.                                               *)

\* The user leaves the editor.
Close(p) ==
  /\ pages[p].state \notin {"new", "closed"}
  /\ pages' = [pages EXCEPT ![p] = Left(@)]
  /\ UNCHANGED <<storage, rooms, roomOrder, joins, asker, faults>>

\* A page whose connection was replaced: Socket.IO reconnects by itself, but
\* doc:join was sent once, when the page opened.  What was sent may be lost,
\* what was typed meanwhile is kept and sent.
Reconnected(page, kept) ==
  IF page.state \in {"joining", "acked"}
  THEN [NewPage EXCEPT !.state = "failed"]
  ELSE [page EXCEPT !.member = FALSE, !.inbox = {}, !.outbox = kept]

Drop(p) ==
  /\ drops < MaxDrops
  /\ drops' = drops + 1
  /\ pages[p].state \in {"joining", "acked", "ready"}
  /\ \E kept \in SUBSET pages[p].outbox :
       pages' = [pages EXCEPT ![p] = Reconnected(@, kept)]
  /\ UNCHANGED <<storage, rooms, roomOrder, joins, asker, lost>>
  /\ UNCHANGED <<failures, restarts>>

\* The backend dies and is started again: the rooms are gone.
Restart ==
  /\ restarts < MaxRestarts
  /\ restarts' = restarts + 1
  /\ Storage!Crash
  /\ rooms' = [d \in Docs |-> NewRoom]
  /\ roomOrder' = <<>>
  /\ joins' = [p \in Pages |-> NoJoin]
  /\ \E kept \in [Pages -> Contents] :
       /\ \A p \in Pages : kept[p] \subseteq pages[p].outbox
       /\ pages' = [p \in Pages |-> Reconnected(pages[p], kept[p])]
  /\ asker' = [r \in Requests |-> NoAsker]
  /\ UNCHANGED <<lost, failures, drops>>

-----------------------------------------------------------------------------
LoadStep(p) ==
  \/ LoadReadsDoc(p) \/ LoadGetsDoc(p) \/ LoadGetsRow(p) \/ LoadGetsBlob(p)

Next ==
  \/ \E p \in Pages :
       \/ JoinLoaded(p) \/ JoinLoads(p) \/ JoinFails(p)
       \/ LoadStep(p) \/ LoadFails(p)
       \/ ReceiveAck(p) \/ Close(p) \/ Drop(p)
       \/ \E u \in Updates : \/ Edit(p, u) \/ ReceiveUpdate(p, u)
                             \/ ApplyUpdate(p, u) \/ RefuseUpdate(p, u)
                             \/ UpdateFails(p, u)
       \/ \E r \in Requests : \/ SavePage(r, p)
                              \/ \E v \in VersionIds : RestoreVersion(r, p, v)
  \/ \E f \in Passes : FlushStarts(f) \/ FlushReturns(f)
  \/ \E r \in Requests : RequestReturns(r)
  \/ \E j \in Jobs : StorageStep(j) \/ CallFails(j)
  \/ Restart

Spec == Init /\ [][Next]_vars

\* The backend and the network make progress: handlers are resumed, the
\* interval fires, messages on a connection arrive.  Users owe nothing.
Fairness ==
  /\ \A p \in Pages : /\ WF_vars(LoadStep(p))
                      /\ WF_vars(ReceiveAck(p))
  /\ \A p \in Pages, u \in Updates :
       /\ WF_vars(ReceiveUpdate(p, u))
       /\ WF_vars(ApplyUpdate(p, u))
       /\ WF_vars(RefuseUpdate(p, u))
  /\ \A f \in Passes : WF_vars(FlushStarts(f)) /\ WF_vars(FlushReturns(f))
  /\ \A r \in Requests : WF_vars(RequestReturns(r))
  /\ \A j \in Jobs : WF_vars(StorageStep(j))

FairSpec == Spec /\ Fairness

-----------------------------------------------------------------------------
(* Properties.                                                             *)

PagesOf(d) == {p \in Pages : DocOf[p] = d}

\* Updates of editors that have not been handled by the server yet.
OnTheirWay(d) == UNION {pages[p].outbox : p \in PagesOf(d) \cap Editors}

\* What the versions of d hold.
Stored(d) == UNION {r.checksum : r \in {q \in versions : q.docId = d}}

\* No update falls between the state a page is sent and the updates it is
\* relayed: whatever the room has merged, a subscribed page has, or is about
\* to receive, even while other joins are still loading the room.  An edit
\* that was dropped on arrival is not relayed, and only that edit is missed.
NoGap ==
  \A p \in Pages : pages[p].member =>
    rooms[DocOf[p]].ydoc \subseteq
      pages[p].ydoc \cup pages[p].inbox \cup OnTheirWay(DocOf[p]) \cup lost

\* A room that can be flushed has merged every version of its document, or
\* is about to be sent what it lacks: a flush never forgets saved content --
\* but for the edits it was sent and dropped, which a page may have saved.
NothingForgotten ==
  \A d \in Docs : rooms[d].loaded \/ rooms[d].dirty =>
    Stored(d) \subseteq rooms[d].ydoc \cup OnTheirWay(d) \cup lost

\* The author recorded for a version has the right to edit the document,
\* although the flush takes the author from the last update of anybody.
AuthorsAreEditors ==
  \A r \in versions :
    \E p \in Editors : UserOf[p] = r.authorId /\ DocOf[p] = r.docId

\* The rooms, the flush and the requests use the storage only through its
\* protocol, and name as parent only a version the document has: what holds
\* of DocStorage holds here.
UsesStorage == Storage!Spec

\* An update that is in a dirty room at a moment when no flush in progress
\* was started without it ends up in a version, unless the backend dies.
SettledEditsAreSaved ==
  \A d \in Docs, u \in Updates :
    /\ rooms[d].dirty /\ u \in rooms[d].ydoc
    /\ \A f \in Passes : jobs[f].live /\ jobs[f].docId = d
                           => u \in jobs[f].payload
    ~> u \in Stored(d) \/ u \notin rooms[d].ydoc

\* Every update a room has merged reaches every page that stays open.
PagesConverge ==
  \A p \in Pages, u \in Updates :
    pages[p].state = "ready" /\ u \in rooms[DocOf[p]].ydoc
      ~> u \in pages[p].ydoc \/ pages[p].state # "ready"

\* README.md: "Periodic autosave to DFS".  What the server has accepted is
\* saved, also when no page is left whose own autosave could do it.
AcceptedEditsAreSaved ==
  \A d \in Docs, u \in Updates :
    /\ u \in rooms[d].ydoc
    /\ \A p \in PagesOf(d) : pages[p].state = "closed"
    ~> u \in Stored(d)

\* README.md: "restore any version".  A page reloaded when a restore has
\* returned and nothing else is going on is sent the version restored.
RestoreIsShown ==
  \A r \in Requests, d \in Docs :
    /\ jobs[r].pc = "done" /\ asker[r].reloads /\ jobs[r].docId = d
    /\ \A j \in Jobs \ {r} : jobs[j].pc = "idle"
    /\ OnTheirWay(d) = {}
    /\ rooms[d].loaded /\ ~rooms[d].dirty
    => rooms[d].ydoc = jobs[r].payload
=============================================================================
