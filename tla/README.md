# NoDoop in TLA+

NoDoop is a collaborative document editor: an Express and Socket.IO backend
over MongoDB, React pages that edit Yjs documents, and a distributed file
system in Go whose HTTP bridge keeps the payload of every saved version. This
directory holds TLA+ models of its core, the TLC runs that check them on small
instances, and proofs, checked by TLAPS, of what holds for every instance.

Paths below are relative to the repository; the backend is
`cmd/backend/src`, the pages are `frontend/src`.

## Inventory

| Component | State | Operations | Correct when |
|---|---|---|---|
| Version storage (`services/doc-storage.js`, `dfs-client.js`, `models/DocVersion.js`) | rows of `doc_versions`, `latestVersionId` of each document, blobs of the bridge | `persistDocumentVersion`: PUT the blob, create the row, move the pointer; no transaction | no row without its blob, no pointer without its row, history only grows and has no cycle |
| DFS bridge (`cmd/dfsbridge/main.go`) | one file per key | PUT creates then fills, GET copies out | a blob that a row names is whole |
| Save, read, restore routes (`routes/docs.js`) | none of their own | several awaited reads, then a save | what is read together belongs together |
| Collaboration rooms (`services/collab-room.js`) | a Map of rooms: Yjs document, `loaded`, `dirty`, `lastEditorId`, `latestVersionId`, clients | create, load, merge, encode, flush all | nothing merged is forgotten or left unsaved |
| Socket handlers (`sockets/collab.js`) | Socket.IO rooms | join, update, presence, cursor and comment relays, the 5-second flush | pages converge; only editors change a document |
| Editor page (`EditorPage.jsx`, `SocketIOProvider.js`, `VersionHistoryPanel.jsx`) | Yjs document, parent version, role, status | join, edit, apply, autosave, save, restore | shows what the room holds |
| Access control (`middleware/require-doc-access.js`, sharing routes) | `permissions`, `ownerId` | share, invite, change role, remove, transfer | exactly one owner; a checked role still holds when used |
| Presence | clients of the room, roster of each page | join, leave | the roster shows who is there |
| Comments (`routes/comments.js`, `CommentsSidebar.jsx`) | comments with replies; the list of each page | create, reply, resolve, fetch, relay | lists agree with the database |
| Accounts (`routes/auth.js`, `services/tokens.js`) | users, sessions, tokens | register, login, refresh | one user per address |
| Dashboard (`DashboardPage.jsx`) | the list on the screen | search, create, rename, delete | shows the answer to the last search |
| DFS file server and transport (`distributed_filesys`) | files, peers, the byte stream of each connection | Store, Get, message handlers, stream hand-over | a stored file can be fetched; no reader is stuck |

The components meet in four ways. The pages talk to the socket handlers with
messages, ordered per connection and lost with it. The handlers share the Map
of rooms in memory; JavaScript runs one at a time and switches only at an
`await`. The rooms and the routes share the database and the bridge through
remote calls, each of which can reject and still take effect. The flush, the
autosave of each page, the manual saves and the restores all write versions of
the same document, with nothing to order them.

What is hard is therefore the interleaving at awaits, calls that fail between
two steps of a save, restarts that forget the rooms, and connections that come
back without their room. `PROJECT.json` lists every such place by line under
"hazards", with the properties that cover it.

## Modules

| Module | Models | Uses |
|---|---|---|
| `VersionLog` | what version storage promises: an append-only log and a head per document | |
| `DocStorage` | version storage, bridge, and the save, read and restore routes, one action per awaited call | `VersionLog` as its abstraction |
| `Collab` | rooms, join and update handlers, flush, pages, restarts | `DocStorage` by INSTANCE: its actions are the storage's own |
| `DocAccess` | permissions and ownership: the sharing routes and the sharing panel | |
| `FileServer` | the peer-to-peer file server over its byte streams | |
| `Presence` | connections, Socket.IO rooms, joins and leaves, rosters | |
| `Comments` | comment routes, relay and sidebar | extends `Presence`: every step of the connections is a step of it |
| `Dashboard` | the list of documents on the screen and the routes behind it | |
| `MCDocStorage`, `MCCollab`, `MCDocAccess`, `MCFileServer`, `MCComments` | instances for TLC | the module each is named after |
| `VersionLogProofs`, `DocStorageProofs`, `CollabProofs`, `DocAccessProofs`, `FileServerProofs`, `PresenceProofs`, `CommentsProofs`, `DashboardProofs` | theorems | the module each is named after; `CollabProofs` also the theorems of `DocStorageProofs`, `CommentsProofs` those of `PresenceProofs` |

### DocStorage

`blobs` is the bridge, `versions` the collection `doc_versions`, `latest` the
pointer of each document, `jobs` the calls of `persistDocumentVersion` in
progress, `reads` the `GET /docs/:id` requests in progress.

A save is `Persist` (up to the first await: `randomUUID` and the PUT is sent),
`BridgeOpens` and `BridgeWrites` (the file exists empty, then whole),
`CreateRow`, `Publish`, `Return`. `Save` and `Restore`, `RestoreFind`,
`RestoreFetch` are the callers; `GetDoc`, `GetRow`, `GetBlob`, `GetEnds` the
read route. In `GiveUp` the caller gets an error while the request may still
be on its way: the job keeps its stage with `live = FALSE` and either takes
effect later, once, or is `Lost`. `Crash` does this to all jobs at once. An
error that comes before the effect is `GiveUp` then `Lost`.

Data that no property tells apart is abstracted: a Yjs document is the set of
updates merged into it, so merging is union; a payload is the set it encodes;
a checksum is the payload it was computed from; a `dfsKey` is the version id
in it. Documents are archived but never removed, so the answer `null` of
`Document.findById` does not occur. `clock` gives each row its own `createdAt`:
rows created within one millisecond, whose order the sort leaves open, are not
distinguished.

### Collab

`rooms` and `roomOrder` are the Map (its order decides the order of a flush),
`joins` the `doc:join` handlers suspended inside `loadRoomState`, `pages` the
editor pages with what is on their connections, `asker` the page that waits
for a request, and whether it reloads when it is answered.

* Join: `JoinLoaded`, or `JoinLoads` then `LoadReadsDoc` (the database
  answers), `LoadGetsDoc` (the handler is resumed), `LoadGetsRow`,
  `LoadGetsBlob`. The last of them ends in `FinishJoin`: subscribe, encode,
  answer, all in one tick. `LoadFails` leaves the room as it is; `JoinFails`
  is the permission query that rejects.
* Editing: `Edit`, `ApplyUpdate` (merge, mark dirty, remember the editor,
  relay), `RefuseUpdate` (a viewer's update, for which the room is created all
  the same), `UpdateFails` (the permission query rejects: the update is logged
  and dropped), `ReceiveUpdate` with the echo described under Findings.
* Flush: `FlushStarts` when the interval fires, the storage's own actions, and
  `FlushReturns`, which clears `dirty` and goes on to the next dirty room in
  the same tick. Passes overlap, as `setInterval` lets them.
* Requests: `SavePage`, `RequestReturns`, `RestoreVersion`.
* Failures: `CallFails`, `Drop` (a connection is replaced), `Close`, `Restart`.

The permission query, the first await of a handler, is taken together with the
handler, whether it answers or rejects: nothing precedes it but the creation of
an empty room, so another handler that runs in between could as well have run
before. `lost` is history, the edits dropped when it rejected: their page has
them, and may even save them, but no room ever merges them. Roles are constant
here; `DocAccess` changes them, and the two are not composed. A closed page
does not come back: reopening or reloading is another page. A page left inside
the application keeps its connection subscribed, which has no effect on
documents because its listeners are removed.

### DocAccess

One document: the rows of one document concern no other. `owner` is its
`ownerId`, `role` the permission rows (unique by index, so a function of the
user), `reqs` the requests in progress, `panel` the sharing panel of one user,
`Me`.

A request waits for one call at a time, `pc`: `Check` (`requireDocAccess`),
`Read` (the document, or the invited user, and the refusals that compare it),
`ReadTarget` (the target's permission), then its write. `WriteRole` is the one
write of share, invite, role change and removal, `TransferWrite` each of the
three parallel writes of a transfer in any order, `ReadRows` the list. `Create`
and `CreatePermission` are the two calls that make a document. `CallFails`,
`AnswerLost` and `TransferWriteFails` are calls that reject without and with
effect; `Promise.all` rejects with the first and the other writes go on. The
panel sends (`OpenPanel`, `SubmitInvite`, `PressRow`), is told in any order
(`Receive`), gives up after 15 seconds (`TimeOut`) and may be closed meanwhile.

A request of anybody else begins after its permission query (`Ask`): before it
nothing has happened and a refusal changes nothing. `exact` says whether it
spells its target as the database does: the schemas admit capitals
(`schemas.js:42` and `:54`), the routes compare the id as a string with the
owner's (`docs.js:410`, `:471`, `:497`), and the queries behind them cast it,
so that a request not `exact` passes a comparison that should refuse it and
then writes all the same. Two variables are history. `calm` says that nothing
has happened which the routes do not expect: two transfers at once, a transfer
beside a share, invitation, role change or removal that concerns its target, a
failed creation, a half-failed transfer, `POST /share` naming the owner, any
other request that names the owner in another spelling. `panel.sole` says that
only this panel has changed roles, one request at a time for each row. They are
read by properties only; no action depends on them.

### FileServer

`up` and `broken` are the connections, `wire[n][m]` what n has written and m
has not read, `reader[n][m]` the goroutine that reads the connection,
`open[n][m]` its WaitGroup, `queue` the channel `rpcch`, `handler` what the
loop of a node is doing, `call` the Store or Get in progress, `disk` the files.

The bytes have no frames. A wire holds the pieces the code writes with one
call: a marker, a message, a size, the IV, the data. `Peek` takes one byte,
`Body` one `Read` of up to 8 KB: the message and whatever has arrived behind
it, which is lost. `Park` and `Resume` are the WaitGroup; `CloseStream` on a
counter of zero panics and takes the process `down`. Store is `StoreStarts`,
`Tell` (two writes for each peer), `SendFile` after the sleep, `StreamPiece`
(one write of the MultiWriter, which stops at the first peer that is gone); Get
is `GetStarts`, `Tell`, `AskPeers`, `Choose`, `ReadSize`, `ReadData`,
`GetEnds`; the loop is `Dispatch`, `StoreData`, `ServePiece`. `Connect`,
`Break` (what was sent is lost from some point on) and `FileLost` come from
outside.

The code leaves to timing what it does not synchronise, and the model lets
every step come when it can. `hurries` is history: it counts the steps that
came before the network was ready for them, and each such step says at its
`InTime` what ready means. Store's stream begins when the announcements have
been read (`SendFile`, after a sleep of 5 ms); a handler, or Get, reads from a
connection when the reader has found the marker and is parked (`Turn`); a Get
begins when all is quiet, and a Store when nobody is getting; a node connects
while neither end is between the first announcement of a call and its stream,
or its last answer, and without meeting a range over the map of peers, which in
Go may end the process. `Connect` itself can happen at any time, also during
the two sleeps, and makes both ends know each other in one step. `MaxHurries`
bounds these steps, and `MaxFaults` them and the broken connections together.
The promises are about networks that are `Undisturbed`, that is, without a
broken connection and without a hurried step; what happens in others is told
under Findings. Once a reader or a Get has taken a byte for something it is
not, its further interpretation of the stream is not followed (`garbled`,
`lost`). Keys keep their owner's id; encryption and hashing are conversions.

### Presence and Comments

A tab has one connection at a time, numbered by `current`; `ended` holds those
whose `disconnecting` event the server has handled, `joins` the `doc:join`
handlers in progress, `members` the Socket.IO rooms, `clients` the sets
`room.clients` in the order of insertion, `wire` the events on their way to a
tab. `Visit` and `Leave` are the effect of the editor page and its cleanup, and
`Join`, `RefuseJoin`, `Disconnecting` the server's handlers, each in the tick
after its last await. A join that finishes when its connection has ended still
adds to `clients` and still announces its user, but it does not add to
`members`: in the version that is locked, 4.8.3, Socket.IO makes `join` of such
a connection do nothing. `Visit` numbers the visits of a tab, so that an answer
to an earlier one finds its component gone.

`Comments` adds the database (`db`), the sidebars (`side`), requests (`calls`)
and the events that pages send when their comment is stored (`relays`). A
request takes effect (`Serve`), is answered (`Answered`) or fails (`CallFails`,
`Refused`), in any order. A comment is its number of replies and whether it is
resolved; the database keeps them in the order of `createdAt`, which is given
and stored in one step. A fetch answers the newest `Limit` of them (`Fetched`),
200 in the code. `overtaken` and `sole` of a sidebar and `complete` are
history: a comment was being made while the sidebar opened or fetched; somebody
else touched a thread; a comment was stored whose author was not told, or was
lost on the way to the server.

### Dashboard

One user's page and their documents: `docs`, `page`, `calls`. `Type` clears and
sets the 300 ms timer, `TimerFires` sends the fetch, `Refresh`, `PressCreate`,
`PressDelete`, `PressToggle`, `StartRename`, `SubmitRename` are the handlers,
`ListIds` and `ListDocs`, `CreateDocument` and `CreatePermission`, `Change` the
routes call by call, `Receive` what the page makes of an answer. A search finds
the documents that have this title. `page.orderly` is history: no request about
the same rows was sent before the answer to another, and none failed.

## Runs

All runs use one to three model values per set. Values that are
interchangeable are reduced by symmetry where only safety is checked. Bounds
are constants whose names begin with `Max`, and in the storage modules the
finite set `VersionIds`, which bounds the saves that begin.

| Run | Instance | Shows |
|---|---|---|
| `DocStorage_versions` | two writers, a reader, two documents, three versions; any number of rejected calls and crashes | types, `RowsHaveTheirBlob`, `HeadHasRow`, `ParentPrecedesChild`, `ReadsAreServed`, `RestoreCopies`, and the refinement `ImplementsVersionLog` |
| `Collab_sync` | two editors join a document with a saved version, one flush, one request, one failure | types, `NoGap`, `NothingForgotten` |
| `Collab_faults` | an editor and a viewer, two passes of the flush beside a save or a restore, one lost connection, one restart | `AuthorsAreEditors`, and `UsesStorage`: every step on the storage is a step of `DocStorage` |
| `Collab_live` | under fairness, an editor and a viewer, two updates, three versions, one failure | `SettledEditsAreSaved`, `PagesConverge` |
| `DocAccess_sharing` | three users, two requests at once, three in all, one failure, one panel | types, `OneOwner`, `OwnersHadAccess`, `LostOwnersStayLost`, `PanelShowsRoles` |
| `FileServer_files` | three nodes in a star that connect at any time, one key, two calls, lost files, and a broken connection or a hurried step | types, `CopiesAreWhole` |
| `FileServer_serves` | under fairness, two nodes, three calls, a broken connection, lost files | `StoresReplicate`, `GetsReturn`, `ReadersResume` |
| `Comments_rooms` | two documents, two users with a page each, two visits, and of these up to four: a lost connection or failing request, two sidebars opened, two comments where a fetch answers one, two replies or resolutions | types, `OnlyClientsAreShown`, `NewcomersAreShown`, `EachShownOnce`, `OwnThreadsAgree` |
| `Dashboard_list` | two documents, two titles, three things done by the user, one failure | types, `ListIsRight`, and under fairness `LoadingEnds` |
| `Collab_lost`, `Collab_restore`, `FileServer_honest` | as their neighbours | the findings below: TLC finds the stated property violated |

Why these bounds are enough: every race named under "hazards" is between two
actors (two passes, a pass and a request, a writer and a join, two requests,
two sidebars, a fetch and a change), and some instance has both. Two passes
overlap in `Collab_faults` only, whose properties are those an overlap
threatens; in the others one pass follows another. `Collab` has one document in
every run: that a pass goes from one room to the next is only in the proofs,
which are for any number of rooms. A failure, a drop and a restart each already
leave the state from which the others start.

* Storage: three versions allow an old parent, a newer head and a save in
  progress. `Collab_live` has one version more than its two updates need, so
  that a failed save never uses up the last one and a missing save is the
  code's doing.
* `DocAccess`: two requests overlap; a third, when one of them has ended, sees
  what they left; three users are an owner, a target and a bystander.
* `FileServer`: a Store, the loss of the file and a Get are two calls, and a
  third one finds what the second left in the connection; the star has a peer
  before and one after the broken connection. One hurried step is enough to make
  a copy, or a reader, go wrong for good.
* `Comments` and `Dashboard`: each way in which a list learns of a change
  occurs with each other way before and after it: two answers about one thread
  overtake each other, one sidebar answers for another to be told. One comment
  suffices, as comments are shown, or not, one by one, but for the limit of a
  fetch, which two comments and a `Limit` of one go beyond.

Deadlock is checked in `DocStorage`. Elsewhere everything may come to rest with
all pages closed or idle, the users wanting nothing more and the bounds used
up, so the other runs switch the check off.

Fairness. `Collab.FairSpec` is weak fairness of what the event loop, the
interval, the database, the bridge and a live connection do by themselves:
resuming handlers, answering calls, delivering messages, starting a flush.
Node.js resumes a callback whose event has arrived, and the 5-second interval
is never cleared. `FileServer.FairSpec` is weak fairness of all system steps
together: while some goroutine can run, one does, and sleeps end; it does not
say which one. `Dashboard.FairSpec` is that the timer fires and that the
backend answers and the page hears of it. Users owe nothing anywhere: no
fairness on typing, saving, pressing or closing. None on failures either.

`SettledEditsAreSaved`, `NoGap` and `NothingForgotten` are stated for
connections that are kept, and the last two leave out the updates in `lost` and
no others; the promises of `FileServer` are for networks that are `Undisturbed`.
`OneOwner`, `PanelShowsRoles`, `EachShownOnce`, `OwnThreadsAgree` and
`ListIsRight` have a history variable in their premise. It leaves out the
circumstances in which the code goes wrong, and, to be simple, some in which
it only may: a request that names the owner in another spelling ends `calm`
whatever it then does, and every comment made while a sidebar fetches makes it
`overtaken`. What the premises leave out is said at the hazard concerned, and
under Findings.

## Findings

Three have a run of their own, in which TLC finds what the documentation
promises to be violated.

* `Collab_lost`: an update merged while a flush of its room waits for the
  storage is marked saved (`collab-room.js:83`) without being in the version.
* `Collab_restore`: the restore route stores a version but leaves the room in
  memory; the reloaded page shows, and the next flush stores, the old content.
* `FileServer_honest`: when one connection breaks in the middle of a Store, a
  peer whose connection is good is left waiting for the rest, and takes it from
  the next Store: its replica holds a message and another file's bytes.

Others were met while modelling; the models behave in these ways, and the
properties above are stated so that they hold all the same.

* `POST /share` writes the role it is given without looking who the owner is
  (`docs.js:309`), so the owner can be made a viewer of its own document, which
  the other routes refuse (`docs.js:411`).
* An update whose permission query rejects is dropped (`collab.js:76` and
  `:90`); its page is not told, keeps it, and may save it as a version that
  the room then overwrites without it.
* The owner named in capitals is not recognised by the refusals of role change,
  removal and transfer (`docs.js:410`, `:471`, `:497`), and is demoted or
  removed.
* `doc:join` is sent once (`EditorPage.jsx:65`); after a reconnection the page
  sends updates and receives none. `PagesConverge` is violated as soon as
  `MaxDrops` is 1.
* A page sends back the updates it receives (`SocketIOProvider.js:30` and
  `:34`), so the author of a flushed version may be somebody who only watched.
* The newest row of the history, labelled "Current version", need not be the
  version the document points at.
* A transfer that fails half-way, or overlaps with another or with a request
  about its target, leaves a document with two owners, with none, or with
  an owner it does not name (`docs.js:514`). Without an owner nobody can ever
  repair it.
* Whoever joins a document is not told who was there before, although
  `README.md:10` promises who is online.
* A connection that is lost while its `doc:join` waits is announced after it
  has ended (`collab.js:55-62`), and nobody is ever told that it left;
  `room.clients` keeps it for good.
* A page that turns to another document tells the server nothing
  (`EditorPage.jsx:102`); the others go on showing its user.
* A comment made while a sidebar fetches is in the answer and in the event, and
  is shown twice (`CommentsSidebar.jsx:123`), or is lost to it. The answers to a
  reply and a resolution may overtake each other, and the older thread stays on
  the screen (`CommentsSidebar.jsx:169`).
* The sidebar's `onCreate` ignores the document of a comment: comments of the
  document left before are shown. Replies and resolutions are never emitted by
  any page. With more comments than the 200 a fetch answers the oldest are not
  to be seen.
* Two answers out of order leave the dashboard with an older list or title;
  `updatingPrefId` and `renamingId` are one for all rows.
* A peer is never removed, so that after one broken connection every Store
  ends in an error. A Get waits for ever for a peer that has not got the file
  (`server.go:130` and `:195`), although another one has.
* A node that connects after a Store has told its peers is sent a stream it was
  not told of (`server.go:97`): it stores nothing, and its reader waits for ever.
* The handler of an announcement may read from the connection before the
  reader has taken the stream marker off it (`server.go:235`); the marker is
  then stored as the beginning of the file.
* Two logins of one user within one second get the same refresh token, whose
  hash is unique; the second login fails. No page calls `refresh`.

## Proofs

TLAPS proves the following for every value of the constants that satisfies the
assumptions named in the modules. Each proof is by an inductive invariant; none
of the invariants the runs check is inductive alone. Each inductive invariant
was checked with TLC on the run's instance before it was proved.

Every invariant, action property and refinement that a passing run checks is
also a theorem. The assumptions are few: `None` is none of the values it stands
beside (`NoneIsNothing` and its like), bounds are natural numbers
(`BoundsAreNumbers`), a page has a user and a document (`PagesOfDocs`,
`PagesHaveUsers`), there are finitely many documents to count rooms by
(`DocsAreFinite`), a connection has two ends (`LinksArePairs`), passes of the
flush are not requests (`PassesAreNotRequests`), a fetch answers at least one
comment (`LimitIsPositive`).

`DocStorageProofs` proves every property of `DocStorage` that its run checks:
`TypeOK`, `RowsHaveTheirBlob`, `HeadHasRow`, `ParentPrecedesChild`,
`ReadsAreServed`, `RestoreCopies`, and the refinement of `VersionLog`. That a
row has its blob depends on the blob being whole when the row is created, long
after the PUT, and on nobody else writing it in between. The inductive
invariant `IInv` adds three things: `OwnVersion` (jobs past `randomUUID` hold
different ids), `JobOK` (what a job has already done, stage by stage: nothing,
a torn file, a whole one, a row; it holds whether or not anybody waits for the
job, which is why late effects and crashes do no harm), and `RowsOK` (ids are
unique and rows older than the clock, which orders parents before children).
`ReadOK` says the same of the stages of a read. The proof goes action by
action. Most actions change one job (`OneJob`) or one job and its own blob
(`OneBlob`); `CreateRow`, `Publish` and `Crash` have proofs of their own.

The refinement maps a row to an entry whose content is what its blob holds.
`CreateRow` is `Record`, `Publish` is `MoveHead`, everything else stutters; a
write to a blob stutters because, by `IInv`, no row names it yet.
`RestoreCopies` follows because rows are never removed: the row found is still
there, with its whole blob, when the blob is fetched. `VersionLogProofs` adds
what the log itself promises: heads are always held, entries are final.

`CollabProofs` proves that `Collab` implements `DocStorage` (`UsesStorage`),
that authors may edit (`AuthorsAreEditors`), and `TypeOK`. It instantiates
`DocStorageProofs` on the variables of `Collab`, without readers, so that a
step of the storage keeps `IInv` and what is proved of saves and restores
carries over to the flush (`StorageStaysConsistent`). What has to be added is
why each step is one the storage allows. A save must name as parent a row of
its document: `KnownIds` says so of every id a room, a loading handler or a
page holds, and holds because such an id was read from `latest`, whose row
exists by then, or was returned by a finished save, and because rows are never
removed; a restart empties the rooms but not the pages, whose ids remain good.
`AskersKnown` says that the answer to a request goes to a page of the same
document. For authors, `RoomEditors`, `JobEditors` and `RowEditors` follow the
editor's id from the update it was taken from, through the job that saves the
room later, to the row. Again there is one lemma for each handler; those that
do not call the storage share `QuietStep`, those that do `StorageCall`.

The second half of `CollabProofs` is about contents: `NoGap` and
`NothingForgotten`, for a backend that starts over any consistent storage in
which each head holds what the versions of its document hold (`Start`;
`EmptyStart` shows that the empty storage of `Spec` is one). What a room will
ever hold unless something is lost is `Known(d)`: what is merged, and what is
on its way. `ContentInv` says that, while nothing has been lost (`Undisturbed`:
no connection, no restart), pages, jobs and rows of a loaded room hold nothing
else (`PageKnown`, `JobKnown`, `RowKnown`) but the edits in `lost`, which only
grows. It would not be inductive without `Unloaded`: until a room is loaded
nobody can edit, save or restore its document, so that the loading handlers,
each with its own copy of the head read several calls ago, have all read the
head there still is, and whichever comes last brings nothing old. An update is
merged into the room in the tick that relays it, and a join subscribes in the
tick that encodes its answer: this is why no update falls between, and both
proofs come down to it.

`DocAccessProofs` proves that a document has one owner and names it
(`OneOwner`), that owners had access before (`OwnersHadAccess`), that an
ownerless document stays so (`LostOwnersStayLost`), and `TypeOK`, for any
number of users and requests. `OneOwner` speaks of states at rest, but a
transfer is three writes in any order, each request acts on what it read some
calls ago, and the role it was admitted with is never looked at again. `IInv`
therefore says, while `calm`, what holds in between: before the creation there
are no rows and no requests (`BeforeCreation`), and until its second call there
is no other request than the creation (`DuringCreation`); there is at most one
transfer, and no other request in flight that changes a role is about its
target (`TransfersApart`); a transfer that still has to write has read the
owner there was (`OwnerStillRead`), so that its writes, as far as they are
done, are exactly the difference between the roles before and after
(`HalfWay`); requests that would change a role never name the owner, a role
change or removal because it compares with the owner (`OwnerStillRead`) and, if
it spells the owner so that the comparison lets it through, ends `calm` there;
an invitation because nobody invites oneself and only an owner may invite
(`InvitesSpareOwner`: the one who is invited may still be the owner when a
transfer is just taking that away); and with nothing pending the owner is the
one row there is (`Settles`). All actions fall into eight kinds (`StepKinds`),
and the parts are proved kind by kind: most steps are `Quiet` (they change
neither rows nor what a request is about), and a step that ends `calm` has
nothing to show. `LostOwnersStayLost` does not depend on `calm`: a request that
makes an owner is admitted by an owner, or was admitted before; only `ListOK`
is needed, by which a request for the list never has anything to write.

`PanelShowsRoles` speaks of a panel that waits for nothing, and its proof of
one that does. `PInv` adds to `IInv`, while `calm` and `sole`: the requests of
the panel are about different rows and its fetch is alone (`OneEach`); the rows
no effective request concerns are as they are shown (`OtherRows`); and the
answer to an effective request, one that has begun to write or succeeded, will
make the rows it concerns show the roles of the database, whatever is answered
before it (`AnswersWillShow`). A transfer is the hard case: it concerns two
rows, one of them the user's own, and half of it may be written. That no other
request of the panel touches the user's own row effectively (`OwnRowIsSpared`)
follows from the refusals of the routes.

`DashboardProofs` proves `ListIsRight` in the same way. While the page is
`orderly` and no search is due, `InOrder` says: requests are about different
rows and a fetch is alone (`OneByOne`); a fetch has read, in its two calls,
what is still so (`FetchIsRight`); with no fetch on its way, each row is as its
document is or the answer to the one request about it mends it (`RowsAreRight`,
`Mends`), and what the search finds is listed or being created
(`NothingMissing`).

`PresenceProofs` states its invariant `PInv` for any alphabet of events that
contains its own, so that `CommentsProofs`, whose wires also carry comments,
gets every step of the connections by citing it. The roster of a page is right
although events, answers, drops and the handlers suspended in a join overtake
each other, because for everybody shown or announced there is a client of the
room or a "left" behind it on the same wire (`ShownArePresent`,
`JoinedArePresent`), where a client is what `room.clients` has: the member of
the Socket.IO room, or a connection that ended during its join and is never
taken out; and whoever joins after the first visit of a page is in its roster,
or announced behind its answer (`NewcomersAreTold`). They rest on the two books
of a room agreeing (`RoomsAgree`), events going only to members
(`EventsReachMembers`), and a visit asking once, being answered once, and being
a member by then (`JoinsAreSingle`, `AnswersAreOfVisits`, `TabsAreRight`).

`CommentsProofs` has four layers, each resting on those before. `TInv` is the
types, with `RepliesFit`: the replies in the database and those requested stay
within their bound. `WayInv` follows a comment: its id is in one place at a
time, the request, the database, a relay, and once on each wire. `FollowInv` is
about a sidebar that follows, that is, whose premise in `EachShownOnce` holds:
while it fetches, nothing about its document is on the way and the answer has
the newest there are (`Awaits`); later each of the newest comments of its
document is shown or on its way, and none is both (`HasFetched`), so that none
of them is missing, and none shown twice, once all has arrived. `SoleInv` adds
what the comment says: a page alone with its threads, whose changes are about
what it shows (`TouchesOwn`), is told only what the database holds
(`ComingAgrees`), and where its list differs, the answer to its own request
sets it right (`ListAgrees`).

`FileServerProofs` proves `TypeOK` from `Types`, which also says what each
piece of a stream announces, that a WaitGroup counts the reader parked at it,
and that there is a reader where there is a connection; this holds whatever
comes too early. `CopiesAreWhole` is proved for any network, with any number of
calls, nodes that connect and files that are lost at any time. Its premise,
`Undisturbed`, is about the past, so a step that matters is `Timely`: each
action then gives what its `InTime` asks for, and nothing else is assumed.
While connections last, the network is in one of two modes (`WholeInv`). In
`StoreMode`, any number of nodes store at once, and everything between two of
them is one flow of pieces, of which the next to be read is known by counting
what is left: on the wire, and in the call that still writes (`Unwritten`).
`Stage` says for each number where the reader, its WaitGroup and the handler
are, and `Awaits` that the handler of the other node expects exactly the file
that is coming. No `Body` swallows the stream behind its message, because the
stream is not begun before the announcement has been read; no reader takes a
piece of the stream for a message, because it is parked until the handler has
taken both. In `GetMode(g)` one node gets: towards each peer the request
(`Ask`) and the answer (`Reply`) are flows counted in the same way, and all
else rests (`Others`). A Get that ends leaves everything at rest, `AllAtRest`,
which is a case of `StoreMode`; a Get begins only from there.

Model-checked only: liveness (`SettledEditsAreSaved`, `PagesConverge`,
`StoresReplicate`, `GetsReturn`, `ReadersResume`, `LoadingEnds`), as the prover
has no rule for `ENABLED` and so none for fairness; and, of course, the
properties of the findings, which do not hold.

## Not modelled

* Accounts and sessions. Users and tokens are constants. Registration, login
  and refresh are short sequences of calls over two unique indexes, and nothing
  reads what they leave half-done; what is worth saying is under Findings.
* HTTP plumbing: input validation, rate limits and configuration are sequential
  and keep no state a property is about. The time-out of `api.js` is in
  `DocAccess`.
* The relays of cursors and awareness, which change nothing in the server.
* The two routes that list versions: single reads, whose answer no page checks
  against anything.
* `Delete` and `Clear` of the DFS store, which only a test calls, the node
  runner, encryption, hashing and the spreading of files over directories.
* The views.

## Plan

Done: all modules above, in an order in which a lost or dangling version, then
a document without its owner, then a lost replica come first, and the proofs of
their safety. What is left:

1. Roles that change while pages are open (`Collab` with `DocAccess`): a page
   demoted to viewer goes on editing, and its updates are refused one by one.
2. What the head of a document holds after a restart, when a page that did not
   join again saves: today the premise of `NoGap` and `NothingForgotten` ends
   with the first restart.
3. A proof that a copy is at every moment the beginning of its file while
   nothing disturbs the network, which `WholeInv` is nearly enough for.
