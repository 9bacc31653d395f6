------------------------------ MODULE Dashboard ------------------------------
(***************************************************************************)
(* The list of documents: one user's dashboard (DashboardPage.jsx) and the *)
(* routes of routes/docs.js that list, create, rename, archive and mark    *)
(* documents.  Requests are answered in any order; the page makes of each  *)
(* answer what it can, whatever the others were.                           *)
(*                                                                         *)
(* The user owns all documents and works in this page only; a search finds *)
(* the documents with that title.                                          *)
(***************************************************************************)
EXTENDS Naturals, FiniteSets

CONSTANTS
  DocIds, Titles, None,
  Untitled,   \* the title of a new document
  MaxActs,    \* bound: what the user types and presses
  MaxFailures \* bound: requests that fail

ASSUME NoneIsNothing == None \notin DocIds \cup Titles
ASSUME UntitledIsATitle == Untitled \in Titles
ASSUME BoundsAreNumbers == {MaxActs, MaxFailures} \subseteq Nat

VARIABLES
  docs,  \* the documents
  page,  \* the dashboard
  calls, \* requests in progress
  acts, failures

counts == <<acts, failures>>
vars == <<docs, page, calls, counts>>

Flags == {"starred", "pinned"}
\* made: the document exists; listed: its permission does too.
Document == [made : BOOLEAN, listed : BOOLEAN, archived : BOOLEAN,
             title : Titles \cup {None}, flags : SUBSET Flags]
NoDocument == [made |-> FALSE, listed |-> FALSE, archived |-> FALSE,
               title |-> None, flags |-> {}]
Row == [id : DocIds, title : Titles \cup {None}, flags : SUBSET Flags]
RowOf(d) == [id |-> d, title |-> docs[d].title, flags |-> docs[d].flags]

\* due: the 300 ms timer runs; it is cleared and set again with each change
\* of search, so that it always fires with the search of that moment.
\* updating: updatingPrefId; renaming: renamingId.  orderly: history, no
\* request that concerns the same rows was sent before the answer to another.
Page == [shown : BOOLEAN, search : Titles \cup {None}, due : BOOLEAN,
         loading : BOOLEAN, list : SUBSET Row, updating : DocIds \cup {None},
         renaming : DocIds \cup {None}, creating : BOOLEAN, orderly : BOOLEAN]

\* Mutant: no search is false, not the empty text.
MountedBare == [shown |-> TRUE, search |-> FALSE, due |-> TRUE,
                loading |-> TRUE, list |-> {}, updating |-> None,
                renaming |-> None, creating |-> FALSE, orderly |-> TRUE]

\* The page as it is mounted, with its first fetch due.
Mounted == [shown |-> TRUE, search |-> None, due |-> TRUE, loading |-> TRUE,
            list |-> {}, updating |-> None, renaming |-> None,
            creating |-> FALSE, orderly |-> TRUE]

Kinds == {"fetch", "create", "archive", "rename", "mark"}
\* id: the document, None for a fetch.  title: what is searched for, or the
\* new title.  flag, value: what a mark sets.  ids: the permissions that a
\* fetch has read.  rows: the answer.  mine: the page waits for it.
Call == [kind : Kinds, id : DocIds \cup {None}, title : Titles \cup {None},
         flag : Flags, value : BOOLEAN, ids : SUBSET DocIds,
         rows : SUBSET Row, pc : {"first", "second", "ok", "failed"},
         mine : BOOLEAN]

TypeOK ==
  /\ docs \in [DocIds -> Document]
  /\ page \in Page
  /\ calls \subseteq Call
  /\ acts \in 0..MaxActs
  /\ failures \in 0..MaxFailures

\* Some documents are there already.
Init ==
  /\ docs \in [DocIds -> {NoDocument} \cup
       {[NoDocument EXCEPT !.made = TRUE, !.listed = TRUE, !.title = t] :
          t \in Titles}]
  /\ calls = {}
  /\ page = Mounted
  /\ acts = 0
  /\ failures = 0

-----------------------------------------------------------------------------
(* The page.                                                               *)

Act == page.shown /\ acts < MaxActs /\ acts' = acts + 1
NewCall(kind, d, t) ==
  [kind |-> kind, id |-> d, title |-> t, flag |-> "starred", value |-> FALSE,
   pc |-> "first", ids |-> {}, rows |-> {}, mine |-> TRUE]
Overlaps(call) ==
  \E c \in calls : "fetch" \in {c.kind, call.kind} \/ c.id = call.id

\* The request is sent, and the page becomes p.
Send(call, p) ==
  /\ call \notin calls
  /\ calls' = calls \cup {call}
  /\ page' = [p EXCEPT !.orderly = @ /\ ~Overlaps(call)]

\* The rows, which make way for "Loading..." while it lasts.
Rows == IF page.loading THEN {} ELSE page.list

\* The search changes.
Type(t) ==
  /\ Act /\ t # page.search
  /\ page' = [page EXCEPT !.search = t, !.due = TRUE, !.loading = TRUE]
  /\ UNCHANGED <<docs, calls, failures>>

TimerFires ==
  /\ page.shown /\ page.due
  /\ Send(NewCall("fetch", None, page.search), [page EXCEPT !.due = FALSE])
  /\ UNCHANGED <<docs, counts>>

Refresh ==
  /\ Act
  /\ Send(NewCall("fetch", None, page.search), page)
  /\ UNCHANGED <<docs, failures>>

\* handleCreate.
PressCreate(d) ==
  /\ Act /\ ~page.creating
  /\ ~docs[d].made /\ \A c \in calls : c.id # d
  /\ Send(NewCall("create", d, Untitled), [page EXCEPT !.creating = TRUE])
  /\ UNCHANGED <<docs, failures>>

\* handleDelete, confirmed.
PressDelete(r) ==
  /\ Act /\ r \in Rows
  /\ Send(NewCall("archive", r.id, None), page)
  /\ UNCHANGED <<docs, failures>>

\* handleToggle: the buttons of one row are disabled, the last one pressed.
PressToggle(r, flag) ==
  /\ Act /\ r \in Rows /\ page.updating # r.id
  /\ Send([NewCall("mark", r.id, None) EXCEPT !.flag = flag,
                                              !.value = (flag \notin r.flags)],
          [page EXCEPT !.updating = r.id])
  /\ UNCHANGED <<docs, failures>>

StartRename(r) ==
  /\ Act /\ r \in Rows
  /\ page' = [page EXCEPT !.renaming = r.id]
  /\ UNCHANGED <<docs, calls, failures>>

\* submitRename, by Enter or by leaving the input, which is in the row and
\* stays there until the answer.
SubmitRename(t) ==
  /\ Act /\ page.renaming \in {r.id : r \in Rows}
  /\ Send(NewCall("rename", page.renaming, t), page)
  /\ UNCHANGED <<docs, failures>>

\* Escape, or an empty title.
CancelRename ==
  /\ page.renaming \in {r.id : r \in Rows}
  /\ page' = [page EXCEPT !.renaming = None]
  /\ UNCHANGED <<docs, calls, counts>>

\* To another page of the application, and back.
Leave ==
  /\ Act
  /\ page' = [Mounted EXCEPT !.shown = FALSE, !.due = FALSE,
                             !.loading = FALSE, !.orderly = FALSE]
  /\ calls' = {[c EXCEPT !.mine = FALSE] : c \in calls}
  /\ UNCHANGED <<docs, failures>>

Return ==
  /\ ~page.shown
  /\ page' = Mounted
  /\ UNCHANGED <<docs, calls, counts>>

-----------------------------------------------------------------------------
(* The routes.                                                             *)

Becomes(call, new) == calls' = (calls \ {call}) \cup {new}

\* The documents a search finds.
Found(ids, t) == {d \in ids : /\ docs[d].made /\ ~docs[d].archived
                              /\ t # None => docs[d].title = t}

\* GET /: Permission.find, then Document.find.
ListIds(call) ==
  /\ call.kind = "fetch" /\ call.pc = "first"
  /\ Becomes(call, [call EXCEPT !.pc = "second",
                                !.ids = {d \in DocIds : docs[d].listed}])
  /\ UNCHANGED <<docs, page, counts>>

ListDocs(call) ==
  /\ call.kind = "fetch" /\ call.pc = "second"
  /\ Becomes(call, [call EXCEPT !.pc = "ok", !.ids = {},
       !.rows = {RowOf(d) : d \in Found(call.ids, call.title)}])
  /\ UNCHANGED <<docs, page, counts>>

\* POST /: Document.create, then Permission.create.
CreateDocument(call) ==
  /\ call.kind = "create" /\ call.pc = "first"
  /\ docs' = [docs EXCEPT ![call.id] =
       [NoDocument EXCEPT !.made = TRUE, !.title = call.title]]
  /\ Becomes(call, [call EXCEPT !.pc = "second"])
  /\ UNCHANGED <<page, counts>>

CreatePermission(call) ==
  /\ call.kind = "create" /\ call.pc = "second"
  /\ docs' = [docs EXCEPT ![call.id].listed = TRUE]
  /\ Becomes(call, [call EXCEPT !.pc = "ok"])
  /\ UNCHANGED <<page, counts>>

\* DELETE, PATCH, and PATCH preferences with $addToSet or $pull.
Changed(doc, call) ==
  CASE call.kind = "archive" -> [doc EXCEPT !.archived = TRUE]
    [] call.kind = "rename" -> [doc EXCEPT !.title = call.title]
    [] OTHER -> [doc EXCEPT !.flags = IF call.value THEN @ \cup {call.flag}
                                      ELSE @ \ {call.flag}]

\* Their single call; the answer to a mark holds both flags.
Change(call) ==
  LET changed == Changed(docs[call.id], call)
  IN /\ call.kind \in {"archive", "rename", "mark"} /\ call.pc = "first"
     /\ docs' = [docs EXCEPT ![call.id] = changed]
     /\ Becomes(call, [call EXCEPT !.pc = "ok",
          !.rows = {[id |-> call.id, title |-> changed.title,
                     flags |-> changed.flags]}])
     /\ UNCHANGED <<page, counts>>

\* A request fails, before or after it has had its effect.
CallFails(call) ==
  /\ failures < MaxFailures /\ failures' = failures + 1
  /\ call.pc # "failed"
  /\ Becomes(call, [call EXCEPT !.pc = "failed", !.rows = {}, !.ids = {}])
  /\ UNCHANGED <<docs, page, acts>>

-----------------------------------------------------------------------------
(* The answers.                                                            *)

\* Mutant: the row is left out until the next fetch.
ListedWithout(list, call) ==
  CASE call.kind = "fetch" -> call.rows
    [] OTHER -> {r \in list : r.id # call.id}

\* setDocs with a good answer.
Listed(list, call) ==
  LET others == {r \in list : r.id # call.id}
  IN CASE call.kind = "fetch" -> call.rows
       [] call.kind = "archive" -> others
       [] call.kind = "rename" ->
          others \cup {[r EXCEPT !.title = call.title] : r \in list \ others}
       [] OTHER ->
          others \cup {[r EXCEPT !.flags = a.flags] :
                          r \in list \ others, a \in call.rows}

\* Mutant: setLoading(false) in the try, not in the finally.
ToldUnfinished(call, ok) ==
  [page EXCEPT
     !.loading = @ /\ ~(ok /\ call.kind = "fetch"),
     !.updating = IF call.kind = "mark" THEN None ELSE @,
     !.renaming = IF call.kind = "rename" THEN None ELSE @,
     !.creating = @ /\ call.kind # "create",
     !.list = IF ok THEN Listed(@, call) ELSE @,
     !.orderly = @ /\ ok]

\* The page after an answer, good or not; what ends with either is first.
Told(call, ok) ==
  [page EXCEPT
     !.loading = @ /\ call.kind # "fetch",
     !.updating = IF call.kind = "mark" THEN None ELSE @,
     !.renaming = IF call.kind = "rename" THEN None ELSE @,
     !.creating = @ /\ call.kind # "create",
     !.list = IF ok THEN Listed(@, call) ELSE @,
     !.orderly = @ /\ ok]

\* An answer; after a creation the page makes way for the new document, and
\* other answers find it gone.
Receive(call) ==
  LET created == call.kind = "create" /\ call.pc = "ok"
  IN /\ call.pc \in {"ok", "failed"} /\ call.mine
     /\ IF created
        THEN /\ page' = [Mounted EXCEPT !.shown = FALSE, !.due = FALSE,
                                        !.loading = FALSE, !.orderly = FALSE]
             /\ calls' = {[c EXCEPT !.mine = FALSE] : c \in calls \ {call}}
        ELSE /\ page' = Told(call, call.pc = "ok")
             /\ calls' = calls \ {call}
     /\ UNCHANGED <<docs, counts>>

\* An answer nobody waits for.
Dismiss(call) ==
  /\ call.pc \in {"ok", "failed"} /\ ~call.mine
  /\ calls' = calls \ {call}
  /\ UNCHANGED <<docs, page, counts>>

-----------------------------------------------------------------------------
ServerStep(call) ==
  \/ ListIds(call) \/ ListDocs(call) \/ Change(call)
  \/ CreateDocument(call) \/ CreatePermission(call)

Next ==
  \/ \E t \in Titles \cup {None} : Type(t)
  \/ TimerFires \/ Refresh \/ CancelRename \/ Leave \/ Return
  \/ \E d \in DocIds : PressCreate(d)
  \/ \E t \in Titles : SubmitRename(t)
  \/ \E r \in Rows :
       \/ PressDelete(r) \/ StartRename(r)
       \/ \E flag \in Flags : PressToggle(r, flag)
  \/ \E call \in calls :
       ServerStep(call) \/ CallFails(call) \/ Receive(call) \/ Dismiss(call)

Spec == Init /\ [][Next]_vars

\* The timer fires, the backend answers, and the page hears of it.
FairSpec ==
  /\ Spec
  /\ WF_vars(TimerFires)
  /\ WF_vars(\E call \in calls : ServerStep(call) \/ Receive(call))

-----------------------------------------------------------------------------
(* Properties.                                                             *)

\* DashboardPage.jsx puts a list together from the answers to fetches and to
\* its own changes.  When nothing is under way it shows every document the
\* search finds, and shows each as it is -- unless requests overlapped or one
\* of them failed.
ListIsRight ==
  page.shown /\ page.orderly /\ ~page.loading /\ ~page.due /\ calls = {} =>
    /\ \A r \in page.list : r = RowOf(r.id) /\ ~docs[r.id].archived
    /\ \A d \in Found({d \in DocIds : docs[d].listed}, page.search) :
         RowOf(d) \in page.list

\* "Loading..." is replaced by a list or by a message: although each change
\* of the search clears the timer of the one before, the last one fires.
LoadingEnds == page.loading ~> ~page.loading
=============================================================================
