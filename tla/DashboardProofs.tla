--------------------------- MODULE DashboardProofs ---------------------------
(***************************************************************************)
(* Proofs about Dashboard, for every value of its constants: its types,    *)
(* and that the list put together from answers and own changes is right    *)
(* when nothing is under way.                                              *)
(***************************************************************************)
EXTENDS Dashboard, TLAPS

\* Every request but a fetch is about a document.
CallIds == \A c \in calls : c.kind # "fetch" => c.id \in DocIds

TypeInv == TypeOK /\ CallIds

\* The documents whose permission exists, and what a search of this moment
\* finds.
ListedIds == {d \in DocIds : docs[d].listed}
FoundNow == Found(ListedIds, page.search)

Fetching == \E c \in calls : c.kind = "fetch"

\* The page waits for every request, a fetch is in progress alone, and no
\* two requests are about one document.
OneByOne ==
  /\ \A c \in calls : c.mine
  /\ \A c, e \in calls : c # e =>
       c.id # e.id /\ c.kind # "fetch" /\ e.kind # "fetch"

\* A fetch is for the search of the page and has read what is still so.
FetchIsRight ==
  \A c \in calls : c.kind = "fetch" =>
    /\ c.title = page.search
    /\ c.pc = "second" => c.ids = ListedIds
    /\ c.pc = "ok" => c.rows = {RowOf(d) : d \in FoundNow}

\* What the answer c to a change will make of the row r.
Mends(c, r) ==
  \/ c.kind = "archive" /\ docs[r.id].archived
  \/ /\ ~docs[r.id].archived
     /\ \/ c.kind = "rename" /\ [r EXCEPT !.title = c.title] = RowOf(r.id)
        \/ /\ c.kind = "mark" /\ c.rows = {RowOf(r.id)}
           /\ r.title = docs[r.id].title

\* A row is as its document is, or the answer on its way will make it so.  An
\* answer that says no leaves it open: after it the page is not orderly.
RowIsRight(r) ==
  /\ docs[r.id].made
  /\ (\A c \in calls : c.id = r.id => c.pc = "first") =>
       r = RowOf(r.id) /\ ~docs[r.id].archived
  /\ \A c \in calls : c.id = r.id /\ c.pc = "ok" => Mends(c, r)

RowsAreRight ==
  /\ \A r, q \in page.list : r.id = q.id => r = q
  /\ \A r \in page.list : RowIsRight(r)

\* What the search finds is in the list, or is being made by this page.
NothingMissing ==
  /\ \A d \in FoundNow :
       \/ \E r \in page.list : r.id = d
       \/ \E c \in calls : c.kind = "create" /\ c.id = d
  /\ \A c \in calls : c.kind \notin {"fetch", "create"} =>
       \E r \in page.list : r.id = c.id
  /\ \A c \in calls : c.kind = "create" => \A r \in page.list : r.id # c.id

InOrder ==
  /\ OneByOne
  /\ FetchIsRight
  /\ ~Fetching => RowsAreRight /\ NothingMissing

DInv ==
  /\ TypeInv
  /\ page.shown /\ page.orderly /\ ~page.due => InOrder

-----------------------------------------------------------------------------
(* Types.                                                                  *)

\* A request is sent with the page that sends it.
LEMMA SendTypes ==
  ASSUME TypeInv, NEW call \in Call, NEW p \in Page, Send(call, p),
         call.kind # "fetch" => call.id \in DocIds
  PROVE  page' \in Page /\ calls' \subseteq Call /\ CallIds'
<1>1. page' \in Page
  <2>1. (p.orderly /\ ~Overlaps(call)) \in BOOLEAN
    OBVIOUS
  <2> QED BY <2>1 DEF Send, Page
<1>2. calls' \subseteq Call /\ CallIds'
  BY DEF Send, TypeInv, TypeOK, CallIds
<1> QED BY <1>1, <1>2

\* A new request is one.
LEMMA NewCallType ==
  ASSUME NEW kind \in Kinds, NEW d \in DocIds \cup {None},
         NEW t \in Titles \cup {None}
  PROVE  /\ NewCall(kind, d, t) \in Call
         /\ NewCall(kind, d, t).kind = kind
         /\ NewCall(kind, d, t).id = d
         /\ NewCall(kind, d, t).title = t
         /\ NewCall(kind, d, t).pc = "first"
         /\ NewCall(kind, d, t).mine
BY DEF NewCall, Call, Flags

\* A request goes on.
LEMMA BecomesTypes ==
  ASSUME TypeInv, NEW call \in calls, NEW new \in Call, Becomes(call, new),
         new.kind = call.kind, new.id = call.id
  PROVE  calls' \subseteq Call /\ CallIds'
BY DEF Becomes, TypeInv, TypeOK, CallIds

\* The user's actions stay within their bound.
LEMMA ActTypes == ASSUME TypeOK, Act PROVE acts' \in 0..MaxActs
BY BoundsAreNumbers DEF TypeOK, Act

\* A page left is nothing but a page not shown.
Away == [Mounted EXCEPT !.shown = FALSE, !.due = FALSE, !.loading = FALSE,
                        !.orderly = FALSE]

LEMMA PageTypes == Mounted \in Page /\ Away \in Page /\ ~Away.shown
BY DEF Mounted, Away, Page

\* Requests whose page is gone.
LEMMA OrphanTypes ==
  ASSUME TypeInv, NEW S, S \subseteq calls,
         calls' = {[c EXCEPT !.mine = FALSE] : c \in S}
  PROVE  calls' \subseteq Call /\ CallIds'
<1>1. \A c \in S : /\ [c EXCEPT !.mine = FALSE] \in Call
                   /\ [c EXCEPT !.mine = FALSE].kind = c.kind
                   /\ [c EXCEPT !.mine = FALSE].id = c.id
  BY DEF TypeInv, TypeOK, Call
<1>2. \A c \in S : c.kind # "fetch" => c.id \in DocIds
  BY DEF TypeInv, CallIds
<1> QED BY <1>1, <1>2 DEF CallIds

\* What the user does.
LEMMA PageActionTypes ==
  ASSUME TypeInv,
         \/ \E t \in Titles \cup {None} : Type(t)
         \/ TimerFires \/ Refresh \/ CancelRename \/ Leave \/ Return
         \/ \E d \in DocIds : PressCreate(d)
         \/ \E t \in Titles : SubmitRename(t)
         \/ \E r \in Rows : \/ PressDelete(r) \/ StartRename(r)
                            \/ \E flag \in Flags : PressToggle(r, flag)
  PROVE  TypeInv'
<1>1. /\ TypeOK /\ CallIds
      /\ page \in Page /\ calls \subseteq Call
      /\ docs \in [DocIds -> Document]
      /\ page.search \in Titles \cup {None}
      /\ page.renaming \in DocIds \cup {None}
  BY DEF TypeInv, TypeOK, Page
<1>2. \A r \in Rows : r \in Row /\ r.id \in DocIds
  BY <1>1 DEF Rows, Page, Row
<1>3. /\ acts' \in 0..MaxActs
      /\ UNCHANGED <<docs, failures>>
  BY <1>1, ActTypes DEF TypeOK, Type, TimerFires, Refresh, CancelRename,
     Leave, Return, PressCreate, SubmitRename, PressDelete, StartRename,
     PressToggle, counts
<1>4. page' \in Page /\ calls' \subseteq Call /\ CallIds'
  <2>1. ASSUME NEW t \in Titles \cup {None}, Type(t)
        PROVE  page' \in Page /\ calls' = calls
    BY <1>1, <2>1 DEF Type, Page
  <2>2. CASE TimerFires \/ Refresh
    <3> DEFINE call == NewCall("fetch", None, page.search)
               waiting == [page EXCEPT !.due = FALSE]
    <3>1. call \in Call /\ call.kind = "fetch"
      <4>1. "fetch" \in Kinds /\ None \in DocIds \cup {None}
        BY DEF Kinds
      <4> QED BY <1>1, <4>1, NewCallType
    <3>2. waiting \in Page
      BY <1>1 DEF Page
    <3>3. Send(call, waiting) \/ Send(call, page)
      BY <2>2 DEF TimerFires, Refresh
    <3> HIDE DEF call, waiting
    <3> QED BY <1>1, <3>1, <3>2, <3>3, SendTypes
  <2>3. CASE CancelRename
    BY <1>1, <2>3 DEF CancelRename, Page, CallIds
  <2>4. CASE Leave
    <3>1. page' = Away /\ calls' = {[c EXCEPT !.mine = FALSE] : c \in calls}
      BY <2>4 DEF Leave, Away
    <3> QED BY <3>1, PageTypes, OrphanTypes
  <2>5. CASE Return
    BY <1>1, <2>5, PageTypes DEF Return, CallIds
  <2>6. ASSUME NEW d \in DocIds, PressCreate(d)
        PROVE  page' \in Page /\ calls' \subseteq Call /\ CallIds'
    <3> DEFINE call == NewCall("create", d, Untitled)
               creating == [page EXCEPT !.creating = TRUE]
    <3>1. call \in Call /\ call.id = d
      BY UntitledIsATitle, NewCallType DEF Kinds
    <3>2. creating \in Page
      BY <1>1 DEF Page
    <3>3. Send(call, creating)
      BY <2>6 DEF PressCreate
    <3> HIDE DEF call, creating
    <3> QED BY <3>1, <3>2, <3>3, SendTypes
  <2>7. ASSUME NEW t \in Titles, SubmitRename(t)
        PROVE  page' \in Page /\ calls' \subseteq Call /\ CallIds'
    <3> DEFINE call == NewCall("rename", page.renaming, t)
    <3>1. page.renaming \in DocIds
      BY <1>2, <2>7 DEF SubmitRename
    <3>2. call \in Call /\ call.id = page.renaming
      BY <3>1, NewCallType DEF Kinds
    <3>3. Send(call, page)
      BY <2>7 DEF SubmitRename
    <3> HIDE DEF call
    <3> QED BY <1>1, <3>1, <3>2, <3>3, SendTypes
  <2>8. ASSUME NEW r \in Rows, PressDelete(r)
        PROVE  page' \in Page /\ calls' \subseteq Call /\ CallIds'
    <3> DEFINE call == NewCall("archive", r.id, None)
    <3>1. call \in Call /\ call.id = r.id
      BY <1>2, NewCallType DEF Kinds
    <3>2. Send(call, page)
      BY <2>8 DEF PressDelete
    <3> HIDE DEF call
    <3> QED BY <1>1, <1>2, <3>1, <3>2, SendTypes
  <2>9. ASSUME NEW r \in Rows, StartRename(r)
        PROVE  page' \in Page /\ calls' = calls
    BY <1>1, <1>2, <2>9 DEF StartRename, Page
  <2>10. ASSUME NEW r \in Rows, NEW flag \in Flags, PressToggle(r, flag)
         PROVE  page' \in Page /\ calls' \subseteq Call /\ CallIds'
    <3> DEFINE call == [NewCall("mark", r.id, None) EXCEPT !.flag = flag,
                          !.value = (flag \notin r.flags)]
               updating == [page EXCEPT !.updating = r.id]
    <3>1. call \in Call /\ call.id = r.id
      <4>1. /\ NewCall("mark", r.id, None) \in Call
            /\ NewCall("mark", r.id, None).id = r.id
        BY <1>2, NewCallType DEF Kinds
      <4>2. (flag \notin r.flags) \in BOOLEAN
        OBVIOUS
      <4> QED BY <4>1, <4>2 DEF Call
    <3>2. updating \in Page
      BY <1>1, <1>2 DEF Page
    <3>3. Send(call, updating)
      BY <2>10 DEF PressToggle
    <3> HIDE DEF call, updating
    <3> QED BY <1>2, <3>1, <3>2, <3>3, SendTypes
  <2> QED BY <1>1, <2>1, <2>2, <2>3, <2>4, <2>5, <2>6, <2>7, <2>8, <2>9,
             <2>10 DEF CallIds
<1> QED BY <1>1, <1>3, <1>4 DEF TypeInv, TypeOK

\* A row shows a document.
LEMMA RowType == ASSUME TypeInv, NEW d \in DocIds PROVE RowOf(d) \in Row
BY DEF TypeInv, TypeOK, RowOf, Row, Document

\* What a change makes of a document.
LEMMA ChangedType ==
  ASSUME NEW doc \in Document, NEW call \in Call
  PROVE  /\ Changed(doc, call) \in Document
         /\ Changed(doc, call).made = doc.made
         /\ Changed(doc, call).listed = doc.listed
         /\ call.kind = "archive" => /\ Changed(doc, call).title = doc.title
                                     /\ Changed(doc, call).flags = doc.flags
                                     /\ Changed(doc, call).archived
         /\ call.kind = "rename" => /\ Changed(doc, call).title = call.title
                                    /\ Changed(doc, call).flags = doc.flags
                                    /\ Changed(doc, call).archived =
                                         doc.archived
         /\ call.kind = "mark" => /\ Changed(doc, call).title = doc.title
                                  /\ Changed(doc, call).archived = doc.archived
<1>1. /\ call.flag \in Flags /\ call.title \in Titles \cup {None}
      /\ doc.flags \subseteq Flags
  BY DEF Document, Call
<1> DEFINE flags == IF call.value THEN doc.flags \cup {call.flag}
                    ELSE doc.flags \ {call.flag}
<1>2. flags \subseteq Flags
  BY <1>1
<1>3. Changed(doc, call) =
        CASE call.kind = "archive" -> [doc EXCEPT !.archived = TRUE]
          [] call.kind = "rename" -> [doc EXCEPT !.title = call.title]
          [] OTHER -> [doc EXCEPT !.flags = flags]
  BY DEF Changed
<1> HIDE DEF flags
<1>4. CASE call.kind = "archive"
  <2>1. Changed(doc, call) = [doc EXCEPT !.archived = TRUE]
    BY <1>3, <1>4
  <2> QED BY <1>4, <2>1 DEF Document
<1>5. CASE call.kind = "rename"
  <2>1. Changed(doc, call) = [doc EXCEPT !.title = call.title]
    BY <1>3, <1>5
  <2> QED BY <1>1, <1>5, <2>1 DEF Document
<1>6. CASE call.kind \notin {"archive", "rename"}
  <2>1. Changed(doc, call) = [doc EXCEPT !.flags = flags]
    BY <1>3, <1>6
  <2> QED BY <1>2, <1>6, <2>1 DEF Document
<1> QED BY <1>4, <1>5, <1>6

\* The routes.
LEMMA ServerTypes ==
  ASSUME TypeInv, NEW call \in calls, ServerStep(call)
  PROVE  TypeInv'
<1>1. /\ call \in Call /\ docs \in [DocIds -> Document]
      /\ call.kind # "fetch" => call.id \in DocIds
      /\ call.title \in Titles \cup {None}
      /\ call.ids \subseteq DocIds
  BY DEF TypeInv, TypeOK, CallIds, Call
<1>2. CASE ListIds(call)
  <2> DEFINE new == [call EXCEPT !.pc = "second",
                                 !.ids = {d \in DocIds : docs[d].listed}]
  <2>1. new \in Call /\ new.kind = call.kind /\ new.id = call.id
    BY <1>1 DEF Call
  <2>2. Becomes(call, new) /\ UNCHANGED <<docs, page, counts>>
    BY <1>2 DEF ListIds
  <2> HIDE DEF new
  <2> QED BY <2>1, <2>2, BecomesTypes DEF TypeInv, TypeOK, counts
<1>3. CASE ListDocs(call)
  <2> DEFINE found == {RowOf(d) : d \in Found(call.ids, call.title)}
             new == [call EXCEPT !.pc = "ok", !.ids = {}, !.rows = found]
  <2>1. found \subseteq Row
    BY <1>1, RowType DEF Found
  <2>2. Becomes(call, new) /\ UNCHANGED <<docs, page, counts>>
    BY <1>3 DEF ListDocs
  <2> HIDE DEF found
  <2>3. new \in Call /\ new.kind = call.kind /\ new.id = call.id
    BY <1>1, <2>1 DEF Call
  <2> HIDE DEF new
  <2> QED BY <2>2, <2>3, BecomesTypes DEF TypeInv, TypeOK, counts
<1>4. CASE Change(call)
  <2> DEFINE changed == Changed(docs[call.id], call)
             row == [id |-> call.id, title |-> changed.title,
                     flags |-> changed.flags]
             new == [call EXCEPT !.pc = "ok", !.rows = {row}]
  <2>1. call.id \in DocIds
    BY <1>1, <1>4 DEF Change
  <2>2. changed \in Document
    BY <1>1, <2>1, ChangedType
  <2>3. /\ docs' = [docs EXCEPT ![call.id] = changed]
        /\ Becomes(call, new) /\ UNCHANGED <<page, counts>>
    BY <1>4 DEF Change
  <2> HIDE DEF changed
  <2>4. row \in Row
    BY <2>1, <2>2 DEF Row, Document
  <2> HIDE DEF row
  <2>5. new \in Call /\ new.kind = call.kind /\ new.id = call.id
    BY <1>1, <2>4 DEF Call
  <2> HIDE DEF new
  <2> QED BY <1>1, <2>1, <2>2, <2>3, <2>5, BecomesTypes
          DEF TypeInv, TypeOK, counts
<1>5. CASE CreateDocument(call)
  <2> DEFINE doc == [NoDocument EXCEPT !.made = TRUE, !.title = call.title]
             new == [call EXCEPT !.pc = "second"]
  <2>1. call.id \in DocIds
    BY <1>1, <1>5 DEF CreateDocument
  <2>2. doc \in Document
    BY <1>1 DEF NoDocument, Document
  <2>3. /\ docs' = [docs EXCEPT ![call.id] = doc]
        /\ Becomes(call, new) /\ UNCHANGED <<page, counts>>
    BY <1>5 DEF CreateDocument
  <2>4. new \in Call /\ new.kind = call.kind /\ new.id = call.id
    BY <1>1 DEF Call
  <2> HIDE DEF doc, new
  <2> QED BY <1>1, <2>1, <2>2, <2>3, <2>4, BecomesTypes
          DEF TypeInv, TypeOK, counts
<1>6. CASE CreatePermission(call)
  <2> DEFINE doc == [docs[call.id] EXCEPT !.listed = TRUE]
             new == [call EXCEPT !.pc = "ok"]
  <2>1. call.id \in DocIds
    BY <1>1, <1>6 DEF CreatePermission
  <2>2. doc \in Document
    BY <1>1, <2>1 DEF Document
  <2>3. /\ docs' = [docs EXCEPT ![call.id] = doc]
        /\ Becomes(call, new) /\ UNCHANGED <<page, counts>>
    BY <1>6 DEF CreatePermission
  <2>4. new \in Call /\ new.kind = call.kind /\ new.id = call.id
    BY <1>1 DEF Call
  <2> HIDE DEF doc, new
  <2> QED BY <1>1, <2>1, <2>2, <2>3, <2>4, BecomesTypes
          DEF TypeInv, TypeOK, counts
<1> QED BY <1>2, <1>3, <1>4, <1>5, <1>6 DEF ServerStep

\* A request fails.
LEMMA FailTypes ==
  ASSUME TypeInv, NEW call \in calls, CallFails(call)
  PROVE  TypeInv'
<1> DEFINE new == [call EXCEPT !.pc = "failed", !.rows = {}, !.ids = {}]
<1>1. new \in Call /\ new.kind = call.kind /\ new.id = call.id
  BY DEF TypeInv, TypeOK, Call
<1>2. /\ failures' \in 0..MaxFailures
      /\ Becomes(call, new) /\ UNCHANGED <<docs, page, acts>>
  BY BoundsAreNumbers DEF CallFails, TypeInv, TypeOK
<1> HIDE DEF new
<1> QED BY <1>1, <1>2, BecomesTypes DEF TypeInv, TypeOK

\* The list with a good answer.
LEMMA ListedIs ==
  ASSUME NEW list \in SUBSET Row, NEW call \in Call
  PROVE  /\ Listed(list, call) \subseteq Row
         /\ call.kind = "fetch" => Listed(list, call) = call.rows
         /\ call.kind = "archive" =>
              Listed(list, call) = {r \in list : r.id # call.id}
         /\ call.kind = "rename" =>
              \A q : q \in Listed(list, call) <=>
                \/ q \in list /\ q.id # call.id
                \/ \E r \in list : /\ r.id = call.id
                                   /\ q = [r EXCEPT !.title = call.title]
         /\ call.kind \notin {"fetch", "archive", "rename"} =>
              \A q : q \in Listed(list, call) <=>
                \/ q \in list /\ q.id # call.id
                \/ \E r \in list, a \in call.rows :
                     r.id = call.id /\ q = [r EXCEPT !.flags = a.flags]
<1>1. /\ call.title \in Titles \cup {None} /\ call.rows \subseteq Row
  BY DEF Call
<1>2. \A r \in list : [r EXCEPT !.title = call.title] \in Row
  BY <1>1 DEF Row
<1>3. \A r \in list, a \in call.rows : [r EXCEPT !.flags = a.flags] \in Row
  BY <1>1 DEF Row
<1>4. CASE call.kind = "fetch"
  BY <1>1, <1>4 DEF Listed
<1>5. CASE call.kind = "archive"
  BY <1>5 DEF Listed
<1>6. CASE call.kind = "rename"
  BY <1>2, <1>6 DEF Listed
<1>7. CASE call.kind \notin {"fetch", "archive", "rename"}
  BY <1>3, <1>7 DEF Listed
<1> QED BY <1>4, <1>5, <1>6, <1>7

\* The page after an answer.
LEMMA ToldIs ==
  ASSUME TypeInv, NEW call \in calls, NEW ok \in BOOLEAN
  PROVE  /\ Told(call, ok) \in Page
         /\ Told(call, ok).list = IF ok THEN Listed(page.list, call)
                                  ELSE page.list
         /\ Told(call, ok).orderly = (page.orderly /\ ok)
         /\ Told(call, ok).shown = page.shown
         /\ Told(call, ok).due = page.due
         /\ Told(call, ok).search = page.search
<1>1. page \in Page /\ call \in Call /\ page.list \in SUBSET Row
  BY DEF TypeInv, TypeOK, Page
<1>2. Listed(page.list, call) \subseteq Row
  BY <1>1, ListedIs
<1> DEFINE loading == page.loading /\ call.kind # "fetch"
           updating == IF call.kind = "mark" THEN None ELSE page.updating
           renaming == IF call.kind = "rename" THEN None ELSE page.renaming
           creating == page.creating /\ call.kind # "create"
           list == IF ok THEN Listed(page.list, call) ELSE page.list
           orderly == page.orderly /\ ok
<1>3. Told(call, ok) = [page EXCEPT
        !.loading = loading, !.updating = updating, !.renaming = renaming,
        !.creating = creating, !.list = list, !.orderly = orderly]
  BY DEF Told
<1>4. loading \in BOOLEAN /\ creating \in BOOLEAN /\ orderly \in BOOLEAN
  OBVIOUS
<1>5. /\ updating \in DocIds \cup {None} /\ renaming \in DocIds \cup {None}
      /\ list \subseteq Row
  BY <1>1, <1>2 DEF Page
<1> HIDE DEF loading, updating, renaming, creating, list, orderly
<1>6. /\ Told(call, ok) \in Page
      /\ Told(call, ok).list = list
      /\ Told(call, ok).orderly = orderly
      /\ Told(call, ok).shown = page.shown
      /\ Told(call, ok).due = page.due
      /\ Told(call, ok).search = page.search
  BY <1>1, <1>3, <1>4, <1>5 DEF Page
<1> QED BY <1>6 DEF list, orderly

\* Answers.
LEMMA AnswerTypes ==
  ASSUME TypeInv, NEW call \in calls, Receive(call) \/ Dismiss(call)
  PROVE  TypeInv'
<1>1. UNCHANGED <<docs, counts>>
  BY DEF Receive, Dismiss
<1>2. page' \in Page /\ calls' \subseteq Call /\ CallIds'
  <2>1. CASE page' = Told(call, call.pc = "ok") /\ calls' = calls \ {call}
    <3>1. (call.pc = "ok") \in BOOLEAN
      OBVIOUS
    <3> QED BY <2>1, <3>1, ToldIs DEF TypeInv, TypeOK, CallIds
  <2>2. CASE page' = page /\ calls' = calls \ {call}
    BY <2>2 DEF TypeInv, TypeOK, CallIds
  <2>3. CASE /\ page' = Away
             /\ calls' = {[c EXCEPT !.mine = FALSE] : c \in calls \ {call}}
    BY <2>3, PageTypes, OrphanTypes
  <2> QED BY <2>1, <2>2, <2>3 DEF Receive, Dismiss, Away
<1> QED BY <1>1, <1>2 DEF TypeInv, TypeOK, counts

LEMMA InitTypes == Init => TypeInv
<1> SUFFICES ASSUME Init PROVE TypeInv
  OBVIOUS
<1>1. NoDocument \in Document
  BY DEF NoDocument, Document
<1>2. \A t \in Titles :
        [NoDocument EXCEPT !.made = TRUE, !.listed = TRUE, !.title = t]
          \in Document
  BY DEF NoDocument, Document
<1>3. docs \in [DocIds -> Document]
  <2> DEFINE S == {NoDocument} \cup
        {[NoDocument EXCEPT !.made = TRUE, !.listed = TRUE, !.title = t] :
           t \in Titles}
  <2>1. S \subseteq Document
    BY <1>1, <1>2
  <2>2. docs \in [DocIds -> S]
    BY DEF Init
  <2> HIDE DEF S
  <2> QED BY <2>1, <2>2
<1>4. acts \in 0..MaxActs /\ failures \in 0..MaxFailures
  <2>1. acts = 0 /\ failures = 0
    BY DEF Init
  <2> QED BY <2>1, BoundsAreNumbers
<1> QED BY <1>3, <1>4, PageTypes DEF Init, TypeInv, TypeOK, CallIds

LEMMA NextTypes == ASSUME TypeInv, [Next]_vars PROVE TypeInv'
<1>1. CASE UNCHANGED vars
  BY <1>1 DEF vars, counts, TypeInv, TypeOK, CallIds
<1>2. ASSUME NEW call \in calls,
             ServerStep(call) \/ CallFails(call) \/ Receive(call)
               \/ Dismiss(call)
      PROVE  TypeInv'
  BY <1>2, ServerTypes, FailTypes, AnswerTypes
<1> QED BY <1>1, <1>2, PageActionTypes DEF Next

-----------------------------------------------------------------------------
(* The page keeps its list in order.                                       *)

\* The page is one of which something is claimed.
Claimed == page.shown /\ page.orderly /\ ~page.due

\* A step that changes neither documents, requests nor what is listed.
LEMMA SameListInOrder ==
  ASSUME InOrder, UNCHANGED <<docs, calls>>,
         page'.list = page.list, page'.search = page.search
  PROVE  InOrder'
BY DEF InOrder, OneByOne, FetchIsRight, Fetching, RowsAreRight, RowIsRight,
   Mends, NothingMissing, FoundNow, Found, ListedIds, RowOf

\* What is sent, and that the page is orderly only if it overlaps nothing.
LEMMA SendIs ==
  ASSUME NEW call, NEW p \in Page, Send(call, p)
  PROVE  /\ calls' = calls \cup {call}
         /\ page'.shown = p.shown /\ page'.due = p.due
         /\ page'.list = p.list /\ page'.search = p.search
         /\ page'.orderly => p.orderly /\ ~Overlaps(call)
<1>1. page' = [p EXCEPT !.orderly = p.orderly /\ ~Overlaps(call)]
  BY DEF Send
<1> QED BY <1>1 DEF Page, Send

\* A fetch that overlaps nothing is alone.
LEMMA FetchInOrder ==
  ASSUME TypeInv, TimerFires \/ Refresh, Claimed'
  PROVE  InOrder'
<1> DEFINE call == NewCall("fetch", None, page.search)
           waiting == [page EXCEPT !.due = FALSE]
<1>1. /\ page \in Page /\ waiting \in Page
      /\ waiting.search = page.search
      /\ UNCHANGED docs
  BY DEF TypeInv, TypeOK, Page, TimerFires, Refresh
<1>2. /\ call.kind = "fetch" /\ call.pc = "first" /\ call.mine
      /\ call.title = page.search
  BY DEF NewCall
<1>3. Send(call, waiting) \/ Send(call, page)
  BY DEF TimerFires, Refresh
<1> HIDE DEF call, waiting
<1>4. /\ calls' = calls \cup {call} /\ ~Overlaps(call)
      /\ page'.search = page.search
  BY <1>1, <1>3, SendIs DEF Claimed
<1>5. calls' = {call}
  BY <1>2, <1>4 DEF Overlaps
<1> QED BY <1>2, <1>4, <1>5 DEF InOrder, OneByOne, FetchIsRight, Fetching

\* A change that overlaps nothing leaves the list as right as it was.
LEMMA ChangeInOrder ==
  ASSUME InOrder, UNCHANGED docs, NEW call, NEW p \in Page, Send(call, p),
         p.list = page.list, p.search = page.search, page'.orderly,
         call.kind # "fetch", call.pc = "first", call.mine,
         call.kind # "create" => \E r \in page.list : r.id = call.id,
         call.kind = "create" => ~docs[call.id].made
  PROVE  InOrder'
<1>1. /\ calls' = calls \cup {call}
      /\ page'.list = page.list /\ page'.search = page.search
      /\ \A c \in calls : c.kind # "fetch" /\ c.id # call.id
  BY SendIs DEF Overlaps
<1>2. OneByOne' /\ FetchIsRight'
  BY <1>1 DEF InOrder, OneByOne, FetchIsRight
<1>3. ~Fetching
  BY <1>1 DEF Fetching
<1>4. RowsAreRight'
  <2>1. ASSUME NEW r \in page.list PROVE RowIsRight(r)'
    <3>1. RowIsRight(r)
      BY <1>3, <2>1 DEF InOrder, RowsAreRight
    <3> QED BY <1>1, <3>1 DEF RowIsRight, Mends, RowOf
  <2> QED BY <1>1, <1>3, <2>1 DEF InOrder, RowsAreRight
<1>5. NothingMissing'
  <2>1. FoundNow' = FoundNow
    BY <1>1 DEF FoundNow, Found, ListedIds
  <2>2. call.kind = "create" => \A r \in page.list : r.id # call.id
    BY <1>3 DEF InOrder, RowsAreRight, RowIsRight
  <2> QED BY <1>1, <1>3, <2>1, <2>2 DEF InOrder, NothingMissing
<1> QED BY <1>2, <1>4, <1>5 DEF InOrder

\* What the user does.
LEMMA PageActionInOrder ==
  ASSUME DInv, Claimed',
         \/ \E t \in Titles \cup {None} : Type(t)
         \/ TimerFires \/ Refresh \/ CancelRename \/ Leave \/ Return
         \/ \E d \in DocIds : PressCreate(d)
         \/ \E t \in Titles : SubmitRename(t)
         \/ \E r \in Rows : \/ PressDelete(r) \/ StartRename(r)
                            \/ \E flag \in Flags : PressToggle(r, flag)
  PROVE  InOrder'
<1>1. TypeInv /\ page \in Page
  BY DEF DInv, TypeInv, TypeOK
<1>2. Claimed => InOrder
  BY DEF DInv, Claimed
<1>3. \A r \in Rows : r \in page.list
  BY DEF Rows
<1>4. ASSUME NEW t \in Titles \cup {None}, Type(t) PROVE FALSE
  BY <1>1, <1>4 DEF Type, Claimed, Page
<1>5. CASE Leave
  BY <1>5, PageTypes DEF Leave, Away, Claimed
<1>6. CASE Return
  BY <1>6 DEF Return, Mounted, Claimed
<1>7. ASSUME CancelRename \/ \E r \in Rows : StartRename(r)
      PROVE  InOrder'
  <2>1. /\ UNCHANGED <<docs, calls>>
        /\ page'.list = page.list /\ page'.search = page.search
        /\ Claimed
    BY <1>1, <1>7 DEF CancelRename, StartRename, Claimed, Page
  <2> QED BY <1>2, <2>1, SameListInOrder
<1>8. ASSUME NEW d \in DocIds, PressCreate(d) PROVE InOrder'
  <2> DEFINE call == NewCall("create", d, Untitled)
             creating == [page EXCEPT !.creating = TRUE]
  <2>1. /\ call.kind = "create" /\ call.pc = "first" /\ call.mine
        /\ call.id = d
    BY DEF NewCall
  <2>2. /\ creating \in Page /\ creating.list = page.list
        /\ creating.search = page.search /\ creating.shown = page.shown
        /\ creating.due = page.due /\ creating.orderly = page.orderly
    BY <1>1 DEF Page
  <2>3. /\ Send(call, creating) /\ UNCHANGED docs /\ ~docs[d].made
    BY <1>8 DEF PressCreate
  <2> HIDE DEF call, creating
  <2>4. InOrder
    BY <1>2, <2>2, <2>3, SendIs DEF Claimed
  <2> QED BY <2>1, <2>2, <2>3, <2>4, ChangeInOrder DEF Claimed
<1>9. ASSUME NEW t \in Titles, SubmitRename(t) PROVE InOrder'
  <2> DEFINE call == NewCall("rename", page.renaming, t)
  <2>1. /\ call.kind = "rename" /\ call.pc = "first" /\ call.mine
        /\ call.id = page.renaming
    BY DEF NewCall
  <2>2. /\ Send(call, page) /\ UNCHANGED docs
        /\ \E r \in page.list : r.id = page.renaming
    BY <1>3, <1>9 DEF SubmitRename
  <2> HIDE DEF call
  <2>3. InOrder
    BY <1>1, <1>2, <2>2, SendIs DEF Claimed
  <2> QED BY <1>1, <2>1, <2>2, <2>3, ChangeInOrder DEF Claimed
<1>10. ASSUME NEW r \in Rows, PressDelete(r) PROVE InOrder'
  <2> DEFINE call == NewCall("archive", r.id, None)
  <2>1. /\ call.kind = "archive" /\ call.pc = "first" /\ call.mine
        /\ call.id = r.id
    BY DEF NewCall
  <2>2. Send(call, page) /\ UNCHANGED docs
    BY <1>10 DEF PressDelete
  <2> HIDE DEF call
  <2>3. InOrder
    BY <1>1, <1>2, <2>2, SendIs DEF Claimed
  <2> QED BY <1>1, <1>3, <2>1, <2>2, <2>3, ChangeInOrder DEF Claimed
<1>11. ASSUME NEW r \in Rows, NEW flag \in Flags, PressToggle(r, flag)
       PROVE  InOrder'
  <2> DEFINE call == [NewCall("mark", r.id, None) EXCEPT !.flag = flag,
                        !.value = (flag \notin r.flags)]
             updating == [page EXCEPT !.updating = r.id]
  <2>1. /\ call.kind = "mark" /\ call.pc = "first" /\ call.mine
        /\ call.id = r.id
    BY DEF NewCall
  <2>2. /\ updating \in Page /\ updating.list = page.list
        /\ updating.search = page.search /\ updating.shown = page.shown
        /\ updating.due = page.due /\ updating.orderly = page.orderly
    <3>1. r.id \in DocIds
      BY <1>1, <1>3 DEF Page, Row
    <3> QED BY <1>1, <3>1 DEF Page
  <2>3. Send(call, updating) /\ UNCHANGED docs
    BY <1>11 DEF PressToggle
  <2> HIDE DEF call, updating
  <2>4. InOrder
    BY <1>2, <2>2, <2>3, SendIs DEF Claimed
  <2> QED BY <1>3, <2>1, <2>2, <2>3, <2>4, ChangeInOrder DEF Claimed
<1> QED BY <1>1, <1>4, <1>5, <1>6, <1>7, <1>8, <1>9, <1>10, <1>11,
           FetchInOrder

\* A request that goes on stays the only one of its document.
LEMMA BecomesOneByOne ==
  ASSUME InOrder, NEW call \in calls, NEW new, Becomes(call, new),
         new.id = call.id, new.kind = call.kind, new.mine = call.mine
  PROVE  /\ OneByOne'
         /\ call.kind = "fetch" => calls' = {new}
         /\ call.kind # "fetch" => ~Fetching /\ ~Fetching'
BY DEF InOrder, OneByOne, Becomes, Fetching

\* A fetch goes on.
LEMMA FetchGoesOn ==
  ASSUME InOrder, NEW call \in calls, NEW new, Becomes(call, new),
         new.id = call.id, new.kind = call.kind, new.mine = call.mine,
         call.kind = "fetch", new.title = call.title,
         UNCHANGED <<docs, page>>,
         new.pc = "second" => new.ids = ListedIds,
         new.pc = "ok" => new.rows = {RowOf(d) : d \in FoundNow}
  PROVE  InOrder'
<1>1. OneByOne' /\ calls' = {new}
  BY BecomesOneByOne
<1>2. FetchIsRight'
  BY <1>1 DEF InOrder, FetchIsRight, ListedIds, FoundNow, Found, RowOf
<1> QED BY <1>1, <1>2 DEF InOrder, Fetching

\* Another request goes on, which changes at most its own document.
LEMMA ChangeGoesOn ==
  ASSUME TypeInv, InOrder, NEW call \in calls, NEW new, Becomes(call, new),
         new.id = call.id, new.kind = call.kind, new.mine = call.mine,
         call.kind # "fetch", UNCHANGED page,
         \A d \in DocIds : d # call.id => docs'[d] = docs[d],
         \A r \in page.list : r.id = call.id => RowIsRight(r)'
  PROVE  InOrder'
<1>1. OneByOne' /\ ~Fetching /\ ~Fetching'
  BY BecomesOneByOne
<1>2. FetchIsRight'
  BY <1>1 DEF Fetching, FetchIsRight
<1>3. RowsAreRight'
  <2>1. ASSUME NEW r \in page.list, r.id # call.id PROVE RowIsRight(r)'
    <3>1. RowIsRight(r) /\ r.id \in DocIds
      BY <1>1, <2>1
         DEF InOrder, RowsAreRight, TypeInv, TypeOK, Page, Row
    <3>2. docs'[r.id] = docs[r.id]
      BY <2>1, <3>1
    <3>3. \A c : c.id = r.id => (c \in calls' <=> c \in calls)
      BY <2>1 DEF Becomes
    <3> QED BY <3>1, <3>2, <3>3 DEF RowIsRight, Mends, RowOf
  <2> QED BY <1>1, <2>1 DEF InOrder, RowsAreRight
<1>4. NothingMissing'
  <2>1. NothingMissing
    BY <1>1 DEF InOrder
  <2>2. \A c \in calls' : \E e \in calls : e.kind = c.kind /\ e.id = c.id
    BY DEF Becomes
  <2>3. \A e \in calls : \E c \in calls' : e.kind = c.kind /\ e.id = c.id
    BY DEF Becomes
  <2>4. \A d \in FoundNow' : d = call.id \/ d \in FoundNow
    BY DEF FoundNow, Found, ListedIds
  <2>5. \/ call.kind = "create"
        \/ \E r \in page.list : r.id = call.id
    BY <2>1 DEF NothingMissing
  <2>6. ASSUME NEW d \in FoundNow'
        PROVE  \/ \E r \in page.list : r.id = d
               \/ \E c \in calls' : c.kind = "create" /\ c.id = d
    BY <2>1, <2>3, <2>4, <2>5, <2>6 DEF NothingMissing
  <2>7. /\ \A c \in calls' : c.kind \notin {"fetch", "create"} =>
             \E r \in page.list : r.id = c.id
        /\ \A c \in calls' : c.kind = "create" =>
             \A r \in page.list : r.id # c.id
    BY <2>1, <2>2 DEF NothingMissing
  <2> QED BY <2>6, <2>7 DEF NothingMissing
<1> QED BY <1>1, <1>2, <1>3, <1>4 DEF InOrder

\* The routes.
LEMMA ServerInOrder ==
  ASSUME TypeInv, InOrder, NEW call \in calls, ServerStep(call)
  PROVE  InOrder'
<1>1. /\ call \in Call /\ docs \in [DocIds -> Document]
      /\ call.kind # "fetch" => call.id \in DocIds
      /\ page.list \subseteq Row
  BY DEF TypeInv, TypeOK, CallIds, Page
<1>2. CASE ListIds(call)
  <2> DEFINE new == [call EXCEPT !.pc = "second", !.ids = ListedIds]
  <2>1. /\ new.id = call.id /\ new.kind = call.kind /\ new.mine = call.mine
        /\ new.title = call.title /\ new.pc = "second"
        /\ new.ids = ListedIds
    BY <1>1 DEF Call
  <2>2. /\ Becomes(call, new) /\ UNCHANGED <<docs, page>>
        /\ call.kind = "fetch"
    BY <1>2 DEF ListIds, ListedIds
  <2> HIDE DEF new
  <2> QED BY <2>1, <2>2, FetchGoesOn
<1>3. CASE ListDocs(call)
  <2> DEFINE found == {RowOf(d) : d \in Found(call.ids, call.title)}
             new == [call EXCEPT !.pc = "ok", !.ids = {}, !.rows = found]
  <2>1. /\ new.id = call.id /\ new.kind = call.kind /\ new.mine = call.mine
        /\ new.title = call.title /\ new.pc = "ok" /\ new.rows = found
    BY <1>1 DEF Call
  <2>2. /\ Becomes(call, new) /\ UNCHANGED <<docs, page>>
        /\ call.kind = "fetch" /\ call.pc = "second"
    BY <1>3 DEF ListDocs
  <2>3. found = {RowOf(d) : d \in FoundNow}
    BY <2>2 DEF InOrder, FetchIsRight, FoundNow
  <2> HIDE DEF new, found
  <2> QED BY <2>1, <2>2, <2>3, FetchGoesOn
<1>4. CASE Change(call)
  <2> DEFINE changed == Changed(docs[call.id], call)
             row == [id |-> call.id, title |-> changed.title,
                     flags |-> changed.flags]
             answered == [call EXCEPT !.pc = "ok", !.rows = {row}]
  <2>1. /\ call.id \in DocIds /\ call.kind \in {"archive", "rename", "mark"}
        /\ call.pc = "first"
        /\ docs' = [docs EXCEPT ![call.id] = changed]
        /\ Becomes(call, answered) /\ UNCHANGED page
    BY <1>1, <1>4 DEF Change
  <2>2. /\ docs[call.id] \in Document /\ changed \in Document
        /\ changed.made = docs[call.id].made
        /\ call.kind = "archive" => changed.archived
        /\ call.kind = "rename" =>
             /\ changed.title = call.title
             /\ changed.flags = docs[call.id].flags
             /\ changed.archived = docs[call.id].archived
        /\ call.kind = "mark" =>
             /\ changed.title = docs[call.id].title
             /\ changed.archived = docs[call.id].archived
    BY <1>1, <2>1, ChangedType
  <2> HIDE DEF changed
  <2>3. docs'[call.id] = changed
    BY <1>1, <2>1
  <2>4. row = RowOf(call.id)'
    BY <2>3 DEF RowOf
  <2>5. PICK new :
          /\ Becomes(call, new)
          /\ new.id = call.id /\ new.kind = call.kind /\ new.mine = call.mine
          /\ new.title = call.title /\ new.pc = "ok"
          /\ new.rows = {RowOf(call.id)'}
    <3>1. /\ answered.id = call.id /\ answered.kind = call.kind
          /\ answered.mine = call.mine /\ answered.title = call.title
          /\ answered.pc = "ok" /\ answered.rows = {RowOf(call.id)'}
      BY <1>1, <2>4 DEF Call
    <3> HIDE DEF answered
    <3> QED BY <2>1, <3>1
  <2>6. ASSUME NEW r \in page.list, r.id = call.id PROVE RowIsRight(r)'
    <3>1. ~Fetching /\ OneByOne
      BY <2>1, <2>5, BecomesOneByOne DEF InOrder
    <3>2. \A c \in calls : c.id = r.id => c = call
      BY <2>6, <3>1 DEF OneByOne
    <3>3. r = RowOf(r.id) /\ ~docs[r.id].archived /\ docs[r.id].made
      BY <2>1, <2>6, <3>1, <3>2 DEF InOrder, RowsAreRight, RowIsRight
    <3>4. \A c \in calls' : c.id = r.id => c = new
      BY <2>5, <2>6, <3>2 DEF Becomes
    <3>5. /\ r.title = docs[r.id].title /\ r.flags = docs[r.id].flags
          /\ r \in Row
      BY <1>1, <3>3 DEF RowOf
    <3>6. call.kind = "rename" =>
            [r EXCEPT !.title = new.title] = RowOf(r.id)'
      BY <2>2, <2>4, <2>5, <2>6, <3>5 DEF Row
    <3>7. Mends(new, r)'
      <4>1. CASE call.kind = "archive"
        BY <2>2, <2>3, <2>5, <2>6, <4>1 DEF Mends
      <4>2. CASE call.kind = "rename"
        BY <2>2, <2>3, <2>5, <2>6, <3>3, <3>6, <4>2 DEF Mends
      <4>3. CASE call.kind = "mark"
        BY <2>2, <2>3, <2>5, <2>6, <3>3, <3>5, <4>3 DEF Mends
      <4> QED BY <2>1, <4>1, <4>2, <4>3
    <3>8. new \in calls' /\ new.id = r.id /\ new.pc # "first"
      BY <2>5, <2>6 DEF Becomes
    <3>9. docs'[r.id].made
      BY <2>2, <2>3, <2>6, <3>3
    <3> QED BY <3>4, <3>7, <3>8, <3>9 DEF RowIsRight
  <2>7. \A d \in DocIds : d # call.id => docs'[d] = docs[d]
    BY <1>1, <2>1
  <2> QED BY <2>1, <2>5, <2>6, <2>7, ChangeGoesOn
<1>5. CASE CreateDocument(call) \/ CreatePermission(call)
  <2>1. call.kind = "create" /\ UNCHANGED page /\ call.id \in DocIds
    BY <1>1, <1>5 DEF CreateDocument, CreatePermission
  <2>2. PICK new : /\ Becomes(call, new)
                   /\ new \in {[call EXCEPT !.pc = "second"],
                               [call EXCEPT !.pc = "ok"]}
    BY <1>5 DEF CreateDocument, CreatePermission
  <2>3. new.id = call.id /\ new.kind = call.kind /\ new.mine = call.mine
    BY <1>1, <2>2 DEF Call
  <2>4. \A d \in DocIds : d # call.id => docs'[d] = docs[d]
    BY <1>1, <1>5 DEF CreateDocument, CreatePermission
  <2>5. \A r \in page.list : r.id # call.id
    <3>1. ~Fetching
      BY <2>1, <2>2, <2>3, BecomesOneByOne
    <3> QED BY <2>1, <3>1 DEF InOrder, NothingMissing
  <2> QED BY <2>1, <2>2, <2>3, <2>4, <2>5, ChangeGoesOn
<1> QED BY <1>2, <1>3, <1>4, <1>5 DEF ServerStep

\* A request fails: what it has done is no longer known.
LEMMA FailInOrder ==
  ASSUME TypeInv, InOrder, NEW call \in calls, CallFails(call)
  PROVE  InOrder'
<1> DEFINE new == [call EXCEPT !.pc = "failed", !.rows = {}, !.ids = {}]
<1>1. /\ new.id = call.id /\ new.kind = call.kind /\ new.mine = call.mine
      /\ new.title = call.title /\ new.pc = "failed"
  BY DEF TypeInv, TypeOK, Call
<1>2. Becomes(call, new) /\ UNCHANGED <<docs, page>>
  BY DEF CallFails
<1> HIDE DEF new
<1>3. CASE call.kind = "fetch"
  BY <1>1, <1>2, <1>3, FetchGoesOn
<1>4. CASE call.kind # "fetch"
  <2>1. ASSUME NEW r \in page.list, r.id = call.id PROVE RowIsRight(r)'
    <3>1. ~Fetching /\ OneByOne
      BY <1>1, <1>2, <1>4, BecomesOneByOne DEF InOrder
    <3>2. RowIsRight(r)
      BY <2>1, <3>1 DEF InOrder, RowsAreRight
    <3>3. \A c \in calls' : c.id = r.id => c = new
      BY <1>2, <2>1, <3>1 DEF OneByOne, Becomes
    <3>4. new \in calls'
      BY <1>2 DEF Becomes
    <3> QED BY <1>1, <1>2, <2>1, <3>2, <3>3, <3>4 DEF RowIsRight
  <2> QED BY <1>1, <1>2, <1>4, <2>1, ChangeGoesOn
<1> QED BY <1>3, <1>4

\* A good answer to a fetch is the list.
LEMMA FetchAnswered ==
  ASSUME TypeInv, InOrder, NEW call \in calls, call.kind = "fetch",
         call.pc = "ok", UNCHANGED docs, calls' = calls \ {call},
         page'.list = call.rows, page'.search = page.search
  PROVE  InOrder'
<1>1. calls' = {}
  BY DEF InOrder, OneByOne
<1>2. page'.list = {RowOf(d) : d \in FoundNow}
  BY DEF InOrder, FetchIsRight
<1>3. \A r \in page'.list :
        r.id \in FoundNow /\ r = RowOf(r.id)
  BY <1>2 DEF RowOf
<1>4. \A d \in FoundNow : \E r \in page'.list : r.id = d
  <2>1. \A d \in FoundNow : RowOf(d) \in page'.list /\ RowOf(d).id = d
    BY <1>2 DEF RowOf
  <2> QED BY <2>1
<1>5. FoundNow' = FoundNow
  BY DEF FoundNow, Found, ListedIds
<1>6. \A d \in FoundNow : docs[d].made /\ ~docs[d].archived
  BY DEF FoundNow, Found
<1>7. RowsAreRight'
  <2>1. \A r \in page'.list : r = RowOf(r.id)'
    BY <1>3 DEF RowOf
  <2>2. \A r \in page'.list : docs'[r.id].made /\ ~docs'[r.id].archived
    BY <1>3, <1>6
  <2>3. ASSUME NEW r \in page'.list PROVE RowIsRight(r)'
    BY <1>1, <2>1, <2>2, <2>3 DEF RowIsRight
  <2> QED BY <1>3, <2>3 DEF RowsAreRight
<1>8. NothingMissing'
  BY <1>1, <1>4, <1>5 DEF NothingMissing
<1> QED BY <1>1, <1>7, <1>8 DEF InOrder, OneByOne, FetchIsRight

\* A good answer to a change mends the row it is about.
LEMMA ChangeAnswered ==
  ASSUME TypeInv, InOrder, NEW call \in calls,
         call.kind \in {"archive", "rename", "mark"}, call.pc = "ok",
         UNCHANGED docs, calls' = calls \ {call},
         page'.list = Listed(page.list, call), page'.search = page.search
  PROVE  InOrder'
<1>1. call \in Call /\ page.list \in SUBSET Row
  BY DEF TypeInv, TypeOK, Page
<1>2. /\ ~Fetching /\ OneByOne /\ RowsAreRight /\ NothingMissing
      /\ \A c \in calls : c.id = call.id => c = call
  BY DEF InOrder, OneByOne, Fetching
<1>3. \A c \in calls' : c.id # call.id
  BY <1>2
<1>4. \A r \in page.list : r.id = call.id => Mends(call, r)
  BY <1>2 DEF RowsAreRight, RowIsRight
<1>5. PICK row \in page.list : row.id = call.id
  BY <1>2 DEF NothingMissing
<1>6. \A r \in page.list : r.id = call.id => r = row
  BY <1>2, <1>5 DEF RowsAreRight
<1>7. row \in Row /\ Mends(call, row) /\ docs[row.id].made
  BY <1>1, <1>2, <1>4, <1>5 DEF RowsAreRight, RowIsRight
<1> DEFINE list == page.list
<1>8. /\ call.kind = "archive" =>
            page'.list = {r \in list : r.id # call.id}
      /\ call.kind = "rename" =>
           \A q : q \in page'.list <=>
             \/ q \in list /\ q.id # call.id
             \/ \E r \in list : /\ r.id = call.id
                                /\ q = [r EXCEPT !.title = call.title]
      /\ call.kind = "mark" =>
           \A q : q \in page'.list <=>
             \/ q \in list /\ q.id # call.id
             \/ \E r \in list, a \in call.rows :
                  r.id = call.id /\ q = [r EXCEPT !.flags = a.flags]
  <2> HIDE DEF list
  <2>1. list \in SUBSET Row /\ page'.list = Listed(list, call)
    BY <1>1 DEF list
  <2> DEFINE next == page'.list
             renamed(q) == \/ q \in list /\ q.id # call.id
                           \/ \E r \in list :
                                /\ r.id = call.id
                                /\ q = [r EXCEPT !.title = call.title]
             marked(q) == \/ q \in list /\ q.id # call.id
                          \/ \E r \in list, a \in call.rows :
                               /\ r.id = call.id
                               /\ q = [r EXCEPT !.flags = a.flags]
  <2>2. /\ call.kind = "archive" =>
             Listed(list, call) = {r \in list : r.id # call.id}
        /\ call.kind = "rename" =>
             \A q : q \in Listed(list, call) <=> renamed(q)
        /\ call.kind \notin {"fetch", "archive", "rename"} =>
             \A q : q \in Listed(list, call) <=> marked(q)
    BY <1>1, <2>1, ListedIs
  <2> HIDE DEF renamed, marked
  <2>3. /\ call.kind = "archive" => next = {r \in list : r.id # call.id}
        /\ call.kind = "rename" => \A q : q \in next <=> renamed(q)
        /\ call.kind = "mark" => \A q : q \in next <=> marked(q)
    BY <2>1, <2>2
  <2> QED BY <2>3 DEF renamed, marked
<1>9. \A q \in page.list : q.id # call.id => q \in page'.list
  BY <1>8
<1>10. \A q \in page'.list :
        \/ q \in page.list /\ q.id # call.id
        \/ call.kind # "archive" /\ q = RowOf(call.id)
  <2>1. CASE call.kind = "archive"
    BY <1>1, <2>1, <1>8
  <2>2. CASE call.kind = "rename"
    BY <1>5, <1>6, <1>7, <1>8, <2>2 DEF Mends
  <2>3. CASE call.kind = "mark"
    <3>1. call.rows = {RowOf(call.id)} /\ row.title = docs[call.id].title
      BY <1>5, <1>7, <2>3 DEF Mends
    <3>2. [row EXCEPT !.flags = RowOf(call.id).flags] = RowOf(call.id)
      BY <1>5, <1>7, <3>1 DEF RowOf, Row
    <3> QED BY <1>6, <1>8, <2>3, <3>1, <3>2
  <2> QED BY <2>1, <2>2, <2>3
<1>11. \/ docs[call.id].archived
       \/ \E q \in page'.list : q.id = call.id
  <2>1. CASE call.kind = "archive"
    BY <1>5, <1>7, <2>1 DEF Mends
  <2>2. CASE call.kind = "rename"
    <3>1. [row EXCEPT !.title = call.title] \in page'.list
      BY <1>5, <1>8, <2>2
    <3> QED BY <1>5, <1>7, <3>1 DEF Row
  <2>3. CASE call.kind = "mark"
    <3>1. call.rows = {RowOf(call.id)}
      BY <1>5, <1>7, <2>3 DEF Mends
    <3>2. [row EXCEPT !.flags = RowOf(call.id).flags] \in page'.list
      BY <1>5, <1>8, <2>3, <3>1
    <3> QED BY <1>5, <1>7, <3>2 DEF Row
  <2> QED BY <2>1, <2>2, <2>3
<1>12. call.kind # "archive" => ~docs[call.id].archived
  BY <1>5, <1>7 DEF Mends
<1>13. RowsAreRight'
  <2>1. ASSUME NEW r \in page'.list PROVE RowIsRight(r)'
    <3>1. CASE r \in page.list /\ r.id # call.id
      <4>1. RowIsRight(r)
        BY <1>2, <3>1 DEF RowsAreRight
      <4>2. \A c : c.id = r.id => (c \in calls' <=> c \in calls)
        BY <3>1
      <4> QED BY <4>1, <4>2 DEF RowIsRight, Mends, RowOf
    <3>2. CASE call.kind # "archive" /\ r = RowOf(call.id)
      <4>1. r.id = call.id
        BY <3>2 DEF RowOf
      <4> QED BY <1>3, <1>5, <1>7, <1>12, <3>2, <4>1 DEF RowIsRight, RowOf
    <3> QED BY <1>10, <2>1, <3>1, <3>2
  <2>2. ASSUME NEW r \in page'.list, NEW q \in page'.list, r.id = q.id
        PROVE  r = q
    <3>1. RowOf(call.id).id = call.id
      BY DEF RowOf
    <3> QED BY <1>2, <1>10, <2>2, <3>1 DEF RowsAreRight
  <2> QED BY <2>1, <2>2 DEF RowsAreRight
<1>14. NothingMissing'
  <2>1. FoundNow' = FoundNow
    BY DEF FoundNow, Found, ListedIds
  <2>2. \A d \in FoundNow : ~docs[d].archived
    BY DEF FoundNow, Found
  <2>3. \A c \in calls : c.kind = "create" => c \in calls'
    OBVIOUS
  <2>4. ASSUME NEW d \in FoundNow
        PROVE  \/ \E r \in page'.list : r.id = d
               \/ \E c \in calls' : c.kind = "create" /\ c.id = d
    BY <1>2, <1>9, <1>11, <2>2, <2>3 DEF NothingMissing
  <2>5. \A c \in calls' : c.kind \notin {"fetch", "create"} =>
          \E r \in page'.list : r.id = c.id
    BY <1>2, <1>3, <1>9 DEF NothingMissing
  <2>6. \A r \in page'.list : \E q \in page.list : q.id = r.id
    BY <1>5, <1>10 DEF RowOf
  <2>7. \A c \in calls' : c.kind = "create" => \A r \in page'.list : r.id # c.id
    BY <1>2, <2>6 DEF NothingMissing
  <2> QED BY <2>1, <2>4, <2>5, <2>7 DEF NothingMissing
<1> QED BY <1>2, <1>13, <1>14 DEF InOrder, OneByOne, FetchIsRight, Fetching

\* An answer that leaves the page in order was good.
LEMMA AnswerInOrder ==
  ASSUME DInv, Claimed', NEW call \in calls, Receive(call) \/ Dismiss(call)
  PROVE  InOrder'
<1>1. TypeInv /\ call \in Call
  BY DEF DInv, TypeInv, TypeOK
<1>2. CASE Dismiss(call)
  <2>1. InOrder
    BY <1>2 DEF Dismiss, DInv, Claimed
  <2> QED BY <1>2, <2>1 DEF Dismiss, InOrder, OneByOne
<1>3. CASE Receive(call)
  <2>1. UNCHANGED docs
    BY <1>3 DEF Receive
  <2>2. /\ ~(call.kind = "create" /\ call.pc = "ok")
        /\ page' = Told(call, call.pc = "ok") /\ calls' = calls \ {call}
    <3>1. page' # Away
      BY PageTypes DEF Claimed
    <3> QED BY <1>3, <3>1 DEF Receive, Away
  <2>3. (call.pc = "ok") \in BOOLEAN
    OBVIOUS
  <2>4. /\ call.pc = "ok" /\ page'.search = page.search /\ Claimed
        /\ page'.list = Listed(page.list, call)
    BY <1>1, <2>2, <2>3, ToldIs DEF Claimed
  <2>5. InOrder
    BY <2>4 DEF DInv, Claimed
  <2>6. CASE call.kind = "fetch"
    <3>1. page'.list = call.rows
      BY <1>1, <2>4, <2>6, ListedIs DEF TypeInv, TypeOK, Page
    <3> QED BY <1>1, <2>1, <2>2, <2>4, <2>5, <2>6, <3>1, FetchAnswered
  <2>7. CASE call.kind # "fetch"
    <3>1. call.kind \in {"archive", "rename", "mark"}
      BY <1>1, <2>2, <2>4, <2>7 DEF Call, Kinds
    <3> QED BY <1>1, <2>1, <2>2, <2>4, <2>5, <3>1, ChangeAnswered
  <2> QED BY <2>6, <2>7
<1> QED BY <1>2, <1>3

-----------------------------------------------------------------------------
(* Theorems.                                                               *)

\* A page just mounted has a fetch to make.
LEMMA InitDInv == Init => DInv
<1> SUFFICES ASSUME Init PROVE DInv
  OBVIOUS
<1>1. page.due
  BY DEF Init, Mounted
<1> QED BY <1>1, InitTypes DEF DInv

LEMMA NextDInv == ASSUME DInv, [Next]_vars PROVE DInv'
<1>1. TypeInv'
  BY NextTypes DEF DInv
<1>2. ASSUME Claimed' PROVE InOrder'
  <2>1. CASE UNCHANGED vars
    BY <1>2, <2>1, SameListInOrder DEF vars, DInv, Claimed
  <2>2. ASSUME NEW call \in calls, ServerStep(call) \/ CallFails(call)
        PROVE  InOrder'
    <3>1. UNCHANGED page
      BY <2>2 DEF ServerStep, CallFails, ListIds, ListDocs, Change,
         CreateDocument, CreatePermission
    <3>2. TypeInv /\ InOrder
      BY <1>2, <3>1 DEF DInv, Claimed
    <3> QED BY <2>2, <3>2, ServerInOrder, FailInOrder
  <2>3. ASSUME NEW call \in calls, Receive(call) \/ Dismiss(call)
        PROVE  InOrder'
    BY <1>2, <2>3, AnswerInOrder
  <2> QED BY <1>2, <2>1, <2>2, <2>3, PageActionInOrder DEF Next
<1> QED BY <1>1, <1>2 DEF DInv, Claimed

\* In order and nothing under way is right.
LEMMA InOrderIsRight == DInv => ListIsRight
<1> SUFFICES ASSUME DInv, page.shown, page.orderly, ~page.loading, ~page.due,
                    calls = {}
             PROVE  /\ \A r \in page.list :
                         r = RowOf(r.id) /\ ~docs[r.id].archived
                    /\ \A d \in FoundNow : RowOf(d) \in page.list
  BY DEF ListIsRight, FoundNow, ListedIds
<1>1. RowsAreRight /\ NothingMissing
  BY DEF DInv, InOrder, Fetching
<1>2. \A r \in page.list : r = RowOf(r.id) /\ ~docs[r.id].archived
  BY <1>1 DEF RowsAreRight, RowIsRight
<1> QED BY <1>1, <1>2 DEF NothingMissing

\* Every reachable state of the dashboard, its routes and the requests
\* between them is well typed.
THEOREM TypeCorrect == Spec => []TypeOK
<1>1. DInv => TypeOK
  BY DEF DInv, TypeInv
<1> QED BY InitDInv, NextDInv, <1>1, PTL DEF Spec

\* The list the dashboard puts together from fetches and from its own changes
\* shows every document the search finds, each as it is, whenever nothing is
\* under way and the requests since the last mount came one at a time on what
\* they concern and none failed.
THEOREM ListIsAlwaysRight == Spec => []ListIsRight
BY InitDInv, NextDInv, InOrderIsRight, PTL DEF Spec

=============================================================================
