------------------------------ MODULE Comments ------------------------------
(***************************************************************************)
(* The comments of the documents: the routes of routes/comments.js, the    *)
(* relay of sockets/collab.js and the sidebar of an editor page            *)
(* (CommentsSidebar.jsx), over the rooms and connections of Presence.      *)
(*                                                                         *)
(* A sidebar learns of comments in three ways that nothing orders: the     *)
(* answer to its fetch, the answers to its own requests, and the events    *)
(* that other pages send when their request has been answered.  Only new   *)
(* comments are sent to others: the events for replies and resolutions     *)
(* exist in the server and in the sidebar, but no page emits them.         *)
(***************************************************************************)
EXTENDS Presence

CONSTANTS
  Limit,      \* how many comments a fetch answers: 200 in the code
  MaxOpens,   \* bound: sidebars opened
  MaxPosts,   \* bound: comments
  MaxTouches, \* bound: replies and resolutions
  MaxActs     \* bound: sidebars opened, comments, replies, resolutions and
              \* faults, together

ASSUME LimitIsPositive == Limit \in Nat \ {0}
ASSUME CommentBoundsAreNumbers ==
  {MaxOpens, MaxPosts, MaxTouches, MaxActs} \subseteq Nat

VARIABLES
  db,       \* db[d]: the comments of d, newest first, as the fetch sorts them
  side,     \* side[p]: the sidebar of p
  calls,    \* requests in progress
  relays,   \* doc:comment:create events on their way to the server
  complete, \* history: every comment made was or will be sent to the others
  opens, posts, touches

commentCounts == <<opens, posts, touches>>
vars == <<presenceVars, db, side, calls, relays, complete, commentCounts>>

Comment == [id : 1..MaxPosts, doc : Docs, replies : 0..MaxTouches,
            resolved : BOOLEAN]

\* Mutant: without a list, as useState() would leave it.
FoldedBare == [open |-> FALSE, list |-> None, overtaken |-> FALSE,
               sole |-> TRUE]

\* overtaken: history, comments were being made while it was opened or
\* fetched, or it could not hear of them.  sole: history, nobody else touched
\* a thread, and its own requests did not overlap.
Folded == [open |-> FALSE, list |-> <<>>, overtaken |-> FALSE, sole |-> TRUE]

\* The answer is a sequence of comments; mine: the sidebar still waits for it.
Call == [page : Pages, doc : Docs, kind : {"fetch", "post", "reply", "resolve"},
         id : 0..MaxPosts, pc : {"sent", "served", "failed"},
         data : Seq(Comment), mine : BOOLEAN]

TypeOK ==
  /\ PresenceTypeOK
  /\ \A p \in Pages : \A i \in DOMAIN wire[p] :
       wire[p][i] \in Events \cup Answers \cup
                      [is : {"comment"}, doc : Docs, comment : Comment]
  /\ db \in [Docs -> Seq(Comment)]
  /\ side \in [Pages -> [open : BOOLEAN, list : Seq(Comment),
                         overtaken : BOOLEAN, sole : BOOLEAN]]
  /\ \A c \in calls : c \in Call
  /\ \A r \in relays : r \in [conn : Conns, comment : Comment]
  /\ complete \in BOOLEAN
  /\ opens \in 0..MaxOpens
  /\ posts \in 0..MaxPosts
  /\ touches \in 0..MaxTouches

Init ==
  /\ PresenceInit
  /\ db = [d \in Docs |-> <<>>]
  /\ side = [p \in Pages |-> Folded]
  /\ calls = {}
  /\ relays = {}
  /\ complete = TRUE
  /\ opens = 0
  /\ posts = 0
  /\ touches = 0

-----------------------------------------------------------------------------
Within == opens + posts + touches + faults < MaxActs
NewCall(p, kind, id) ==
  [page |-> p, doc |-> tab[p].doc, kind |-> kind, id |-> id, pc |-> "sent",
   data |-> <<>>, mine |-> TRUE]
Waits(p, kinds) == {c \in calls : c.page = p /\ c.mine /\ c.kind \in kinds}

\* Comments of d that p may not have heard of yet.
UnderWay(p, d) ==
  \/ \E c \in calls : c.kind = "post" /\ c.doc = d
  \/ \E r \in relays : r.comment.doc = d
  \/ \E i \in DOMAIN wire[p] : wire[p][i].is = "comment"

OpenSidebar(p) ==
  /\ tab[p].at = "open" /\ ~side[p].open
  /\ Within /\ opens < MaxOpens /\ opens' = opens + 1
  /\ side' = [side EXCEPT ![p] =
       [open |-> TRUE, list |-> <<>>,
        overtaken |-> UnderWay(p, tab[p].doc) \/ tab[p].on # current[p],
        sole |-> \A c \in calls : c.kind \notin {"reply", "resolve"}]]
  /\ calls' = calls \cup {NewCall(p, "fetch", 0)}
  /\ UNCHANGED <<presenceVars, db, relays, complete, posts, touches>>

\* The answers to requests of a sidebar that has gone change nothing; the
\* requests themselves may.
Orphaned(gone) ==
  {IF c.page \in gone THEN [c EXCEPT !.mine = FALSE] ELSE c :
     c \in {c \in calls : c.page \in gone =>
             \/ c.kind # "fetch" /\ c.pc = "sent"
             \/ c.kind = "post" /\ c.pc = "served"}}

CloseSidebar(p) ==
  /\ side[p].open
  /\ side' = [side EXCEPT ![p] = Folded]
  /\ calls' = Orphaned({p})
  /\ UNCHANGED <<presenceVars, db, relays, complete, commentCounts>>

\* handleCreate; busy admits one at a time.
Post(p) ==
  /\ side[p].open /\ Waits(p, {"post"}) = {}
  /\ Within /\ posts < MaxPosts /\ posts' = posts + 1
  /\ calls' = calls \cup {NewCall(p, "post", posts')}
  /\ side' = [q \in Pages |->
       IF Waits(q, {"fetch"}) # {} /\ tab[q].doc = tab[p].doc
       THEN [side[q] EXCEPT !.overtaken = TRUE] ELSE side[q]]
  /\ UNCHANGED <<presenceVars, db, relays, complete, opens, touches>>

\* handleReply and handleResolve.
Touch(p, kind, c) ==
  /\ side[p].open
  /\ c \in ToSet(side[p].list) /\ ~c.resolved
  /\ Within /\ touches < MaxTouches /\ touches' = touches + 1
  /\ NewCall(p, kind, c.id) \notin calls
  /\ calls' = calls \cup {NewCall(p, kind, c.id)}
  /\ side' = [q \in Pages |->
       IF q # p \/ Waits(p, {"fetch", "reply", "resolve"}) # {}
       THEN [side[q] EXCEPT !.sole = FALSE] ELSE side[q]]
  /\ UNCHANGED <<presenceVars, db, relays, complete, opens, posts>>

-----------------------------------------------------------------------------
(* The routes.                                                             *)

\* findOneAndUpdate of a comment under its document; {new: true} answers the
\* comment as it is now.
Touched(c, kind) == IF kind = "reply" THEN [c EXCEPT !.replies = @ + 1]
                    ELSE [c EXCEPT !.resolved = TRUE]
Update(list, id, c) ==
  [i \in DOMAIN list |-> IF list[i].id = id THEN c ELSE list[i]]
Found(call) == {c \in ToSet(db[call.doc]) : c.id = call.id}

\* As many of the comments of a document as a fetch may answer.
Newest(list) == SubSeq(list, 1, IF Len(list) < Limit THEN Len(list) ELSE Limit)

\* Mutant: sorted the other way.
FetchedOldest(d) == Reverse(Newest(Reverse(db[d])))

\* What a fetch answers.
Fetched(d) == Newest(db[d])

\* Mutant: without {new: true}.
AnswerAfterOld(c, kind) == <<c>>

\* What the database answers to a request that finds the comment c.
AnswerAfter(c, kind) == <<Touched(c, kind)>>

\* The single call of a route.
Serve(call) ==
  LET Served(data) == calls' = (calls \ {call}) \cup
        {c \in {[call EXCEPT !.pc = "served", !.data = data]} :
           c.mine \/ c.kind = "post"}
      made == [id |-> call.id, doc |-> call.doc, replies |-> 0,
               resolved |-> FALSE]
  IN /\ call.pc = "sent"
     /\ \/ /\ call.kind = "fetch"
           /\ Served(Fetched(call.doc))
           /\ UNCHANGED db
        \/ /\ call.kind = "post"
           /\ db' = [db EXCEPT ![call.doc] = <<made>> \o @]
           /\ Served(<<made>>)
        \/ /\ call.kind \in {"reply", "resolve"}
           /\ \E c \in Found(call) :
                /\ db' = [db EXCEPT ![call.doc] =
                     Update(@, call.id, Touched(c, call.kind))]
                /\ Served(AnswerAfter(c, call.kind))
        \/ /\ call.kind \in {"reply", "resolve"}
           /\ Found(call) = {}
           /\ calls' = (calls \ {call}) \cup {[call EXCEPT !.pc = "failed"]}
           /\ UNCHANGED db
     /\ UNCHANGED <<presenceVars, side, relays, complete, commentCounts>>

\* A request fails, before or after it has had its effect.
CallFails(call) ==
  /\ Within /\ faults < MaxFaults /\ faults' = faults + 1
  /\ call.pc \in {"sent", "served"}
  /\ calls' = (calls \ {call}) \cup {[call EXCEPT !.pc = "failed"]}
  /\ complete' = (complete /\ (call.kind = "post" => call.pc = "sent"))
  /\ UNCHANGED <<tab, current, ended, joins, members, clients, wire, visits>>
  /\ UNCHANGED <<db, side, relays, commentCounts>>

-----------------------------------------------------------------------------
(* The sidebar.                                                            *)

\* setComments with a good answer.
Shown(list, call) ==
  CASE call.kind = "fetch" -> call.data
    [] call.kind = "post" -> call.data \o list
    [] OTHER -> Update(list, call.id, call.data[1])

\* A good answer.  A new comment is also sent to the other pages, even if the
\* sidebar has gone.
Answered(call) ==
  LET p == call.page
  IN /\ call.pc = "served"
     /\ calls' = calls \ {call}
     /\ side' = IF call.mine
                THEN [side EXCEPT ![p].list = Shown(@, call)] ELSE side
     /\ relays' = IF call.kind # "post" THEN relays
                  ELSE relays \cup {[conn |-> Conn(p),
                                     comment |-> call.data[1]]}
     /\ UNCHANGED <<presenceVars, db, complete, commentCounts>>

\* Failures are silent.
Refused(call) ==
  /\ call.pc = "failed"
  /\ calls' = calls \ {call}
  /\ side' = IF ~call.mine THEN side
             ELSE [side EXCEPT ![call.page].overtaken =
                                  @ \/ call.kind = "fetch",
                               ![call.page].sole = FALSE]
  /\ UNCHANGED <<presenceVars, db, relays, complete, commentCounts>>

\* doc:comment:create reaches the server, which asks nothing and tells the
\* other members; what a lost connection carried may not arrive.
Relay(r) ==
  /\ r \in relays /\ relays' = relays \ {r}
  /\ \/ /\ wire' = Sent(r.comment.doc, r.conn,
                        [is |-> "comment", doc |-> r.comment.doc,
                         comment |-> r.comment])
        /\ UNCHANGED complete
     \/ ~Live(r.conn) /\ complete' = FALSE /\ UNCHANGED wire
  /\ UNCHANGED <<tab, current, ended, joins, members, clients, visits, faults>>
  /\ UNCHANGED <<db, side, calls, commentCounts>>

\* onCreate: it does not look at the document.
ReceiveComment(p) ==
  /\ NextEvent(p, {"comment"})
  /\ wire' = [wire EXCEPT ![p] = Tail(@)]
  /\ side' = IF ~side[p].open THEN side
             ELSE [side EXCEPT ![p].list = <<Head(wire[p]).comment>> \o @]
  /\ UNCHANGED <<tab, current, ended, joins, members, clients, visits, faults>>
  /\ UNCHANGED <<db, calls, relays, complete, commentCounts>>

\* Connections and rooms change; a tab that no longer shows the document has
\* no sidebar.
PresenceStep ==
  LET left == {p \in Pages : tab'[p].at # "open"}
  IN /\ PresenceNext
     /\ Within \/ UNCHANGED faults
     /\ side' = [p \in Pages |-> IF p \in left THEN Folded ELSE side[p]]
     /\ calls' = Orphaned(left)
     /\ UNCHANGED <<db, relays, complete, commentCounts>>

-----------------------------------------------------------------------------
Next ==
  \/ PresenceStep
  \/ \E p \in Pages :
       \/ OpenSidebar(p) \/ CloseSidebar(p) \/ Post(p)
       \/ \E kind \in {"reply", "resolve"}, c \in ToSet(side[p].list) :
            Touch(p, kind, c)
       \/ ReceiveComment(p)
  \/ \E c \in calls : Serve(c) \/ CallFails(c) \/ Answered(c) \/ Refused(c)
  \/ \E r \in relays : Relay(r)

Spec == Init /\ [][Next]_vars

-----------------------------------------------------------------------------
(* Properties.                                                             *)

\* The sidebar of p is up to date as far as p can know: everything has
\* arrived, and nothing came between its opening and its fetch.
UpToDate(p) ==
  /\ side[p].open /\ ~side[p].overtaken /\ Listening(p)
  /\ Waits(p, {"fetch", "post", "reply", "resolve"}) = {}
  /\ ~UnderWay(p, tab[p].doc)
  /\ complete
Own(p) == {i \in DOMAIN side[p].list : side[p].list[i].doc = tab[p].doc}
OwnComments(p) == {side[p].list[i] : i \in Own(p)}
Ids(cs) == {c.id : c \in cs}

\* Of the comments made anywhere each of the newest, as many as a fetch would
\* answer, is shown in every sidebar that listens, through the fetch, the
\* answer or the event; none is shown twice, and nothing that was not made --
\* unless the sidebar was opened, or still fetching, while one was being made.
EachShownOnce ==
  \A p \in Pages : UpToDate(p) =>
    /\ Ids(ToSet(Newest(db[tab[p].doc]))) \subseteq Ids(OwnComments(p))
    /\ Ids(OwnComments(p)) \subseteq Ids(ToSet(db[tab[p].doc]))
    /\ \A i, j \in Own(p) :
         side[p].list[i].id = side[p].list[j].id => i = j

\* While nobody else touches the threads, and p one at a time, p shows no
\* thread but as it is: every reply and resolution it asked for, once.
OwnThreadsAgree ==
  \A p \in Pages : UpToDate(p) /\ side[p].sole =>
    OwnComments(p) \subseteq ToSet(db[tab[p].doc])
=============================================================================
