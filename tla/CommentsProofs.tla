--------------------------- MODULE CommentsProofs ---------------------------
(***************************************************************************)
(* What the sidebars show is right, for any number of pages, documents and *)
(* comments.  The invariant comes in layers, each proved with the help of  *)
(* the ones before it: types; the way of a comment from the request that   *)
(* makes it to the pages that are told (every id is in one place at a      *)
(* time); what a sidebar that follows has, or will hear of; and what it    *)
(* has while it alone touches the threads.                                 *)
(***************************************************************************)
EXTENDS Comments, PresenceProofs

-----------------------------------------------------------------------------
(* Types.                                                                  *)

CommentEvents == [is : {"comment"}, doc : Docs, comment : Comment]
Alpha == Events \cup Answers \cup CommentEvents
Sidebar == [open : BOOLEAN, list : Seq(Comment), overtaken : BOOLEAN,
            sole : BOOLEAN]
Relayed == [conn : Conns, comment : Comment]

CallTyped(c) ==
  /\ c \in Call
  /\ c.kind # "fetch" => c.id \in 1..MaxPosts
  /\ c.pc = "served" /\ c.kind # "fetch" => Len(c.data) = 1

\* A reply that a comment has, or will have, was counted as a touch.
Pending == {c \in calls : c.kind = "reply" /\ c.pc = "sent"}
RepliesFit ==
  /\ Cardinality(Pending) <= touches
  /\ \A d \in Docs : \A i \in DOMAIN db[d] :
       db[d][i].replies + Cardinality(Pending) <= touches

CTypes ==
  /\ db \in [Docs -> Seq(Comment)]
  /\ side \in [Pages -> Sidebar]
  /\ \A p \in Pages : side[p].open => Shows(p)
  /\ IsFiniteSet(calls) /\ \A c \in calls : CallTyped(c)
  /\ relays \subseteq Relayed
  /\ complete \in BOOLEAN
  /\ opens \in 0..MaxOpens /\ posts \in 0..MaxPosts /\ touches \in 0..MaxTouches
  /\ RepliesFit
TInv == PInv(Alpha) /\ CTypes

-----------------------------------------------------------------------------
(* The way of a comment.                                                   *)

Made(d, n) == \E i \in DOMAIN db[d] : db[d][i].id = n
Known(x) == Made(x.doc, x.id)

\* The comment n is among those a fetch would answer.
Recent(d, n) == \E i \in DOMAIN db[d] : i <= Limit /\ db[d][i].id = n
IsComment(e) == e.is = "comment"
OnWire(p, n) ==
  \E i \in 1..Len(wire[p]) :
    IsComment(wire[p][i]) /\ wire[p][i].comment.id = n

DbOK ==
  \A d \in Docs : \A i \in DOMAIN db[d] :
    /\ db[d][i].doc = d /\ db[d][i].id <= posts
    /\ \A e \in Docs : \A j \in DOMAIN db[e] :
         db[e][j].id = db[d][i].id => e = d /\ j = i

FetchOK(c) ==
  c.mine /\ \A b \in calls : b.kind = "fetch" /\ b.page = c.page => b = c
PostOK(c) ==
  /\ c.id <= posts
  /\ c.pc = "sent" => \A d \in Docs : ~Made(d, c.id)
  /\ \A b \in calls : b.kind = "post" /\ b.id = c.id => b = c
  /\ \A r \in relays : r.comment.id # c.id
  /\ \A p \in Pages : ~OnWire(p, c.id)
ServedOK(c) ==
  \A i \in DOMAIN c.data :
    /\ c.data[i].doc = c.doc /\ Made(c.doc, c.data[i].id)
    /\ c.kind # "fetch" => c.data[i].id = c.id
CallOK(c) ==
  /\ c.mine => side[c.page].open /\ c.doc = tab[c.page].doc
  /\ c.kind = "fetch" => FetchOK(c)
  /\ c.kind = "post" => PostOK(c)
  /\ c.pc = "served" => ServedOK(c)

RelayOK(r) ==
  /\ Known(r.comment)
  /\ \A q \in relays : q.comment.id = r.comment.id => q = r
  /\ \A p \in Pages : ~OnWire(p, r.comment.id)

WireOK(p) ==
  \A i \in 1..Len(wire[p]) : IsComment(wire[p][i]) =>
    /\ Known(wire[p][i].comment)
    /\ \A j \in 1..Len(wire[p]) :
         IsComment(wire[p][j]) /\ wire[p][j].comment.id = wire[p][i].comment.id
           => j = i

SideOK(p) ==
  /\ side[p].open /\ ~side[p].overtaken => tab[p].on # None
  /\ \A i \in DOMAIN side[p].list : Known(side[p].list[i])

WayInv ==
  /\ DbOK
  /\ \A c \in calls : CallOK(c)
  /\ \A r \in relays : RelayOK(r)
  /\ \A p \in Pages : WireOK(p) /\ SideOK(p)

-----------------------------------------------------------------------------
(* A sidebar that follows.                                                 *)

Follows(p) == side[p].open /\ ~side[p].overtaken /\ Connected(p) /\ complete
Fetching(p) == \E c \in calls : c.kind = "fetch" /\ c.page = p
Listed(p, n) == \E i \in Own(p) : side[p].list[i].id = n

\* The comment n is on its way to p.
Coming(p, n) ==
  \/ OnWire(p, n)
  \/ \E r \in relays : r.conn # Conn(p) /\ r.comment.id = n
  \/ \E c \in calls : c.kind = "post" /\ c.pc = "served" /\ c.id = n

\* While it fetches, no comment is being made; the answer has the newest.
FetchTold(c) ==
  /\ \A n \in 1..MaxPosts : Recent(c.doc, n) =>
       \E i \in DOMAIN c.data : c.data[i].id = n
  /\ \A i, j \in DOMAIN c.data : c.data[i].id = c.data[j].id => i = j
Awaits(p) ==
  /\ \A c \in calls :
       /\ c.kind = "post" => c.doc # tab[p].doc
       /\ c.kind = "fetch" /\ c.page = p /\ c.pc = "served" => FetchTold(c)
  /\ \A r \in relays : r.comment.doc # tab[p].doc
  /\ \A i \in 1..Len(wire[p]) :
       IsComment(wire[p][i]) => wire[p][i].comment.doc # tab[p].doc

\* Then each of the newest is shown, or on its way, and none is both.
HasFetched(p) ==
  /\ \A c \in calls :
       c.kind = "post" /\ c.page = p /\ c.doc = tab[p].doc => c.mine
  /\ \A i \in Own(p) :
       /\ ~Coming(p, side[p].list[i].id)
       /\ \A j \in Own(p) : side[p].list[j].id = side[p].list[i].id => j = i
  /\ \A n \in 1..MaxPosts :
       Recent(tab[p].doc, n) => Listed(p, n) \/ Coming(p, n)

FollowOK(p) ==
  Follows(p) => (Fetching(p) => Awaits(p)) /\ (~Fetching(p) => HasFetched(p))
FollowInv == \A p \in Pages : FollowOK(p)

-----------------------------------------------------------------------------
(* A sidebar that follows, and alone touches the threads.                  *)

IsTouch(c) == c.kind \in {"reply", "resolve"}
Held(d, x) == x \in ToSet(db[d])

TouchesOwn(p) ==
  \A c \in calls : IsTouch(c) =>
    /\ c.page = p /\ c.mine /\ ~Fetching(p)
    /\ \A b \in calls : IsTouch(b) => b = c
    /\ \E i \in DOMAIN side[p].list : side[p].list[i].id = c.id

\* What p shows of a comment, or will once its own request is answered.
Touching(x, y) ==
  \E c \in calls : /\ IsTouch(c) /\ c.id = x.id /\ c.pc # "sent"
                   /\ c.pc = "served" => c.data[1] = y
ListAgrees(p) ==
  \A x \in OwnComments(p) : \A y \in ToSet(db[tab[p].doc]) :
    y.id = x.id => x = y \/ Touching(x, y)

\* What p will be told, or has been answered.
Arriving(p, x) ==
  \/ \E i \in 1..Len(wire[p]) : IsComment(wire[p][i]) /\ wire[p][i].comment = x
  \/ \E r \in relays : r.conn # Conn(p) /\ r.comment = x
  \/ \E c \in calls : /\ c.pc = "served" /\ (c.kind = "fetch" => c.page = p)
                      /\ \E i \in DOMAIN c.data : c.data[i] = x
ComingAgrees(p) ==
  \A x \in Comment : Arriving(p, x) /\ x.doc = tab[p].doc => Held(x.doc, x)

SoleOK(p) ==
  Follows(p) /\ side[p].sole =>
    /\ TouchesOwn(p)
    /\ ComingAgrees(p)
    /\ ~Fetching(p) => ListAgrees(p)
SoleInv == \A p \in Pages : SoleOK(p)

CInv == TInv /\ WayInv /\ FollowInv /\ SoleInv

-----------------------------------------------------------------------------
(* Proof of the types.                                                     *)

LEMMA AlphaIsAlphabet == Alphabet(Alpha)
  BY DEF Alphabet, Alpha, Events, Answers, CommentEvents, IsEvent, IsAnswer

LEMMA CallTypes ==
  ASSUME CTypes, NEW c \in calls
  PROVE /\ c \in Call /\ c.page \in Pages /\ c.doc \in Docs
        /\ c.kind \in {"fetch", "post", "reply", "resolve"}
        /\ c.id \in 0..MaxPosts /\ c.pc \in {"sent", "served", "failed"}
        /\ c.data \in Seq(Comment) /\ c.mine \in BOOLEAN
        /\ c.kind # "fetch" => c.id \in 1..MaxPosts
        /\ c.pc = "served" /\ c.kind # "fetch" =>
             Len(c.data) = 1 /\ c.data[1] \in Comment
        /\ c = [page |-> c.page, doc |-> c.doc, kind |-> c.kind, id |-> c.id,
                pc |-> c.pc, data |-> c.data, mine |-> c.mine]
<1>1. CallTyped(c)
  BY DEF CTypes
<1>2. c.data \in Seq(Comment) /\ Len(c.data) = 1 => c.data[1] \in Comment
  OBVIOUS
<1> QED
  BY <1>1, <1>2 DEF CallTyped, Call

LEMMA SideTypes ==
  ASSUME CTypes, NEW p \in Pages
  PROVE /\ side[p] \in Sidebar /\ side[p].list \in Seq(Comment)
        /\ \A i \in DOMAIN side[p].list : side[p].list[i] \in Comment
  BY DEF CTypes, Sidebar

LEMMA DbTypes ==
  ASSUME CTypes, NEW d \in Docs
  PROVE /\ db[d] \in Seq(Comment) /\ DOMAIN db[d] = 1..Len(db[d])
        /\ \A i \in DOMAIN db[d] :
             /\ db[d][i] \in Comment /\ db[d][i].id \in 1..MaxPosts
             /\ db[d][i].replies \in Nat
<1>1. db[d] \in Seq(Comment)
  BY DEF CTypes
<1>2. \A x \in Comment : x.id \in 1..MaxPosts /\ x.replies \in Nat
  BY CommentBoundsAreNumbers DEF Comment
<1>3. PICK s : s = db[d]
  OBVIOUS
<1>4. DOMAIN s = 1..Len(s) /\ \A i \in DOMAIN s : s[i] \in Comment
  BY <1>1, <1>3
<1> QED
  BY <1>1, <1>2, <1>3, <1>4

LEMMA FoldedTypes == Folded \in Sidebar
  BY DEF Folded, Sidebar

LEMMA UpdateTypes ==
  ASSUME NEW s \in Seq(Comment), NEW n, NEW x \in Comment
  PROVE /\ Update(s, n, x) \in Seq(Comment)
        /\ DOMAIN Update(s, n, x) = DOMAIN s
        /\ \A i \in DOMAIN s :
             Update(s, n, x)[i] = IF s[i].id = n THEN x ELSE s[i]
<1>1. DOMAIN s = 1..Len(s) /\ Len(s) \in Nat
      /\ \A i \in 1..Len(s) : s[i] \in Comment
  OBVIOUS
<1>2. Update(s, n, x) = [i \in 1..Len(s) |-> IF s[i].id = n THEN x ELSE s[i]]
  BY <1>1 DEF Update
<1>3. Update(s, n, x) \in [1..Len(s) -> Comment]
  BY <1>1, <1>2
<1> QED
  BY <1>1, <1>2, <1>3

\* What a request that is orphaned has been.
OrphanOf(b, c, gone) ==
  /\ b = [page |-> c.page, doc |-> c.doc, kind |-> c.kind, id |-> c.id,
          pc |-> c.pc, data |-> c.data,
          mine |-> c.mine /\ c.page \notin gone]
  /\ c.page \in gone => c.kind # "fetch"

LEMMA OrphanedAre ==
  ASSUME CTypes, NEW gone
  PROVE /\ \A b \in Orphaned(gone) : \E c \in calls : OrphanOf(b, c, gone)
        /\ \A c \in calls :
             (c.page \in gone => /\ c.kind # "fetch"
                                 /\ \/ c.pc = "sent"
                                    \/ c.kind = "post" /\ c.pc = "served") =>
               \E b \in Orphaned(gone) : OrphanOf(b, c, gone)
        /\ IsFiniteSet(Orphaned(gone))
<1> DEFINE S == {c \in calls : c.page \in gone =>
                  \/ c.kind # "fetch" /\ c.pc = "sent"
                  \/ c.kind = "post" /\ c.pc = "served"}
           g(c) == IF c.page \in gone THEN [c EXCEPT !.mine = FALSE] ELSE c
           f == [c \in S |-> g(c)]
<1>1. Orphaned(gone) = {g(c) : c \in S}
  BY DEF Orphaned
<1>2. ASSUME NEW c \in S PROVE OrphanOf(g(c), c, gone)
  <2>1. c = [page |-> c.page, doc |-> c.doc, kind |-> c.kind, id |-> c.id,
             pc |-> c.pc, data |-> c.data, mine |-> c.mine]
        /\ c.mine \in BOOLEAN
    BY CallTypes
  <2>2. CASE c.page \in gone
    <3>1. g(c) = [page |-> c.page, doc |-> c.doc, kind |-> c.kind, id |-> c.id,
                  pc |-> c.pc, data |-> c.data, mine |-> FALSE]
      BY <2>1, <2>2
    <3> QED
      BY <3>1, <2>2 DEF OrphanOf
  <2>3. CASE c.page \notin gone
    BY <2>1, <2>3 DEF OrphanOf
  <2> QED
    BY <2>2, <2>3
<1>3. f \in Surjection(S, {g(c) : c \in S})
  BY DEF Surjection
<1>4. IsFiniteSet(S)
  BY FS_Subset DEF CTypes
<1> QED
  BY <1>1, <1>2, <1>3, <1>4, FS_Surjection

\* No request for a reply is added by the orphaning of others.
LEMMA PendingOrphans ==
  ASSUME CTypes, NEW gone, calls' = Orphaned(gone)
  PROVE Cardinality(Pending') \in Nat
        /\ Cardinality(Pending') <= Cardinality(Pending)
<1> DEFINE g(c) == IF c.page \in gone THEN [c EXCEPT !.mine = FALSE] ELSE c
           f == [c \in Pending |-> g(c)]
<1>1. ASSUME NEW c \in calls PROVE g(c).kind = c.kind /\ g(c).pc = c.pc
  BY CallTypes
<1>2. Pending' = {g(c) : c \in Pending}
  BY <1>1 DEF Pending, Orphaned
<1>3. f \in Surjection(Pending, Pending')
  BY <1>2 DEF Surjection
<1>4. IsFiniteSet(Pending)
  BY FS_Subset DEF CTypes, Pending
<1> QED
  BY <1>3, <1>4, FS_Surjection, FS_CardinalityType

LEMMA PendingIsFinite ==
  ASSUME CTypes PROVE IsFiniteSet(Pending) /\ Cardinality(Pending) \in Nat
<1>1. IsFiniteSet(Pending)
  BY FS_Subset DEF CTypes, Pending
<1> QED
  BY <1>1, FS_CardinalityType

LEMMA PendingShrinks ==
  ASSUME CTypes, Pending' \subseteq Pending
  PROVE /\ Cardinality(Pending') \in Nat
        /\ Cardinality(Pending') <= Cardinality(Pending)
<1>1. IsFiniteSet(Pending) /\ Cardinality(Pending) \in Nat
  BY PendingIsFinite
<1> QED
  BY <1>1, FS_Subset, FS_CardinalityType

LEMMA RepliesStillFit ==
  ASSUME CTypes, UNCHANGED db, touches' \in Nat, Cardinality(Pending') \in Nat,
         Cardinality(Pending') - Cardinality(Pending) <= touches' - touches
  PROVE RepliesFit'
<1>0. Cardinality(Pending') <= touches'
  BY PendingIsFinite, CommentBoundsAreNumbers DEF CTypes, RepliesFit
<1> SUFFICES ASSUME NEW d \in Docs, NEW i \in DOMAIN db[d]
             PROVE db[d][i].replies + Cardinality(Pending') <= touches'
  BY <1>0 DEF RepliesFit
<1>1. db[d][i].replies + Cardinality(Pending) <= touches
  BY DEF CTypes, RepliesFit
<1>2. touches \in Nat /\ db[d][i].replies \in Nat
  BY DbTypes, CommentBoundsAreNumbers DEF CTypes
<1> QED
  BY <1>1, <1>2, PendingIsFinite

LEMMA TInitHolds == Init => TInv
<1> SUFFICES ASSUME Init PROVE TInv
  OBVIOUS
<1>1. PInv(Alpha)
  BY AlphaIsAlphabet, PInvInit DEF Init
<1>2. CTypes
  <2>1. db \in [Docs -> Seq(Comment)] /\ side \in [Pages -> Sidebar]
    BY FoldedTypes DEF Init
  <2>2. RepliesFit
    BY FS_EmptySet DEF Init, RepliesFit, Pending
  <2>3. \A p \in Pages : ~side[p].open
    BY DEF Init, Folded
  <2> QED
    BY <2>1, <2>2, <2>3, FS_EmptySet, CommentBoundsAreNumbers DEF Init, CTypes
<1> QED
  BY <1>1, <1>2 DEF TInv

\* The rooms and the wires, whatever the comments do.
LEMMA PInvKept ==
  ASSUME TInv, Next PROVE PInv(Alpha)'
<1> USE DEF TInv
<1>1. CASE PresenceStep
  BY <1>1, PInvNext DEF PresenceStep
<1>2. CASE UNCHANGED presenceVars
  BY <1>2, PInvIdle
<1>3. ASSUME NEW p \in Pages, ReceiveComment(p) PROVE PInv(Alpha)'
  BY <1>3, PInvHeardElse DEF ReceiveComment, NextEvent, IsAnswer, IsEvent
<1>4. ASSUME NEW c \in calls, CallFails(c) PROVE PInv(Alpha)'
  <2>1. faults' \in 0..MaxFaults /\ faults' >= faults
    BY <1>4, BoundsAreNumbers DEF CallFails, PInv, PTypes, PresenceTypeOK
  <2> QED
    BY <1>4, <2>1, PInvFaults DEF CallFails
<1>5. ASSUME NEW r \in relays, Relay(r) PROVE PInv(Alpha)'
  <2> DEFINE e == [is |-> "comment", doc |-> r.comment.doc,
                   comment |-> r.comment]
  <2>1. r.comment \in Comment /\ r.comment.doc \in Docs
    BY DEF CTypes, Relayed, Comment
  <2>2. e \in Alpha /\ ~IsEvent(e) /\ ~IsAnswer(e)
    BY <2>1 DEF Alpha, CommentEvents, IsEvent, IsAnswer
  <2>3. CASE UNCHANGED wire
    BY <1>5, <2>3, PInvIdle DEF Relay, presenceVars
  <2>4. CASE wire' = Sent(r.comment.doc, r.conn, e)
    <3> HIDE DEF e
    <3>1. UNCHANGED <<tab, current, ended, joins, members, clients, visits,
                      faults>>
      BY <1>5 DEF Relay
    <3> QED
      BY <2>1, <2>2, <2>4, <3>1, PInvSentElse
  <2> QED
    BY <1>5, <2>3, <2>4 DEF Relay
<1> QED
  BY <1>1, <1>2, <1>3, <1>4, <1>5
  DEF Next, OpenSidebar, CloseSidebar, Post, Touch, Serve, Answered, Refused

LEMMA NewCallTypes ==
  ASSUME TInv, NEW p \in Pages, Shows(p), NEW n \in 0..MaxPosts,
         NEW kind \in {"fetch", "post", "reply", "resolve"},
         kind # "fetch" => n \in 1..MaxPosts
  PROVE /\ CallTyped(NewCall(p, kind, n))
        /\ NewCall(p, kind, n).kind = kind /\ NewCall(p, kind, n).pc = "sent"
<1>1. tab[p].doc \in Docs
  BY DEF TInv, PInv, TabsAreRight, TabOK
<1>2. <<>> \in Seq(Comment)
  OBVIOUS
<1> QED
  BY <1>1, <1>2 DEF NewCall, CallTyped, Call

LEMMA CTypesPresence ==
  ASSUME TInv, PresenceStep PROVE CTypes'
<1> DEFINE left == {p \in Pages : tab'[p].at # "open"}
<1>1. /\ side' = [p \in Pages |-> IF p \in left THEN Folded ELSE side[p]]
      /\ calls' = Orphaned(left)
      /\ UNCHANGED <<db, relays, complete, opens, posts, touches>>
  BY DEF PresenceStep, commentCounts
<1> HIDE DEF left
<1>2. side' \in [Pages -> Sidebar]
  BY <1>1, FoldedTypes DEF TInv, CTypes
<1>3. ASSUME NEW p \in Pages, side'[p].open PROVE Shows(p)'
  BY <1>1, <1>3 DEF left, Folded, Shows
<1>4. \A b \in calls' : CallTyped(b)
  <2> SUFFICES ASSUME NEW b \in calls' PROVE CallTyped(b)
    OBVIOUS
  <2>1. PICK c \in calls : OrphanOf(b, c, left)
    BY <1>1, OrphanedAre DEF TInv
  <2> QED
    BY <2>1, CallTypes DEF OrphanOf, TInv, CallTyped, Call
<1>5. RepliesFit'
  BY <1>1, PendingOrphans, RepliesStillFit, PendingIsFinite,
     CommentBoundsAreNumbers DEF TInv, CTypes
<1> QED
  BY <1>1, <1>2, <1>3, <1>4, <1>5, OrphanedAre DEF TInv, CTypes

LEMMA CTypesOpen ==
  ASSUME TInv, NEW p \in Pages, OpenSidebar(p) PROVE CTypes'
<1>1. /\ calls' = calls \cup {NewCall(p, "fetch", 0)}
      /\ opens' \in 0..MaxOpens /\ Shows(p)
      /\ UNCHANGED <<tab, db, relays, complete, posts, touches>>
  BY CommentBoundsAreNumbers DEF OpenSidebar, presenceVars, TInv, CTypes, Shows
<1>2. side' \in [Pages -> Sidebar]
      /\ \A q \in Pages : side'[q].open => Shows(q)'
  <2> DEFINE o == UnderWay(p, tab[p].doc) \/ tab[p].on # current[p]
             s == \A c \in calls : c.kind \notin {"reply", "resolve"}
  <2>1. side' = [side EXCEPT ![p] = [open |-> TRUE, list |-> <<>>,
                                     overtaken |-> o, sole |-> s]]
    BY DEF OpenSidebar
  <2>2. o \in BOOLEAN /\ s \in BOOLEAN
    BY DEF UnderWay
  <2> HIDE DEF o, s
  <2> QED
    BY <1>1, <2>1, <2>2 DEF TInv, CTypes, Sidebar, Shows
<1>3. CallTyped(NewCall(p, "fetch", 0)) /\ NewCall(p, "fetch", 0).kind = "fetch"
  BY <1>1, NewCallTypes, CommentBoundsAreNumbers
<1>4. IsFiniteSet(calls') /\ \A c \in calls' : CallTyped(c)
  BY <1>1, <1>3, FS_AddElement DEF TInv, CTypes
<1>5. Pending' \subseteq Pending
  BY <1>1, <1>3 DEF Pending
<1>6. RepliesFit'
  BY <1>1, <1>5, PendingShrinks, RepliesStillFit, PendingIsFinite,
     CommentBoundsAreNumbers DEF TInv, CTypes
<1> QED
  BY <1>1, <1>2, <1>4, <1>6 DEF TInv, CTypes

LEMMA CTypesClose ==
  ASSUME TInv, NEW p \in Pages, CloseSidebar(p) PROVE CTypes'
<1>1. /\ side' = [side EXCEPT ![p] = Folded] /\ calls' = Orphaned({p})
      /\ UNCHANGED <<tab, db, relays, complete, opens, posts, touches>>
  BY DEF CloseSidebar, presenceVars, commentCounts
<1>2. side' \in [Pages -> Sidebar]
      /\ \A q \in Pages : side'[q].open => Shows(q)'
  BY <1>1, FoldedTypes DEF TInv, CTypes, Shows, Folded
<1>4. \A b \in calls' : CallTyped(b)
  <2> SUFFICES ASSUME NEW b \in calls' PROVE CallTyped(b)
    OBVIOUS
  <2>1. PICK c \in calls : OrphanOf(b, c, {p})
    BY <1>1, OrphanedAre DEF TInv
  <2> QED
    BY <2>1, CallTypes DEF OrphanOf, TInv, CallTyped, Call
<1>5. RepliesFit'
  BY <1>1, PendingOrphans, RepliesStillFit, PendingIsFinite,
     CommentBoundsAreNumbers DEF TInv, CTypes
<1> QED
  BY <1>1, <1>2, <1>4, <1>5, OrphanedAre DEF TInv, CTypes

LEMMA CTypesPost ==
  ASSUME TInv, NEW p \in Pages, Post(p) PROVE CTypes'
<1> DEFINE c == NewCall(p, "post", posts')
           late(q) == Waits(q, {"fetch"}) # {} /\ tab[q].doc = tab[p].doc
<1>1. /\ calls' = calls \cup {c} /\ side[p].open
      /\ posts' = posts + 1 /\ posts' \in 1..MaxPosts
      /\ side' = [q \in Pages |-> IF late(q)
                    THEN [side[q] EXCEPT !.overtaken = TRUE] ELSE side[q]]
      /\ UNCHANGED <<tab, db, relays, complete, opens, touches>>
  BY CommentBoundsAreNumbers DEF Post, presenceVars, TInv, CTypes
<1>2. Shows(p)
  BY <1>1 DEF TInv, CTypes
<1> HIDE DEF late
<1>3. side' \in [Pages -> Sidebar]
      /\ \A q \in Pages : side'[q].open => Shows(q)'
  <2> SUFFICES ASSUME NEW q \in Pages
               PROVE side'[q] \in Sidebar /\ side'[q].open = side[q].open
    BY <1>1 DEF TInv, CTypes, Shows
  <2>1. side[q] \in Sidebar
    BY DEF TInv, CTypes
  <2> QED
    BY <1>1, <2>1 DEF Sidebar
<1>4. CallTyped(c) /\ c.kind = "post"
  BY <1>1, <1>2, NewCallTypes, CommentBoundsAreNumbers
<1> HIDE DEF c
<1>5. IsFiniteSet(calls') /\ \A b \in calls' : CallTyped(b)
  BY <1>1, <1>4, FS_AddElement DEF TInv, CTypes
<1>6. Pending' \subseteq Pending
  BY <1>1, <1>4 DEF Pending
<1>7. RepliesFit'
  BY <1>1, <1>6, PendingShrinks, RepliesStillFit, PendingIsFinite,
     CommentBoundsAreNumbers DEF TInv, CTypes
<1> QED
  BY <1>1, <1>3, <1>5, <1>7, CommentBoundsAreNumbers DEF TInv, CTypes

LEMMA CTypesTouch ==
  ASSUME TInv, NEW p \in Pages, NEW kind \in {"reply", "resolve"},
         NEW x \in ToSet(side[p].list), Touch(p, kind, x)
  PROVE CTypes'
<1> DEFINE c == NewCall(p, kind, x.id)
           other(q) == q # p \/ Waits(p, {"fetch", "reply", "resolve"}) # {}
<1>1. /\ calls' = calls \cup {c} /\ side[p].open
      /\ touches' = touches + 1 /\ touches' \in 0..MaxTouches
      /\ side' = [q \in Pages |-> IF other(q)
                    THEN [side[q] EXCEPT !.sole = FALSE] ELSE side[q]]
      /\ UNCHANGED <<tab, db, relays, complete, opens, posts>>
  BY CommentBoundsAreNumbers DEF Touch, presenceVars, TInv, CTypes
<1>2. Shows(p) /\ x.id \in 1..MaxPosts /\ x.id \in 0..MaxPosts
  <2>1. x \in Comment
    BY SideTypes DEF TInv, ToSet
  <2> QED
    BY <1>1, <2>1, CommentBoundsAreNumbers DEF TInv, CTypes, Comment
<1> HIDE DEF other
<1>3. side' \in [Pages -> Sidebar]
      /\ \A q \in Pages : side'[q].open => Shows(q)'
  <2> SUFFICES ASSUME NEW q \in Pages
               PROVE side'[q] \in Sidebar /\ side'[q].open = side[q].open
    BY <1>1 DEF TInv, CTypes, Shows
  <2>1. side[q] \in Sidebar
    BY DEF TInv, CTypes
  <2> QED
    BY <1>1, <2>1 DEF Sidebar
<1>4. CallTyped(c)
  BY <1>1, <1>2, NewCallTypes
<1> HIDE DEF c
<1>5. IsFiniteSet(calls') /\ \A b \in calls' : CallTyped(b)
  BY <1>1, <1>4, FS_AddElement DEF TInv, CTypes
<1>6. Cardinality(Pending') \in Nat
      /\ Cardinality(Pending') <= Cardinality(Pending) + 1
  <2>1. IsFiniteSet(Pending) /\ Cardinality(Pending) \in Nat
    BY PendingIsFinite DEF TInv
  <2>2. Pending' = Pending \/ Pending' = Pending \cup {c}
    BY <1>1 DEF Pending
  <2>3. Cardinality(Pending \cup {c}) =
          IF c \in Pending THEN Cardinality(Pending)
          ELSE Cardinality(Pending) + 1
    BY <2>1, FS_AddElement
  <2> HIDE DEF Pending
  <2>4. CASE Pending' = Pending
    BY <2>1, <2>4
  <2>5. CASE Pending' = Pending \cup {c}
    BY <2>1, <2>3, <2>5
  <2> QED
    BY <2>2, <2>4, <2>5
<1>7. RepliesFit'
  BY <1>1, <1>6, RepliesStillFit, PendingIsFinite, CommentBoundsAreNumbers
  DEF TInv, CTypes
<1> QED
  BY <1>1, <1>3, <1>5, <1>7 DEF TInv, CTypes

\* A request ends, or goes on without being a reply that waits.
LEMMA CTypesCalls ==
  ASSUME TInv, NEW c \in calls, NEW new, IsFiniteSet(new),
         calls' = (calls \ {c}) \cup new,
         \A b \in new : CallTyped(b) /\ b.pc # "sent",
         side' \in [Pages -> Sidebar], relays' \subseteq Relayed,
         \A p \in Pages : side'[p].open = side[p].open,
         complete' \in BOOLEAN, UNCHANGED <<tab, db, commentCounts>>
  PROVE CTypes'
<1>1. IsFiniteSet(calls \ {c}) /\ IsFiniteSet(calls')
  BY FS_RemoveElement, FS_Union DEF TInv, CTypes
<1>2. Pending' \subseteq Pending
  BY DEF Pending
<1>3. UNCHANGED <<db, opens, posts, touches>>
  BY DEF commentCounts
<1>4. RepliesFit'
  BY <1>2, <1>3, PendingShrinks, RepliesStillFit, PendingIsFinite,
     CommentBoundsAreNumbers DEF TInv, CTypes
<1> QED
  BY <1>1, <1>3, <1>4 DEF TInv, CTypes, Shows

\* The other pages and lists are as they were.
LEMMA CTypesList ==
  ASSUME TInv, NEW p \in Pages, NEW s \in Seq(Comment)
  PROVE /\ [side EXCEPT ![p].list = s] \in [Pages -> Sidebar]
        /\ \A q \in Pages :
             [side EXCEPT ![p].list = s][q].open = side[q].open
  BY DEF TInv, CTypes, Sidebar

LEMMA CTypesReceive ==
  ASSUME TInv, NEW p \in Pages, ReceiveComment(p) PROVE CTypes'
<1>1. /\ side' = IF ~side[p].open THEN side
                 ELSE [side EXCEPT ![p].list = <<Head(wire[p]).comment>> \o @]
      /\ UNCHANGED <<tab, db, calls, relays, complete, opens, posts, touches>>
      /\ wire[p] # <<>> /\ Head(wire[p]).is = "comment"
  BY DEF ReceiveComment, NextEvent, commentCounts
<1>2. Head(wire[p]).comment \in Comment
  <2>1. Head(wire[p]) \in Alpha
    BY <1>1 DEF TInv, PInv, PTypes
  <2> QED
    BY <1>1, <2>1 DEF Alpha, Events, Answers, CommentEvents
<1>3. /\ side' \in [Pages -> Sidebar]
      /\ \A q \in Pages : side'[q].open = side[q].open
  <2>1. <<Head(wire[p]).comment>> \o side[p].list \in Seq(Comment)
    BY <1>2, SideTypes DEF TInv
  <2>2. CASE side[p].open
    <3>1. PICK s : s = <<Head(wire[p]).comment>> \o side[p].list
      OBVIOUS
    <3>2. side' = [side EXCEPT ![p].list = s]
      BY <1>1, <2>2, <3>1
    <3>3. s \in Seq(Comment)
      BY <2>1, <3>1
    <3>4. /\ [side EXCEPT ![p].list = s] \in [Pages -> Sidebar]
          /\ \A q \in Pages :
               [side EXCEPT ![p].list = s][q].open = side[q].open
      BY <3>3, CTypesList
    <3> QED
      BY <3>2, <3>4
  <2>3. CASE ~side[p].open
    BY <1>1, <2>3 DEF TInv, CTypes
  <2> QED
    BY <2>2, <2>3
<1>4. RepliesFit'
  BY <1>1 DEF TInv, CTypes, RepliesFit, Pending
<1> QED
  BY <1>1, <1>3, <1>4 DEF TInv, CTypes, Shows

LEMMA CTypesFails ==
  ASSUME TInv, NEW c \in calls, CallFails(c) \/ Refused(c) PROVE CTypes'
<1>1. c = [page |-> c.page, doc |-> c.doc, kind |-> c.kind, id |-> c.id,
           pc |-> c.pc, data |-> c.data, mine |-> c.mine] /\ CallTyped(c)
      /\ c.page \in Pages /\ c.mine \in BOOLEAN
  BY CallTypes DEF TInv, CTypes
<1>2. CASE CallFails(c)
  <2> DEFINE b == [page |-> c.page, doc |-> c.doc, kind |-> c.kind,
                   id |-> c.id, pc |-> "failed", data |-> c.data,
                   mine |-> c.mine]
  <2>1. [c EXCEPT !.pc = "failed"] = b
    BY <1>1
  <2>2. CallTyped(b) /\ b.pc # "sent"
    BY <1>1 DEF CallTyped, Call
  <2>3. calls' = (calls \ {c}) \cup {b} /\ complete' \in BOOLEAN
        /\ UNCHANGED <<tab, db, side, relays, commentCounts>>
    BY <1>2, <2>1 DEF CallFails
  <2> HIDE DEF b
  <2>4. side' \in [Pages -> Sidebar] /\ relays' \subseteq Relayed
    BY <2>3 DEF TInv, CTypes
  <2> QED
    BY <2>2, <2>3, <2>4, FS_Singleton, CTypesCalls
<1>3. CASE Refused(c)
  <2>1. calls' = (calls \ {c}) \cup {}
        /\ UNCHANGED <<tab, db, relays, complete, commentCounts>>
    BY <1>3 DEF Refused, presenceVars
  <2>2. side' \in [Pages -> Sidebar]
        /\ \A p \in Pages : side'[p].open = side[p].open
    <3>1. CASE c.mine
      <4> DEFINE p == c.page
      <4>1. side[p] \in Sidebar /\ side \in [Pages -> Sidebar]
        BY <1>1 DEF TInv, CTypes
      <4>2. PICK o : o = (side[p].overtaken \/ c.kind = "fetch")
        OBVIOUS
      <4>3. side' = [side EXCEPT ![p].overtaken = o, ![p].sole = FALSE]
        BY <1>3, <3>1, <4>2 DEF Refused
      <4>4. o \in BOOLEAN
        BY <4>1, <4>2
      <4> QED
        BY <4>1, <4>3, <4>4, <1>1 DEF Sidebar
    <3>2. CASE ~c.mine
      BY <1>3, <3>2 DEF Refused, TInv, CTypes
    <3> QED
      BY <3>1, <3>2
  <2>3. relays' \subseteq Relayed /\ complete' \in BOOLEAN
    BY <2>1 DEF TInv, CTypes
  <2> QED
    BY <2>1, <2>2, <2>3, FS_EmptySet, CTypesCalls
<1> QED
  BY <1>2, <1>3

LEMMA CTypesAnswered ==
  ASSUME TInv, NEW c \in calls, Answered(c) PROVE CTypes'
<1>1. /\ c.pc = "served" /\ c.page \in Pages /\ c.data \in Seq(Comment)
      /\ c.kind # "fetch" => Len(c.data) = 1 /\ c.data[1] \in Comment
      /\ c.kind \in {"fetch", "post", "reply", "resolve"}
  BY CallTypes DEF TInv, Answered
<1>2. /\ calls' = (calls \ {c}) \cup {}
      /\ UNCHANGED <<tab, current, db, complete, commentCounts>>
  BY DEF Answered, presenceVars
<1>3. side' \in [Pages -> Sidebar]
      /\ \A q \in Pages : side'[q].open = side[q].open
  <2> DEFINE s == Shown(side[c.page].list, c)
  <2>1. s \in Seq(Comment)
    <3>1. side[c.page].list \in Seq(Comment)
      BY <1>1, SideTypes DEF TInv
    <3> QED
      BY <1>1, <3>1, UpdateTypes DEF Shown
  <2>2. side' = side \/ side' = [side EXCEPT ![c.page].list = s]
    BY DEF Answered
  <2> HIDE DEF s
  <2>3. CASE side' = side
    BY <2>3 DEF TInv, CTypes
  <2>4. CASE side' = [side EXCEPT ![c.page].list = s]
    BY <1>1, <2>1, <2>4, CTypesList
  <2> QED
    BY <2>2, <2>3, <2>4
<1>4. relays' \subseteq Relayed
  <2>1. Conn(c.page) \in Conns
    BY <1>1, TabTypes DEF TInv, PInv
  <2> QED
    BY <1>1, <2>1 DEF Answered, TInv, CTypes, Relayed
<1>5. complete' \in BOOLEAN
  BY <1>2 DEF TInv, CTypes
<1> QED
  BY <1>2, <1>3, <1>4, <1>5, FS_EmptySet, CTypesCalls

LEMMA CTypesRelay ==
  ASSUME TInv, NEW r \in relays, Relay(r) PROVE CTypes'
<1>1. /\ relays' \subseteq relays /\ complete' \in BOOLEAN
      /\ UNCHANGED <<tab, db, side, calls, opens, posts, touches>>
  BY DEF Relay, commentCounts, TInv, CTypes
<1>2. RepliesFit'
  BY <1>1 DEF TInv, CTypes, RepliesFit, Pending
<1> QED
  BY <1>1, <1>2 DEF TInv, CTypes, Shows

LEMMA TouchedTypes ==
  ASSUME NEW x \in Comment, NEW kind \in {"reply", "resolve"},
         kind = "reply" => x.replies < MaxTouches
  PROVE /\ Touched(x, kind) \in Comment
        /\ Touched(x, kind).id = x.id /\ Touched(x, kind).doc = x.doc
        /\ Touched(x, kind).replies =
             IF kind = "reply" THEN x.replies + 1 ELSE x.replies
<1>1. CASE kind = "reply"
  BY <1>1, CommentBoundsAreNumbers DEF Touched, Comment
<1>2. CASE kind # "reply"
  BY <1>2 DEF Touched, Comment
<1> QED
  BY <1>1, <1>2

\* A fetch answers a beginning of the comments, as long as the limit allows.
LEMMA NewestAre ==
  ASSUME NEW s \in Seq(Comment)
  PROVE /\ Newest(s) \in Seq(Comment) /\ DOMAIN Newest(s) \subseteq DOMAIN s
        /\ \A i \in DOMAIN Newest(s) : Newest(s)[i] = s[i]
        /\ \A i \in DOMAIN s : i <= Limit <=> i \in DOMAIN Newest(s)
<1>1. PICK k : k = IF Len(s) < Limit THEN Len(s) ELSE Limit
  OBVIOUS
<1>2. /\ k \in 0..Len(s) /\ Len(s) \in Nat
      /\ \A i \in 1..Len(s) : i <= Limit <=> i <= k
  BY <1>1, LimitIsPositive
<1>3. Newest(s) = SubSeq(s, 1, k)
  BY <1>1 DEF Newest
<1> QED
  BY <1>2, <1>3

\* What the database does and answers to the request c.
MadeBy(c) == [id |-> c.id, doc |-> c.doc, replies |-> 0, resolved |-> FALSE]
Answer(c, pc, data) ==
  [page |-> c.page, doc |-> c.doc, kind |-> c.kind, id |-> c.id, pc |-> pc,
   data |-> data, mine |-> c.mine]
Became(c, b) ==
  calls' = (calls \ {c}) \cup {x \in {b} : x.mine \/ x.kind = "post"}

LEMMA ServeCases ==
  ASSUME TInv, NEW c \in calls, Serve(c)
  PROVE /\ c.pc = "sent"
        /\ \/ /\ c.kind = "fetch" /\ db' = db
              /\ Became(c, Answer(c, "served", Fetched(c.doc)))
           \/ /\ c.kind = "post"
              /\ db' = [db EXCEPT ![c.doc] = <<MadeBy(c)>> \o db[c.doc]]
              /\ Became(c, Answer(c, "served", <<MadeBy(c)>>))
           \/ /\ IsTouch(c)
              /\ \E k \in DOMAIN db[c.doc] :
                   /\ db[c.doc][k].id = c.id
                   /\ db' = [db EXCEPT ![c.doc] =
                        Update(db[c.doc], c.id, Touched(db[c.doc][k], c.kind))]
                   /\ Became(c, Answer(c, "served",
                                  <<Touched(db[c.doc][k], c.kind)>>))
           \/ /\ IsTouch(c) /\ ~Made(c.doc, c.id) /\ db' = db
              /\ calls' = (calls \ {c}) \cup {Answer(c, "failed", c.data)}
        /\ UNCHANGED <<presenceVars, side, relays, complete, commentCounts>>
<1>1. c = Answer(c, c.pc, c.data) /\ c.mine \in BOOLEAN
  BY CallTypes DEF TInv, Answer
<1>2. \A data : [c EXCEPT !.pc = "served", !.data = data] =
                  Answer(c, "served", data)
  <2> SUFFICES ASSUME NEW data
               PROVE [c EXCEPT !.pc = "served", !.data = data] =
                       Answer(c, "served", data)
    OBVIOUS
  <2>1. [c EXCEPT !.pc = "served"] = Answer(c, "served", c.data)
    BY <1>1 DEF Answer
  <2>2. [Answer(c, "served", c.data) EXCEPT !.data = data] =
          Answer(c, "served", data)
    BY DEF Answer
  <2>3. [c EXCEPT !.pc = "served", !.data = data] =
          [[c EXCEPT !.pc = "served"] EXCEPT !.data = data]
    BY <1>1 DEF Answer
  <2> QED
    BY <2>1, <2>2, <2>3
<1>3. [c EXCEPT !.pc = "failed"] = Answer(c, "failed", c.data)
  BY <1>1 DEF Answer
<1>4. ASSUME NEW x \in Found(c)
      PROVE \E k \in DOMAIN db[c.doc] :
              x = db[c.doc][k] /\ db[c.doc][k].id = c.id
  BY <1>4 DEF Found, ToSet
<1>5. Found(c) = {} => ~Made(c.doc, c.id)
  BY DEF Found, ToSet, Made
<1> HIDE DEF Found, Answer
<1>6. CASE c.kind = "fetch"
  BY <1>2, <1>6 DEF Serve, Became, IsTouch
<1>7. CASE c.kind = "post"
  BY <1>2, <1>7 DEF Serve, Became, MadeBy
<1>8. CASE IsTouch(c)
  <2>1. CASE Found(c) = {}
    BY <1>3, <1>5, <1>8, <2>1 DEF Serve, IsTouch
  <2>2. CASE Found(c) # {}
    <3>1. PICK x \in Found(c) :
            /\ db' = [db EXCEPT ![c.doc] =
                        Update(db[c.doc], c.id, Touched(x, c.kind))]
            /\ Became(c, Answer(c, "served", <<Touched(x, c.kind)>>))
      BY <1>2, <1>8, <2>2 DEF Serve, IsTouch, Became, AnswerAfter
    <3>2. PICK k \in DOMAIN db[c.doc] : x = db[c.doc][k] /\ x.id = c.id
      BY <1>4
    <3> QED
      BY <1>8, <3>1, <3>2 DEF Serve
  <2> QED
    BY <2>1, <2>2
<1>9. c.kind \in {"fetch", "post"} \/ IsTouch(c)
  BY CallTypes DEF TInv, IsTouch
<1> QED
  BY <1>6, <1>7, <1>8, <1>9

LEMMA AnswerTypes ==
  ASSUME TInv, NEW c \in calls, NEW pc \in {"served", "failed"},
         NEW data \in Seq(Comment),
         pc = "served" /\ c.kind # "fetch" => Len(data) = 1
  PROVE CallTyped(Answer(c, pc, data)) /\ Answer(c, pc, data).pc # "sent"
  BY CallTypes DEF TInv, Answer, CallTyped, Call

LEMMA CTypesServe ==
  ASSUME TInv, NEW c \in calls, Serve(c) PROVE CTypes'
<1>1. /\ c \in calls /\ c.doc \in Docs /\ c.page \in Pages
      /\ db[c.doc] \in Seq(Comment) /\ c.data \in Seq(Comment)
      /\ c.kind # "fetch" => c.id \in 1..MaxPosts
  BY CallTypes, DbTypes DEF TInv
<1>2. /\ c.pc = "sent"
      /\ UNCHANGED <<tab, side, relays, complete, opens, posts, touches>>
  BY ServeCases DEF presenceVars, commentCounts
<1>3. /\ db \in [Docs -> Seq(Comment)] /\ touches \in 0..MaxTouches
      /\ Cardinality(Pending) \in Nat /\ IsFiniteSet(Pending)
      /\ RepliesFit /\ MaxTouches \in Nat
  BY PendingIsFinite, CommentBoundsAreNumbers DEF TInv, CTypes
<1>4. ASSUME NEW b, Became(c, b), CallTyped(b), b.pc # "sent"
      PROVE /\ IsFiniteSet(calls') /\ \A a \in calls' : CallTyped(a)
            /\ Pending' \subseteq Pending \ {c}
  <2>1. {x \in {b} : x.mine \/ x.kind = "post"} = {}
        \/ {x \in {b} : x.mine \/ x.kind = "post"} = {b}
    OBVIOUS
  <2>2. IsFiniteSet({x \in {b} : x.mine \/ x.kind = "post"})
    BY <2>1, FS_EmptySet, FS_Singleton
  <2>3. IsFiniteSet(calls \ {c})
    BY FS_RemoveElement DEF TInv, CTypes
  <2> QED
    BY <1>4, <2>2, <2>3, FS_Union DEF Became, Pending, TInv, CTypes
<1>5. ASSUME db' \in [Docs -> Seq(Comment)], RepliesFit',
             IsFiniteSet(calls'), \A a \in calls' : CallTyped(a)
      PROVE CTypes'
  BY <1>2, <1>5 DEF TInv, CTypes, Shows
<1>6. ASSUME Pending' \subseteq Pending
      PROVE Cardinality(Pending') \in Nat
            /\ Cardinality(Pending') <= Cardinality(Pending)
  BY <1>6, PendingShrinks DEF TInv
<1>7. CASE /\ c.kind = "fetch" /\ db' = db
           /\ Became(c, Answer(c, "served", Fetched(c.doc)))
  <2>1. /\ CallTyped(Answer(c, "served", Fetched(c.doc)))
        /\ Answer(c, "served", Fetched(c.doc)).pc # "sent"
    <3>1. Fetched(c.doc) \in Seq(Comment)
      BY <1>1, NewestAre DEF Fetched
    <3> QED
      BY <1>1, <1>7, <3>1, AnswerTypes
  <2>2. RepliesFit'
    BY <1>2, <1>3, <1>4, <1>6, <1>7, <2>1, RepliesStillFit DEF TInv
  <2> QED
    BY <1>3, <1>4, <1>5, <1>7, <2>1, <2>2
<1>8. CASE /\ c.kind = "post"
           /\ db' = [db EXCEPT ![c.doc] = <<MadeBy(c)>> \o db[c.doc]]
           /\ Became(c, Answer(c, "served", <<MadeBy(c)>>))
  <2>1. MadeBy(c) \in Comment /\ MadeBy(c).replies = 0
    BY <1>1, <1>3, <1>8 DEF MadeBy, Comment
  <2>2. /\ CallTyped(Answer(c, "served", <<MadeBy(c)>>))
        /\ Answer(c, "served", <<MadeBy(c)>>).pc # "sent"
    <3>1. <<MadeBy(c)>> \in Seq(Comment) /\ Len(<<MadeBy(c)>>) = 1
      BY <2>1
    <3> QED
      BY <1>1, <3>1, AnswerTypes
  <2> HIDE DEF MadeBy, Answer
  <2>3. db' \in [Docs -> Seq(Comment)]
    BY <1>1, <1>3, <1>8, <2>1
  <2>4. RepliesFit'
    <3>1. Cardinality(Pending') \in Nat
          /\ Cardinality(Pending') <= Cardinality(Pending)
      BY <1>4, <1>6, <1>8, <2>2
    <3>2. ASSUME NEW d \in Docs, NEW i \in DOMAIN db'[d]
          PROVE db'[d][i].replies + Cardinality(Pending') <= touches
      <4>1. \/ db'[d][i].replies = 0
            \/ \E k \in DOMAIN db[d] : db'[d][i] = db[d][k]
        <5>1. CASE d = c.doc
          <6>1. PICK s : s = db[d]
            OBVIOUS
          <6>2. s \in Seq(Comment) /\ db'[d] = <<MadeBy(c)>> \o s
            BY <1>1, <1>3, <1>8, <5>1, <6>1
          <6>3. \/ i = 1
                \/ i - 1 \in DOMAIN s /\ (<<MadeBy(c)>> \o s)[i] = s[i - 1]
            BY <2>1, <6>2
          <6>4. (<<MadeBy(c)>> \o s)[1] = MadeBy(c)
            BY <2>1, <6>2
          <6> QED
            BY <2>1, <6>1, <6>2, <6>3, <6>4
        <5>2. CASE d # c.doc
          BY <1>3, <1>8, <5>2
        <5> QED
          BY <5>1, <5>2
      <4>2. ASSUME NEW k \in DOMAIN db[d]
            PROVE db[d][k].replies \in Nat
                  /\ db[d][k].replies + Cardinality(Pending) <= touches
        BY <1>3, DbTypes DEF RepliesFit, TInv
      <4>3. Cardinality(Pending) <= touches
        BY <1>3 DEF RepliesFit
      <4> QED
        BY <1>3, <3>1, <4>1, <4>2, <4>3
    <3>3. Cardinality(Pending') <= touches
      BY <1>3, <3>1 DEF RepliesFit
    <3> QED
      BY <1>2, <3>2, <3>3 DEF RepliesFit
  <2> QED
    BY <1>4, <1>5, <1>8, <2>2, <2>3, <2>4
<1>9. ASSUME IsTouch(c), NEW k \in DOMAIN db[c.doc], db[c.doc][k].id = c.id,
             db' = [db EXCEPT ![c.doc] =
                      Update(db[c.doc], c.id, Touched(db[c.doc][k], c.kind))],
             Became(c, Answer(c, "served", <<Touched(db[c.doc][k], c.kind)>>))
      PROVE CTypes'
  <2>1. PICK x, y, s : /\ x = db[c.doc][k] /\ y = Touched(x, c.kind)
                       /\ s = Update(db[c.doc], c.id, y)
    OBVIOUS
  <2>2. /\ x \in Comment /\ x.replies \in Nat
        /\ x.replies + Cardinality(Pending) <= touches
    BY <1>1, <1>3, <2>1, DbTypes DEF RepliesFit, TInv
  <2>3. /\ IsFiniteSet(Pending \ {c})
        /\ Cardinality(Pending \ {c}) =
             IF c.kind = "reply" THEN Cardinality(Pending) - 1
             ELSE Cardinality(Pending)
    <3>1. c \in Pending <=> c.kind = "reply"
      BY <1>2 DEF Pending
    <3> QED
      BY <1>3, <3>1, FS_RemoveElement
  <2>4. Cardinality(Pending \ {c}) \in Nat
    BY <2>3, FS_CardinalityType
  <2>5. /\ y \in Comment
        /\ y.replies = IF c.kind = "reply" THEN x.replies + 1 ELSE x.replies
    <3>1. c.kind = "reply" => x.replies < MaxTouches
      BY <1>3, <2>2, <2>3, <2>4
    <3> QED
      BY <1>9, <2>1, <2>2, <3>1, TouchedTypes DEF IsTouch
  <2>6. CallTyped(Answer(c, "served", <<y>>))
        /\ Answer(c, "served", <<y>>).pc # "sent"
    <3>1. <<y>> \in Seq(Comment) /\ Len(<<y>>) = 1
      BY <2>5
    <3> QED
      BY <1>1, <3>1, AnswerTypes
  <2> HIDE DEF Answer
  <2>7. /\ s \in Seq(Comment) /\ DOMAIN s = DOMAIN db[c.doc]
        /\ \A i \in DOMAIN s :
             s[i] = IF db[c.doc][i].id = c.id THEN y ELSE db[c.doc][i]
    BY <1>1, <2>1, <2>5, UpdateTypes
  <2>8. db' = [db EXCEPT ![c.doc] = s] /\ db' \in [Docs -> Seq(Comment)]
    BY <1>1, <1>3, <1>9, <2>1, <2>7
  <2>9. RepliesFit'
    <3>1. Pending' \subseteq Pending \ {c}
      BY <1>4, <1>9, <2>1, <2>6
    <3>2. Cardinality(Pending') <= Cardinality(Pending \ {c})
          /\ Cardinality(Pending') \in Nat
      BY <2>3, <3>1, FS_Subset, FS_CardinalityType
    <3>3. ASSUME NEW d \in Docs, NEW i \in DOMAIN db'[d]
          PROVE db'[d][i].replies + Cardinality(Pending') <= touches
      <4>1. \/ db'[d][i] = y
            \/ i \in DOMAIN db[d] /\ db'[d][i] = db[d][i]
        BY <1>1, <1>3, <2>7, <2>8
      <4>2. ASSUME i \in DOMAIN db[d]
            PROVE db[d][i].replies \in Nat
                  /\ db[d][i].replies + Cardinality(Pending) <= touches
        BY <1>3, <4>2, DbTypes DEF RepliesFit, TInv
      <4> HIDE DEF Pending
      <4> QED
        BY <1>3, <2>2, <2>3, <2>4, <2>5, <3>2, <4>1, <4>2
    <3>4. Cardinality(Pending') <= touches
      BY <1>3, <2>3, <2>4, <3>2 DEF RepliesFit
    <3> QED
      BY <1>2, <3>3, <3>4 DEF RepliesFit
  <2> QED
    BY <1>4, <1>5, <1>9, <2>1, <2>6, <2>8, <2>9
<1>10. CASE /\ IsTouch(c) /\ ~Made(c.doc, c.id) /\ db' = db
            /\ calls' = (calls \ {c}) \cup {Answer(c, "failed", c.data)}
  <2>1. /\ CallTyped(Answer(c, "failed", c.data))
        /\ Answer(c, "failed", c.data).pc # "sent"
    BY <1>1, AnswerTypes
  <2> HIDE DEF Answer
  <2>2. side' \in [Pages -> Sidebar] /\ relays' \subseteq Relayed
        /\ complete' \in BOOLEAN
    BY <1>2 DEF TInv, CTypes
  <2>3. PICK b : b = Answer(c, "failed", c.data)
    OBVIOUS
  <2>4. UNCHANGED <<tab, db, commentCounts>>
    BY <1>2, <1>10 DEF commentCounts
  <2>5. \A p \in Pages : side'[p].open = side[p].open
    BY <1>2
  <2>6. PICK new : new = {b}
    OBVIOUS
  <2>7. /\ IsFiniteSet(new) /\ calls' = (calls \ {c}) \cup new
        /\ \A a \in new : CallTyped(a) /\ a.pc # "sent"
    BY <1>10, <2>1, <2>3, <2>6, FS_Singleton
  <2> QED
    BY <2>2, <2>4, <2>5, <2>7, CTypesCalls
<1> QED
  BY <1>7, <1>8, <1>9, <1>10, ServeCases

LEMMA TInvNext ==
  ASSUME TInv, [Next]_vars PROVE TInv'
<1>1. CASE UNCHANGED vars
  <2>1. UNCHANGED <<db, side, calls, relays, complete, opens, posts, touches>>
        /\ UNCHANGED presenceVars /\ UNCHANGED tab
    BY <1>1 DEF vars, commentCounts, presenceVars
  <2>2. CTypes'
    BY <2>1 DEF TInv, CTypes, RepliesFit, Pending, Shows
  <2> QED
    BY <2>1, <2>2, PInvIdle DEF TInv
<1>2. CASE Next
  <2>1. PInv(Alpha)'
    BY <1>2, PInvKept
  <2>2. CTypes'
    BY <1>2, CTypesPresence, CTypesOpen, CTypesClose, CTypesPost, CTypesTouch,
       CTypesReceive, CTypesServe, CTypesFails, CTypesAnswered, CTypesRelay
    DEF Next
  <2> QED
    BY <2>1, <2>2 DEF TInv
<1> QED
  BY <1>1, <1>2

LEMMA TypesInvariant == Spec => []TInv
  BY TInitHolds, TInvNext, PTL DEF Spec

\* The states, the requests and the events are of their kinds, and no comment
\* has more replies than requests were made.
THEOREM CommentTypesCorrect == Spec => []TypeOK
<1>1. TInv => TypeOK
  <2> SUFFICES ASSUME TInv PROVE TypeOK
    OBVIOUS
  <2>1. ASSUME NEW p \in Pages, NEW i \in DOMAIN wire[p]
        PROVE wire[p][i] \in Events \cup Answers \cup
                [is : {"comment"}, doc : Docs, comment : Comment]
    BY DEF TInv, PInv, PTypes, Alpha, CommentEvents
  <2>2. PresenceTypeOK
    BY DEF TInv, PInv, PTypes
  <2> QED
    BY <2>1, <2>2 DEF TInv, CTypes, CallTyped, Relayed, Sidebar, TypeOK
<1> QED
  BY <1>1, TypesInvariant, PTL

\* Whoever a page shows is in the server's list of the clients of its
\* document: a connection in its room, or one that ended as it was coming in.
THEOREM OnlyClientsAreAlwaysShown == Spec => []OnlyClientsAreShown
<1>1. TInv => OnlyClientsAreShown
  BY ListenersKnow DEF TInv
<1> QED
  BY <1>1, TypesInvariant, PTL

\* Whoever came to a document after a page did, and is still there, is shown
\* by the page.
THEOREM NewcomersAreAlwaysShown == Spec => []NewcomersAreShown
<1>1. TInv => NewcomersAreShown
  BY ListenersKnow DEF TInv
<1> QED
  BY <1>1, TypesInvariant, PTL

-----------------------------------------------------------------------------
(* What a step does to the comments on a wire.                             *)

\* None is added, none is put twice.
Embeds(p) ==
  \E k \in {0, 1} : \A i \in 1..Len(wire'[p]) : IsComment(wire'[p][i]) =>
    i + k \in 1..Len(wire[p]) /\ wire[p][i + k] = wire'[p][i]
\* None is lost.
Keeps(p) ==
  \A i \in 1..Len(wire[p]) : IsComment(wire[p][i]) =>
    \E j \in 1..Len(wire'[p]) : wire'[p][j] = wire[p][i]

LEMMA SameWire ==
  ASSUME TInv, NEW p \in Pages, wire'[p] = wire[p]
  PROVE Embeds(p) /\ Keeps(p)
<1>1. \A i \in 1..Len(wire[p]) : i + 0 = i
  BY TabTypes DEF TInv, PInv
<1> QED
  BY <1>1 DEF Embeds, Keeps

LEMMA AppendedWire ==
  ASSUME TInv, NEW p \in Pages, NEW e \in Alpha, ~IsComment(e),
         wire'[p] = Append(wire[p], e)
  PROVE Embeds(p) /\ Keeps(p)
<1>1. wire[p] \in Seq(Alpha)
  BY TabTypes DEF TInv, PInv
<1>2. PICK s : s = wire[p]
  OBVIOUS
<1>3. /\ \A i \in 1..Len(s) :
           /\ Append(s, e)[i] = s[i] /\ i \in 1..Len(Append(s, e))
           /\ i + 0 = i
      /\ \A i \in 1..Len(Append(s, e)) :
           \/ i \in 1..Len(s) /\ Append(s, e)[i] = s[i]
           \/ Append(s, e)[i] = e
  BY <1>1, <1>2
<1> QED
  BY <1>2, <1>3 DEF Embeds, Keeps

LEMMA JoinedWire ==
  ASSUME TInv, NEW p \in Pages, NEW t \in Seq(Alpha),
         \A i \in 1..Len(t) : ~IsComment(t[i]), wire'[p] = wire[p] \o t
  PROVE Embeds(p) /\ Keeps(p)
<1>1. PICK s : s = wire[p] /\ s \in Seq(Alpha)
  BY TabTypes DEF TInv, PInv
<1>2. /\ \A i \in 1..Len(s) :
           /\ (s \o t)[i] = s[i] /\ i \in 1..Len(s \o t)
           /\ i + 0 = i
      /\ \A i \in 1..Len(s \o t) :
           \/ i \in 1..Len(s) /\ (s \o t)[i] = s[i]
           \/ i - Len(s) \in 1..Len(t) /\ (s \o t)[i] = t[i - Len(s)]
  BY <1>1
<1> QED
  BY <1>1, <1>2 DEF Embeds, Keeps

LEMMA ReadWire ==
  ASSUME TInv, NEW p \in Pages, wire[p] # <<>>, wire'[p] = Tail(wire[p])
  PROVE Embeds(p) /\ (~IsComment(Head(wire[p])) => Keeps(p))
<1>1. PICK s : s = wire[p] /\ s \in Seq(Alpha)
  BY TabTypes DEF TInv, PInv
<1>2. /\ Head(s) = s[1]
      /\ \A i \in 1..Len(Tail(s)) :
           Tail(s)[i] = s[i + 1] /\ i + 1 \in 1..Len(s)
      /\ \A i \in 1..Len(s) :
           \/ i = 1
           \/ i - 1 \in 1..Len(Tail(s)) /\ Tail(s)[i - 1] = s[i]
  BY <1>1
<1>3. Embeds(p)
  BY <1>1, <1>2 DEF Embeds
<1>4. ASSUME ~IsComment(s[1]), NEW i \in 1..Len(s), IsComment(s[i])
      PROVE \E j \in 1..Len(Tail(s)) : Tail(s)[j] = s[i]
  <2>1. i # 1
    BY <1>4
  <2> QED
    BY <1>2, <2>1
<1>5. ~IsComment(Head(s)) => \A i \in 1..Len(s) : IsComment(s[i]) =>
        \E j \in 1..Len(Tail(s)) : Tail(s)[j] = s[i]
  <2>1. Head(s) = s[1]
    BY <1>2
  <2> QED
    BY <1>4, <2>1
<1>6. ~IsComment(Head(wire[p])) => Keeps(p)
  BY <1>1, <1>5 DEF Keeps
<1> QED
  BY <1>3, <1>6

\* All that the comments need to know of a step of the rooms.
PresenceEffect(p) ==
  /\ Embeds(p)
  /\ Shows(p) /\ Shows(p)' =>
       /\ tab'[p].doc = tab[p].doc
       /\ tab[p].on # None => tab'[p].on = tab[p].on
  /\ Shows(p) /\ tab[p].on # None /\ Connected(p)' =>
       Connected(p) /\ Conn(p)' = Conn(p) /\ Keeps(p)

LEMMA StillTab ==
  ASSUME TInv, NEW p \in Pages, tab'[p] = tab[p], current'[p] = current[p],
         Embeds(p), Keeps(p)
  PROVE PresenceEffect(p)
  BY DEF PresenceEffect, Shows, Connected, Conn

LEMMA PresenceEffects ==
  ASSUME TInv, PresenceNext, NEW p \in Pages PROVE PresenceEffect(p)
<1>1. /\ tab \in [Pages -> [at : {"away", "open"}, doc : Docs \cup {None},
            visit : 0..MaxVisits, on : (0..MaxFaults) \cup {None},
            roster : SUBSET Users]]
      /\ wire \in [Pages -> Seq(Alpha)]
      /\ current \in [Pages -> 0..MaxFaults]
  BY DEF TInv, PInv, PTypes, PresenceTypeOK
<1>2. ASSUME NEW q \in Pages, NEW d \in Docs, Visit(q, d)
      PROVE PresenceEffect(p)
  <2>1. wire'[p] = wire[p] /\ current'[p] = current[p]
    BY <1>2 DEF Visit
  <2>2. CASE p = q
    BY <1>1, <1>2, <2>1, <2>2, SameWire DEF PresenceEffect, Shows, Visit
  <2>3. CASE p # q
    BY <1>1, <1>2, <2>1, <2>3, SameWire, StillTab DEF Visit
  <2> QED
    BY <2>2, <2>3
<1>3. ASSUME NEW q \in Pages, Leave(q) PROVE PresenceEffect(p)
  <2>1. wire'[p] = wire[p] /\ current'[p] = current[p]
    BY <1>3 DEF Leave
  <2>2. CASE p = q
    <3>1. ~Shows(p)'
      BY <1>1, <1>3, <2>2 DEF Leave, Away, Shows
    <3> QED
      BY <2>1, <3>1, SameWire DEF PresenceEffect, Connected
  <2>3. CASE p # q
    BY <1>1, <1>3, <2>1, <2>3, SameWire, StillTab DEF Leave
  <2> QED
    BY <2>2, <2>3
<1>4. ASSUME NEW q \in Pages, Drop(q) PROVE PresenceEffect(p)
  <2>1. tab' = tab
    BY <1>4 DEF Drop
  <2>2. CASE p = q
    <3>1. wire'[p] = <<>> /\ current'[p] = current[p] + 1
      BY <1>1, <1>4, <2>2 DEF Drop
    <3>2. Embeds(p)
      BY <3>1 DEF Embeds
    <3>3. /\ tab[p].on # None => tab[p].on <= current[p] /\ tab[p].on \in Nat
          /\ current[p] \in Nat
      BY TabTypes DEF TInv, PInv, ConnectionsCount
    <3> QED
      BY <2>1, <3>1, <3>2, <3>3 DEF PresenceEffect, Shows, Connected
  <2>3. CASE p # q
    BY <1>1, <1>4, <2>1, <2>3, SameWire, StillTab DEF Drop
  <2> QED
    BY <2>2, <2>3
<1>5. ASSUME NEW q \in Pages, ReceiveAnswer(q) PROVE PresenceEffect(p)
  <2>1. current'[p] = current[p]
    BY <1>5 DEF ReceiveAnswer
  <2>2. CASE p = q
    <3>1. wire[p] # <<>> /\ wire'[p] = Tail(wire[p]) /\ IsAnswer(Head(wire[p]))
      BY <1>1, <1>5, <2>2 DEF ReceiveAnswer, NextEvent, IsAnswer
    <3>2. Embeds(p) /\ Keeps(p)
      BY <3>1, ReadWire DEF IsAnswer, IsComment
    <3>3. CASE /\ Head(wire[p]).is = "ok"
               /\ Head(wire[p]).visit = tab[p].visit /\ tab[p].at = "open"
      <4>1. tab[p].on = None
        <5>1. 1 \in 1..Len(wire[p]) /\ Head(wire[p]) = wire[p][1]
          BY <3>1, <1>1
        <5> QED
          BY <3>1, <3>3, <5>1
          DEF TInv, PInv, AnswersAreOfVisits, AnswerOK
      <4>2. tab'[p].doc = tab[p].doc
        BY <1>1, <1>5, <2>2, <3>3 DEF ReceiveAnswer
      <4> QED
        BY <3>2, <4>1, <4>2 DEF PresenceEffect
    <3>4. CASE ~(/\ Head(wire[p]).is = "ok"
                 /\ Head(wire[p]).visit = tab[p].visit /\ tab[p].at = "open")
      BY <1>5, <2>1, <2>2, <3>2, <3>4, StillTab DEF ReceiveAnswer
    <3> QED
      BY <3>3, <3>4
  <2>3. CASE p # q
    BY <1>1, <1>5, <2>1, <2>3, SameWire, StillTab DEF ReceiveAnswer
  <2> QED
    BY <2>2, <2>3
<1>6. ASSUME NEW q \in Pages, ReceivePresence(q) PROVE PresenceEffect(p)
  <2>1. current'[p] = current[p]
    BY <1>6 DEF ReceivePresence
  <2>2. CASE p = q
    <3>1. wire[p] # <<>> /\ wire'[p] = Tail(wire[p]) /\ IsEvent(Head(wire[p]))
      BY <1>1, <1>6, <2>2 DEF ReceivePresence, NextEvent, IsEvent
    <3>2. Embeds(p) /\ Keeps(p)
      BY <3>1, ReadWire DEF IsEvent, IsComment
    <3>3. /\ tab'[p].at = tab[p].at /\ tab'[p].doc = tab[p].doc
          /\ tab'[p].on = tab[p].on
      BY <1>1, <1>6, <2>2 DEF ReceivePresence
    <3> QED
      BY <2>1, <3>2, <3>3 DEF PresenceEffect, Shows, Connected, Conn
  <2>3. CASE p # q
    BY <1>1, <1>6, <2>1, <2>3, SameWire, StillTab DEF ReceivePresence
  <2> QED
    BY <2>2, <2>3
<1>7. ASSUME NEW j \in joins, Join(j) PROVE PresenceEffect(p)
  <2> DEFINE c == j.conn
             hello == [is |-> "joined", doc |-> j.doc, user |-> User(c)]
             ok == [is |-> "ok", visit |-> j.visit]
  <2>1. tab'[p] = tab[p] /\ current'[p] = current[p]
    BY <1>7 DEF Join
  <2>2. c[1] \in Pages /\ j.doc \in Docs /\ c = <<c[1], c[2]>>
        /\ j.visit \in 0..MaxVisits
    BY JoinTypes DEF TInv, PInv
  <2>3. /\ hello \in Alpha /\ ~IsComment(hello)
        /\ ok \in Alpha /\ ~IsComment(ok)
    BY <2>2, PagesHaveUsers
    DEF Alpha, Events, Answers, IsComment, User
  <2>4. Live(c) /\ p = c[1] => ~Hears(p, j.doc, c)
    BY <2>2 DEF Live, Hears, Conn
  <2>5. wire' = IF Live(c) THEN [Sent(j.doc, c, hello) EXCEPT ![c[1]] =
                                   Append(@, ok)]
                ELSE Sent(j.doc, c, hello)
    BY <1>7 DEF Join
  <2>6. Sent(j.doc, c, hello)[p] =
          IF Hears(p, j.doc, c) THEN Append(wire[p], hello) ELSE wire[p]
    BY DEF Sent
  <2>7. DOMAIN Sent(j.doc, c, hello) = Pages
    BY DEF Sent
  <2> HIDE DEF hello, ok
  <2>8. \/ wire'[p] = wire[p]
        \/ wire'[p] = Append(wire[p], hello)
        \/ wire'[p] = Append(wire[p], ok)
    BY <2>2, <2>4, <2>5, <2>6, <2>7
  <2>9. Embeds(p) /\ Keeps(p)
    BY <2>3, <2>8, SameWire, AppendedWire
  <2> QED
    BY <2>1, <2>9, StillTab
<1>8. ASSUME NEW j \in joins, RefuseJoin(j) PROVE PresenceEffect(p)
  <2> DEFINE no == [is |-> "refused", visit |-> j.visit]
  <2>1. tab'[p] = tab[p] /\ current'[p] = current[p]
    BY <1>8 DEF RefuseJoin
  <2>2. no \in Alpha /\ ~IsComment(no)
    BY JoinTypes DEF Alpha, Answers, IsComment, TInv, PInv
  <2>3. wire'[p] = wire[p] \/ wire'[p] = Append(wire[p], no)
    BY <1>1, <1>8 DEF RefuseJoin
  <2> HIDE DEF no
  <2> QED
    BY <2>1, <2>2, <2>3, SameWire, AppendedWire, StillTab
<1>9. ASSUME NEW c \in Conns, Disconnecting(c) PROVE PresenceEffect(p)
  <2>1. tab'[p] = tab[p] /\ current'[p] = current[p]
    BY <1>9 DEF Disconnecting
  <2> DEFINE ds == {d \in Docs : c \in members[d]}
             bye(d) == [is |-> "left", doc |-> d, user |-> User(c)]
             D == {d \in ds : Hears(p, d, c)}
             told == {bye(d) : d \in D}
             f == [d \in D |-> bye(d)]
  <2>2. wire'[p] = wire[p] \o SetToSeq(told)
    BY <1>9 DEF Disconnecting, Departed
  <2>3. IsFiniteSet(told)
    <3>1. IsFiniteSet(D)
      BY DocsAreFinite, FS_Subset
    <3>2. f \in Surjection(D, told)
      BY DEF Surjection
    <3> QED
      BY <3>1, <3>2, FS_Surjection
  <2>4. \A e \in told : e \in Alpha /\ ~IsComment(e)
    BY PagesHaveUsers DEF Alpha, Events, IsComment, User, Conns
  <2> HIDE DEF told
  <2>5. PICK t : t = SetToSeq(told)
    OBVIOUS
  <2>6. t \in Seq(told)
    BY <2>3, <2>5, SetToSeqIsOf
  <2>7. t \in Seq(Alpha) /\ \A i \in 1..Len(t) : ~IsComment(t[i])
    BY <2>4, <2>6
  <2> QED
    BY <2>1, <2>2, <2>5, <2>7, JoinedWire, StillTab
<1> QED
  BY <1>2, <1>3, <1>4, <1>5, <1>6, <1>7, <1>8, <1>9 DEF PresenceNext

-----------------------------------------------------------------------------
(* Proof of the way of a comment.                                          *)

LEMMA WayInit == Init => WayInv
  BY DEF Init, PresenceInit, WayInv, DbOK, WireOK, SideOK, Folded

SameMade ==
  \A d \in Docs : \A n :
    Made(d, n)' = Made(d, n) /\ (Recent(d, n)' => Recent(d, n))
MoreMade == \A d \in Docs : \A n : Made(d, n) => Made(d, n)'
Unique ==
  /\ \A a, b \in calls :
       a.kind = "post" /\ b.kind = "post" /\ a.id = b.id => a = b
  /\ \A a, b \in calls :
       a.kind = "fetch" /\ b.kind = "fetch" /\ a.page = b.page => a = b

\* The request c has become b.
From(b, c) ==
  /\ b.kind = c.kind /\ b.id = c.id /\ b.page = c.page /\ b.doc = c.doc
  /\ \/ b.pc = "failed"
     \/ b.pc = c.pc /\ b.data = c.data
     \/ b.pc = "served" /\ b.kind # "post" /\ ServedOK(b)'
Waited(b) ==
  /\ b.mine => side'[b.page].open /\ b.doc = tab'[b.page].doc
  /\ b.kind = "fetch" => b.mine

LEMMA WayUnique == ASSUME WayInv PROVE Unique
  BY DEF WayInv, CallOK, PostOK, FetchOK, Unique

LEMMA EmbedsOnWire ==
  ASSUME TInv, NEW p \in Pages, Embeds(p), NEW n, OnWire(p, n)'
  PROVE OnWire(p, n)
  BY DEF Embeds, OnWire

LEMMA WireKept ==
  ASSUME TInv, WayInv, NEW p \in Pages, Embeds(p), MoreMade
  PROVE WireOK(p)'
<1> SUFFICES ASSUME NEW i \in 1..Len(wire'[p]), IsComment(wire'[p][i]),
                    NEW x, x = wire'[p][i].comment
             PROVE /\ Known(x)'
                   /\ \A j \in 1..Len(wire'[p]) :
                        IsComment(wire'[p][j]) /\ wire'[p][j].comment.id = x.id
                          => j = i
  BY DEF WireOK, Known, Made
<1>1. PICK k \in {0, 1} : \A j \in 1..Len(wire'[p]) :
        IsComment(wire'[p][j]) =>
          j + k \in 1..Len(wire[p]) /\ wire[p][j + k] = wire'[p][j]
  BY DEF Embeds
<1>2. wire[p][i + k] \in CommentEvents
  <2>1. wire[p] \in Seq(Alpha)
    BY TabTypes DEF TInv, PInv
  <2>2. wire[p][i + k] \in Alpha
    BY <1>1, <2>1
  <2> QED
    BY <1>1, <2>2
    DEF Alpha, IsComment, Events, Answers, CommentEvents
<1>3. Known(x)'
  <2>1. Known(x)
    BY <1>1 DEF WayInv, WireOK
  <2>2. x.doc \in Docs
    BY <1>1, <1>2 DEF CommentEvents, Comment
  <2> QED
    BY <1>1, <2>1, <2>2 DEF Known, MoreMade
<1>4. ASSUME NEW j \in 1..Len(wire'[p]), IsComment(wire'[p][j]),
             wire'[p][j].comment.id = x.id
      PROVE j = i
  <2>1. j + k = i + k
    BY <1>1, <1>4 DEF WayInv, WireOK
  <2> QED
    BY <2>1
<1> QED
  BY <1>3, <1>4

LEMMA RelayKept ==
  ASSUME TInv, WayInv, NEW r \in relays, relays' \subseteq relays,
         \A p \in Pages : Embeds(p), MoreMade
  PROVE RelayOK(r)'
<1>1. RelayOK(r) /\ r.comment.doc \in Docs
  BY DEF WayInv, TInv, CTypes, Relayed, Comment
<1> QED
  BY <1>1, EmbedsOnWire DEF RelayOK, Known, MoreMade

LEMMA WayStays ==
  ASSUME TInv, WayInv, SameMade, \A p \in Pages : Embeds(p),
         relays' \subseteq relays
  PROVE /\ MoreMade
        /\ \A r \in relays' : RelayOK(r)'
        /\ \A p \in Pages : WireOK(p)'
<1>1. MoreMade
  BY DEF SameMade, MoreMade
<1> QED
  BY <1>1, RelayKept, WireKept

LEMMA CallStays ==
  ASSUME TInv, WayInv, NEW c \in calls, NEW b \in calls', From(b, c), Waited(b),
         relays' \subseteq relays, Unique', SameMade,
         \A p \in Pages : Embeds(p), posts' \in Nat, posts' >= posts
  PROVE CallOK(b)'
<1>1. CallOK(c) /\ c.doc \in Docs /\ c.id \in Nat /\ posts \in Nat
  BY CallTypes, CommentBoundsAreNumbers DEF WayInv, TInv, CTypes
<1>2. b.kind = "fetch" => FetchOK(b)'
  BY DEF Waited, Unique, FetchOK
<1>3. b.kind = "post" => PostOK(b)'
  BY <1>1, EmbedsOnWire DEF CallOK, PostOK, Unique, From, SameMade
<1>4. b.pc = "served" => ServedOK(b)'
  BY <1>1 DEF From, CallOK, ServedOK, SameMade
<1> QED
  BY <1>2, <1>3, <1>4 DEF CallOK, Waited

LEMMA DbStays ==
  ASSUME TInv, WayInv, UNCHANGED db, posts' \in Nat, posts' >= posts
  PROVE DbOK' /\ SameMade
<1>1. posts \in Nat
  BY CommentBoundsAreNumbers DEF TInv, CTypes
<1>2. \A d \in Docs : \A i \in DOMAIN db[d] : db[d][i].id \in Nat
  BY DbTypes, CommentBoundsAreNumbers DEF TInv
<1> QED
  BY <1>1, <1>2 DEF WayInv, DbOK, SameMade, Made, Recent

LEMMA SideKept ==
  ASSUME TInv, WayInv, NEW p \in Pages, MoreMade,
         side'[p].list = side[p].list \/ side'[p].list = <<>>,
         side'[p].open /\ ~side'[p].overtaken => tab'[p].on # None
  PROVE SideOK(p)'
<1>1. SideOK(p) /\ \A i \in DOMAIN side[p].list : side[p].list[i].doc \in Docs
  BY SideTypes DEF WayInv, TInv, Comment
<1> QED
  BY <1>1 DEF SideOK, Known, MoreMade

LEMMA SideStays ==
  ASSUME TInv, WayInv, NEW p \in Pages, SameMade,
         side'[p].list = side[p].list \/ side'[p].list = <<>>,
         side'[p].open /\ ~side'[p].overtaken => tab'[p].on # None
  PROVE SideOK(p)'
  BY SideKept DEF SameMade, MoreMade

\* A step that makes no comment and sends none.
LEMMA WayQuiet ==
  ASSUME TInv, WayInv, relays' = relays, SameMade, DbOK',
         posts' \in Nat, posts' >= posts, \A p \in Pages : Embeds(p),
         Unique', \A b \in calls' : Waited(b),
         \A b \in calls' : CallOK(b)' \/ \E c \in calls : From(b, c),
         \A p \in Pages : SideOK(p)'
  PROVE WayInv'
<1>1. \A b \in calls' : CallOK(b)'
  BY CallStays
<1>2. /\ \A r \in relays' : RelayOK(r)'
      /\ \A p \in Pages : WireOK(p)'
  BY WayStays
<1> QED
  BY <1>1, <1>2 DEF WayInv

LEMMA OrphansUnique ==
  ASSUME TInv, WayInv, NEW gone, calls' = Orphaned(gone)
  PROVE /\ Unique'
        /\ \A b \in calls' : \E c \in calls : OrphanOf(b, c, gone) /\ From(b, c)
<1>1. \A b \in calls' : \E c \in calls : OrphanOf(b, c, gone)
  BY OrphanedAre DEF TInv
<1>2. ASSUME NEW a \in calls', NEW b \in calls', a.kind = b.kind,
             \/ a.kind = "post" /\ a.id = b.id
             \/ a.kind = "fetch" /\ a.page = b.page
      PROVE a = b
  <2>1. PICK c \in calls : OrphanOf(a, c, gone)
    BY <1>1
  <2>2. PICK d \in calls : OrphanOf(b, d, gone)
    BY <1>1
  <2>3. c = d
    BY <1>2, <2>1, <2>2, WayUnique DEF Unique, OrphanOf
  <2> QED
    BY <2>1, <2>2, <2>3 DEF OrphanOf
<1> QED
  BY <1>1, <1>2 DEF Unique, OrphanOf, From

LEMMA WayPresence ==
  ASSUME TInv, WayInv, PresenceStep PROVE WayInv'
<1> DEFINE left == {p \in Pages : tab'[p].at # "open"}
<1>1. /\ side' = [p \in Pages |-> IF p \in left THEN Folded ELSE side[p]]
      /\ calls' = Orphaned(left)
      /\ UNCHANGED <<db, relays, posts>>
  BY DEF PresenceStep, commentCounts
<1>2. \A p \in Pages : PresenceEffect(p)
  BY PresenceEffects DEF PresenceStep
<1>3. DbOK' /\ SameMade /\ posts' \in Nat /\ posts' >= posts
  BY <1>1, DbStays, CommentBoundsAreNumbers DEF TInv, CTypes
<1>4. \A p \in Pages : p \notin left /\ side[p].open => Shows(p) /\ Shows(p)'
  BY DEF TInv, CTypes, Shows
<1> HIDE DEF left
<1>5. \A p \in Pages : SideOK(p)'
  <2> SUFFICES ASSUME NEW p \in Pages PROVE SideOK(p)'
    OBVIOUS
  <2>1. CASE p \in left
    BY <1>1, <1>3, <2>1, SideStays DEF Folded
  <2>2. CASE p \notin left
    BY <1>1, <1>2, <1>3, <1>4, <2>2, SideStays
    DEF PresenceEffect, WayInv, SideOK
  <2> QED
    BY <2>1, <2>2
<1>6. Unique' /\ \A b \in calls' : \E c \in calls :
                   OrphanOf(b, c, left) /\ From(b, c)
  BY <1>1, OrphansUnique
<1>7. \A b \in calls' : Waited(b)
  <2> SUFFICES ASSUME NEW b \in calls' PROVE Waited(b)
    OBVIOUS
  <2>1. PICK c \in calls : OrphanOf(b, c, left)
    BY <1>6
  <2>2. CallOK(c) /\ c.page \in Pages /\ c.mine \in BOOLEAN
    BY CallTypes DEF WayInv, TInv
  <2>3. CASE c.page \in left
    BY <2>1, <2>3 DEF OrphanOf, Waited
  <2>4. CASE c.page \notin left
    BY <1>1, <1>2, <1>4, <2>1, <2>2, <2>4
    DEF OrphanOf, Waited, CallOK, FetchOK, PresenceEffect
  <2> QED
    BY <2>3, <2>4
<1> QED
  BY <1>1, <1>2, <1>3, <1>5, <1>6, <1>7, WayQuiet DEF PresenceEffect

\* Nothing of the rooms changes, and no comment.
LEMMA WayStill ==
  ASSUME TInv, UNCHANGED <<presenceVars, db>>, posts' \in Nat,
         posts' >= posts, WayInv
  PROVE /\ tab' = tab /\ current' = current /\ wire' = wire
        /\ DbOK' /\ SameMade /\ \A p \in Pages : Embeds(p)
  BY DbStays, SameWire DEF presenceVars

LEMMA PostsGrow ==
  ASSUME TInv PROVE posts \in Nat /\ (posts' = posts => posts' >= posts)
  BY CommentBoundsAreNumbers DEF TInv, CTypes

LEMMA WayClose ==
  ASSUME TInv, WayInv, NEW p \in Pages, CloseSidebar(p) PROVE WayInv'
<1>1. /\ side' = [side EXCEPT ![p] = Folded] /\ calls' = Orphaned({p})
      /\ UNCHANGED <<presenceVars, db, relays, posts>>
  BY DEF CloseSidebar, commentCounts
<1>2. /\ tab' = tab /\ DbOK' /\ SameMade /\ \A q \in Pages : Embeds(q)
      /\ posts' \in Nat /\ posts' >= posts
  BY <1>1, WayStill, PostsGrow
<1>3. \A q \in Pages : IF q = p THEN side'[q] = Folded ELSE side'[q] = side[q]
  BY <1>1 DEF TInv, CTypes
<1>4. \A q \in Pages : SideOK(q)'
  BY <1>2, <1>3, SideStays DEF Folded, WayInv, SideOK
<1>5. Unique' /\ \A b \in calls' : \E c \in calls :
                   OrphanOf(b, c, {p}) /\ From(b, c)
  BY <1>1, OrphansUnique
<1>6. \A b \in calls' : Waited(b)
  <2> SUFFICES ASSUME NEW b \in calls' PROVE Waited(b)
    OBVIOUS
  <2>1. PICK c \in calls : OrphanOf(b, c, {p})
    BY <1>5
  <2>2. CallOK(c) /\ c.page \in Pages /\ c.mine \in BOOLEAN
    BY CallTypes DEF WayInv, TInv
  <2> QED
    BY <1>2, <1>3, <2>1, <2>2 DEF OrphanOf, Waited, CallOK, FetchOK
<1> QED
  BY <1>1, <1>2, <1>4, <1>5, <1>6, WayQuiet

\* The calls that stay wait as they did when their sidebars do.
LEMMA StillWaited ==
  ASSUME TInv, WayInv, NEW c \in calls, NEW b, b.page = c.page,
         b.doc = c.doc, b.kind = c.kind, b.mine = c.mine, tab' = tab,
         side'[c.page].open = side[c.page].open
  PROVE Waited(b)
  BY DEF Waited, WayInv, CallOK, FetchOK

LEMMA WayOpen ==
  ASSUME TInv, WayInv, NEW p \in Pages, OpenSidebar(p) PROVE WayInv'
<1>0. PICK new : new = NewCall(p, "fetch", 0)
  OBVIOUS
<1>1. /\ calls' = calls \cup {new} /\ ~side[p].open
      /\ UNCHANGED <<presenceVars, db, relays, posts>>
  BY <1>0 DEF OpenSidebar
<1>2. /\ tab' = tab /\ DbOK' /\ SameMade /\ \A q \in Pages : Embeds(q)
      /\ posts' \in Nat /\ posts' >= posts
  BY <1>1, WayStill, PostsGrow
<1>3. /\ side'[p].open /\ side'[p].list = <<>>
      /\ ~side'[p].overtaken => tab[p].on = current[p]
      /\ \A q \in Pages \ {p} : side'[q] = side[q]
  BY DEF TInv, CTypes, OpenSidebar
<1>4. \A q \in Pages : SideOK(q)'
  <2>1. current[p] # None
    BY TabTypes DEF TInv, PInv
  <2> QED
    BY <1>2, <1>3, <2>1, SideStays DEF WayInv, SideOK
<1>5. /\ new.kind = "fetch" /\ new.page = p /\ new.mine /\ new.pc = "sent"
      /\ new.doc = tab[p].doc
  BY <1>0 DEF NewCall
<1>6. \A c \in calls : c.mine => c.page # p
  BY <1>1 DEF WayInv, CallOK
<1>7. Unique'
  BY <1>1, <1>5, <1>6, WayUnique DEF Unique, WayInv, CallOK, FetchOK
<1>8. \A b \in calls' : Waited(b)
  <2>1. Waited(new)
    BY <1>2, <1>3, <1>5 DEF Waited
  <2>2. ASSUME NEW c \in calls PROVE Waited(c)
    BY <1>2, <1>3, <1>6, CallTypes DEF Waited, WayInv, CallOK, FetchOK, TInv
  <2> QED
    BY <1>1, <2>1, <2>2
<1>9. \A b \in calls' : CallOK(b)' \/ \E c \in calls : From(b, c)
  <2>1. CallOK(new)'
    BY <1>1, <1>2, <1>3, <1>5, <1>7 DEF CallOK, FetchOK, Unique
  <2> QED
    BY <1>1, <2>1 DEF From
<1> QED
  BY <1>1, <1>2, <1>4, <1>7, <1>8, <1>9, WayQuiet

LEMMA WayPost ==
  ASSUME TInv, WayInv, NEW p \in Pages, Post(p) PROVE WayInv'
<1>0. PICK new : new = NewCall(p, "post", posts')
  OBVIOUS
<1> DEFINE late(q) == Waits(q, {"fetch"}) # {} /\ tab[q].doc = tab[p].doc
<1>1. /\ calls' = calls \cup {new} /\ side[p].open /\ posts' = posts + 1
      /\ side' = [q \in Pages |-> IF late(q)
                    THEN [side[q] EXCEPT !.overtaken = TRUE] ELSE side[q]]
      /\ UNCHANGED <<presenceVars, db, relays>>
  BY <1>0 DEF Post
<1>2. /\ tab' = tab /\ wire' = wire /\ DbOK' /\ SameMade
      /\ \A q \in Pages : Embeds(q)
      /\ posts \in Nat /\ posts' \in Nat /\ posts' >= posts
  <2>1. posts \in Nat /\ posts' \in Nat /\ posts' >= posts
    BY <1>1, PostsGrow
  <2> QED
    BY <1>1, <2>1, WayStill
<1> HIDE DEF late
<1>3. \A q \in Pages : /\ side'[q].open = side[q].open
                       /\ side'[q].list = side[q].list
                       /\ side[q].overtaken => side'[q].overtaken
  <2> SUFFICES ASSUME NEW q \in Pages
               PROVE /\ side'[q].open = side[q].open
                     /\ side'[q].list = side[q].list
                     /\ side[q].overtaken => side'[q].overtaken
    OBVIOUS
  <2>1. side[q] \in Sidebar
    BY SideTypes DEF TInv
  <2> QED
    BY <1>1, <2>1 DEF Sidebar
<1>4. \A q \in Pages : SideOK(q)'
  BY <1>2, <1>3, SideStays DEF WayInv, SideOK
<1>5. /\ new.kind = "post" /\ new.page = p /\ new.mine /\ new.pc = "sent"
      /\ new.doc = tab[p].doc /\ new.id = posts'
  BY <1>0 DEF NewCall
<1>6. \A d \in Docs, n \in Nat : Made(d, n) => n <= posts
  BY DEF WayInv, DbOK, Made
<1>7. \A c \in calls : c.kind = "post" => c.id <= posts /\ c.id \in Nat
  BY CallTypes, CommentBoundsAreNumbers DEF TInv, WayInv, CallOK, PostOK
<1>8. Unique'
  BY <1>1, <1>2, <1>5, <1>7, WayUnique DEF Unique
<1>9. \A b \in calls' : Waited(b)
  <2>1. Waited(new)
    BY <1>1, <1>2, <1>3, <1>5 DEF Waited
  <2>2. ASSUME NEW c \in calls PROVE Waited(c)
    BY <1>2, <1>3, CallTypes, StillWaited DEF TInv
  <2> QED
    BY <1>1, <2>1, <2>2
<1>10. PostOK(new)'
  <2>1. \A d \in Docs : ~Made(d, new.id)
    BY <1>1, <1>2, <1>5, <1>6
  <2>2. \A x \in Comment : Known(x) => x.id # new.id
    BY <2>1 DEF Known, Comment
  <2>3. \A r \in relays : r.comment.id # new.id
    BY <2>2 DEF WayInv, RelayOK, TInv, CTypes, Relayed
  <2>4. ASSUME NEW q \in Pages PROVE ~OnWire(q, new.id)
    <3>1. SUFFICES ASSUME NEW i \in 1..Len(wire[q]), IsComment(wire[q][i])
                   PROVE wire[q][i].comment.id # new.id
      BY DEF OnWire
    <3>2. wire[q] \in Seq(Alpha)
      BY TabTypes DEF TInv, PInv
    <3>3. wire[q][i] \in Alpha
      BY <3>2
    <3>4. wire[q][i].comment \in Comment
      BY <3>1, <3>3 DEF Alpha, IsComment, Events, Answers, CommentEvents
    <3> QED
      BY <2>2, <3>1, <3>4 DEF WayInv, WireOK
  <2>5. \A q \in Pages : OnWire(q, new.id)' = OnWire(q, new.id)
    BY <1>2 DEF OnWire
  <2> QED
    BY <1>1, <1>2, <1>5, <1>8, <2>1, <2>3, <2>4, <2>5
    DEF PostOK, Unique, SameMade
<1>11. \A b \in calls' : CallOK(b)' \/ \E c \in calls : From(b, c)
  <2>1. CallOK(new)'
    BY <1>1, <1>2, <1>3, <1>5, <1>10 DEF CallOK
  <2> QED
    BY <1>1, <2>1 DEF From
<1> QED
  BY <1>1, <1>2, <1>4, <1>8, <1>9, <1>11, WayQuiet

LEMMA WayTouch ==
  ASSUME TInv, WayInv, NEW p \in Pages, NEW kind \in {"reply", "resolve"},
         NEW x \in ToSet(side[p].list), Touch(p, kind, x)
  PROVE WayInv'
<1>0. PICK new : new = NewCall(p, kind, x.id)
  OBVIOUS
<1> DEFINE other(q) == q # p \/ Waits(p, {"fetch", "reply", "resolve"}) # {}
<1>1. /\ calls' = calls \cup {new} /\ side[p].open
      /\ side' = [q \in Pages |-> IF other(q)
                    THEN [side[q] EXCEPT !.sole = FALSE] ELSE side[q]]
      /\ UNCHANGED <<presenceVars, db, relays, posts>>
  BY <1>0 DEF Touch
<1>2. /\ tab' = tab /\ DbOK' /\ SameMade /\ \A q \in Pages : Embeds(q)
      /\ posts' \in Nat /\ posts' >= posts
  BY <1>1, WayStill, PostsGrow
<1> HIDE DEF other
<1>3. \A q \in Pages : /\ side'[q].open = side[q].open
                       /\ side'[q].list = side[q].list
                       /\ side'[q].overtaken = side[q].overtaken
  <2> SUFFICES ASSUME NEW q \in Pages
               PROVE /\ side'[q].open = side[q].open
                     /\ side'[q].list = side[q].list
                     /\ side'[q].overtaken = side[q].overtaken
    OBVIOUS
  <2>1. side[q] \in Sidebar
    BY SideTypes DEF TInv
  <2> QED
    BY <1>1, <2>1 DEF Sidebar
<1>4. \A q \in Pages : SideOK(q)'
  BY <1>2, <1>3, SideStays DEF WayInv, SideOK
<1>5. /\ new.kind = kind /\ new.page = p /\ new.mine /\ new.pc = "sent"
      /\ new.doc = tab[p].doc
  BY <1>0 DEF NewCall
<1>6. Unique'
  BY <1>1, <1>5, WayUnique DEF Unique
<1>7. \A b \in calls' : Waited(b)
  <2>1. Waited(new)
    BY <1>1, <1>2, <1>3, <1>5 DEF Waited
  <2>2. ASSUME NEW c \in calls PROVE Waited(c)
    BY <1>2, <1>3, CallTypes, StillWaited DEF TInv
  <2> QED
    BY <1>1, <2>1, <2>2
<1>8. \A b \in calls' : CallOK(b)' \/ \E c \in calls : From(b, c)
  <2>1. CallOK(new)'
    BY <1>1, <1>2, <1>3, <1>5 DEF CallOK
  <2> QED
    BY <1>1, <2>1 DEF From
<1> QED
  BY <1>1, <1>2, <1>4, <1>6, <1>7, <1>8, WayQuiet

\* One request becomes another, or ends.
LEMMA Replaced ==
  ASSUME TInv, WayInv, NEW c \in calls, NEW b, b.page = c.page,
         b.doc = c.doc, b.kind = c.kind, b.id = c.id, b.mine = c.mine,
         calls' \subseteq (calls \ {c}) \cup {b}, tab' = tab,
         \A p \in Pages : side'[p].open = side[p].open
  PROVE Unique' /\ \A a \in calls' : Waited(a)
<1>1. Unique'
  BY WayUnique DEF Unique
<1>2. c.page \in Pages /\ \A a \in calls : a.page \in Pages
  BY CallTypes DEF TInv
<1>3. Waited(b) /\ \A a \in calls : Waited(a)
  BY <1>2, StillWaited
<1> QED
  BY <1>1, <1>3

LEMMA StillFrom == \A c \in calls : From(c, c)
  BY DEF From

LEMMA WayFails ==
  ASSUME TInv, WayInv, NEW c \in calls, CallFails(c) PROVE WayInv'
<1>0. c = Answer(c, c.pc, c.data)
  BY CallTypes DEF TInv, Answer
<1>1. PICK b : b = Answer(c, "failed", c.data)
  OBVIOUS
<1>2. [c EXCEPT !.pc = "failed"] = b
  BY <1>0, <1>1 DEF Answer
<1>3. /\ calls' = (calls \ {c}) \cup {b}
      /\ UNCHANGED <<tab, wire, db, side, relays, posts>>
  BY <1>2 DEF CallFails, commentCounts
<1>4. /\ b.page = c.page /\ b.doc = c.doc /\ b.kind = c.kind /\ b.id = c.id
      /\ b.mine = c.mine /\ b.pc = "failed"
  BY <1>1 DEF Answer
<1>5. Unique' /\ \A a \in calls' : Waited(a)
  BY <1>3, <1>4, Replaced
<1>6. /\ DbOK' /\ SameMade /\ posts' \in Nat /\ posts' >= posts
      /\ \A p \in Pages : Embeds(p)
  BY <1>3, DbStays, PostsGrow, SameWire
<1>7. \A p \in Pages : SideOK(p)'
  BY <1>3, <1>6, SideStays DEF WayInv, SideOK
<1>8. \A a \in calls' : \E d \in calls : From(a, d)
  BY <1>3, <1>4, StillFrom DEF From
<1> QED
  BY <1>3, <1>5, <1>6, <1>7, <1>8, WayQuiet

LEMMA WayRefused ==
  ASSUME TInv, WayInv, NEW c \in calls, Refused(c) PROVE WayInv'
<1>1. /\ calls' = calls \ {c} /\ UNCHANGED <<presenceVars, db, relays, posts>>
  BY DEF Refused, commentCounts
<1>2. /\ tab' = tab /\ DbOK' /\ SameMade /\ \A q \in Pages : Embeds(q)
      /\ posts' \in Nat /\ posts' >= posts
  BY <1>1, WayStill, PostsGrow
<1>3. \A q \in Pages : /\ side'[q].open = side[q].open
                       /\ side'[q].list = side[q].list
                       /\ side[q].overtaken => side'[q].overtaken
  BY DEF Refused, TInv, CTypes, Sidebar
<1>4. \A q \in Pages : SideOK(q)'
  BY <1>2, <1>3, SideStays DEF WayInv, SideOK
<1>5. Unique' /\ \A a \in calls' : Waited(a)
  BY <1>1, <1>2, <1>3, Replaced
<1> QED
  BY <1>1, <1>2, <1>4, <1>5, StillFrom, WayQuiet

LEMMA HeadComment ==
  ASSUME TInv, NEW p \in Pages, NEW i \in 1..Len(wire[p]),
         IsComment(wire[p][i])
  PROVE /\ wire[p][i].comment \in Comment /\ wire[p][i].comment.doc \in Docs
        /\ wire[p][i].comment.id \in 1..MaxPosts
<1>1. wire[p] \in Seq(Alpha)
  BY TabTypes DEF TInv, PInv
<1>2. wire[p][i] \in Alpha
  BY <1>1
<1> QED
  BY <1>2 DEF Alpha, IsComment, Events, Answers, CommentEvents, Comment

LEMMA WayReceive ==
  ASSUME TInv, WayInv, NEW p \in Pages, ReceiveComment(p) PROVE WayInv'
<1>1. /\ side' = IF ~side[p].open THEN side
                 ELSE [side EXCEPT ![p].list = <<Head(wire[p]).comment>> \o @]
      /\ UNCHANGED <<tab, db, calls, relays, posts>>
      /\ wire[p] # <<>> /\ IsComment(Head(wire[p]))
      /\ wire' = [wire EXCEPT ![p] = Tail(@)]
  BY DEF ReceiveComment, NextEvent, commentCounts, IsComment
<1>2. \A q \in Pages : Embeds(q)
  <2>1. ASSUME NEW q \in Pages, q # p PROVE wire'[q] = wire[q]
    BY <1>1, <2>1
  <2>2. wire'[p] = Tail(wire[p])
    BY <1>1 DEF TInv, PInv, PTypes
  <2> QED
    BY <1>1, <2>1, <2>2, SameWire, ReadWire
<1>3. DbOK' /\ SameMade /\ posts' \in Nat /\ posts' >= posts
  BY <1>1, DbStays, PostsGrow
<1>4. PICK x : x = Head(wire[p]).comment
  OBVIOUS
<1>5. x \in Comment /\ x.doc \in Docs /\ Known(x)
  <2>1. wire[p] \in Seq(Alpha)
    BY TabTypes DEF TInv, PInv
  <2>2. 1 \in 1..Len(wire[p]) /\ Head(wire[p]) = wire[p][1]
    BY <1>1, <2>1
  <2> QED
    BY <1>1, <1>4, <2>2, HeadComment DEF WayInv, WireOK
<1>6. \A q \in Pages : /\ side'[q].open = side[q].open
                       /\ side'[q].overtaken = side[q].overtaken
                       /\ q # p => side'[q] = side[q]
  BY <1>1 DEF TInv, CTypes, Sidebar
<1>7. \A q \in Pages : SideOK(q)'
  <2> SUFFICES ASSUME NEW q \in Pages PROVE SideOK(q)'
    OBVIOUS
  <2>1. CASE side'[q].list = side[q].list
    BY <1>1, <1>3, <1>6, <2>1, SideStays DEF WayInv, SideOK
  <2>2. CASE side'[q].list # side[q].list
    <3>1. q = p
      BY <1>6, <2>2
    <3>2. PICK s : s = side[p].list
      OBVIOUS
    <3>3. side'[p].list = <<x>> \o s
      BY <1>1, <1>4, <2>2, <3>1, <3>2 DEF TInv, CTypes, Sidebar
    <3>4. s \in Seq(Comment)
      BY <3>2, SideTypes DEF TInv
    <3>5. \A i \in DOMAIN (<<x>> \o s) :
            (<<x>> \o s)[i] = x \/ \E k \in DOMAIN s : (<<x>> \o s)[i] = s[k]
      BY <1>5, <3>4
    <3>6. \A k \in DOMAIN s : Known(s[k]) /\ s[k].doc \in Docs
      BY <3>2, SideTypes DEF WayInv, SideOK, TInv, Comment
    <3>7. ASSUME NEW i \in DOMAIN side'[p].list, NEW y, y = side'[p].list[i]
          PROVE Known(y) /\ y.doc \in Docs
      BY <1>5, <3>3, <3>5, <3>6, <3>7
    <3>8. \A i \in DOMAIN side'[p].list : \A y :
            y = side'[p].list[i] => Known(y)'
      BY <1>3, <3>7 DEF Known, SameMade
    <3>9. side'[p].open /\ ~side'[p].overtaken => tab'[p].on # None
      BY <1>1, <1>6 DEF WayInv, SideOK
    <3> QED
      BY <3>1, <3>8, <3>9 DEF SideOK, Known, Made
  <2> QED
    BY <2>1, <2>2
<1>8. Unique' /\ \A b \in calls' : Waited(b)
  <2>1. \A b \in calls : b.page \in Pages
    BY CallTypes DEF TInv
  <2> QED
    BY <1>1, <1>6, <2>1, WayUnique, StillWaited DEF Unique
<1> QED
  BY <1>1, <1>2, <1>3, <1>7, <1>8, StillFrom, WayQuiet

\* The list of p gets other entries.
LEMMA ListKept ==
  ASSUME TInv, WayInv, NEW p \in Pages, MoreMade,
         side'[p].open = side[p].open, side'[p].overtaken = side[p].overtaken,
         tab' = tab, NEW s, side'[p].list = s,
         \A i \in DOMAIN s : Known(s[i]) /\ s[i].doc \in Docs
  PROVE SideOK(p)'
<1>1. \A i \in DOMAIN s : \A y : y = s[i] => Known(y)'
  BY DEF Known, MoreMade
<1>2. side'[p].open /\ ~side'[p].overtaken => tab'[p].on # None
  BY DEF WayInv, SideOK
<1> QED
  BY <1>1, <1>2 DEF SideOK, Known, Made

LEMMA ShownKnown ==
  ASSUME TInv, WayInv, NEW c \in calls, c.pc = "served", NEW s,
         s = Shown(side[c.page].list, c)
  PROVE \A i \in DOMAIN s : Known(s[i]) /\ s[i].doc \in Docs
<1>1. /\ c.page \in Pages /\ c.doc \in Docs /\ c.data \in Seq(Comment)
      /\ c.kind # "fetch" => Len(c.data) = 1 /\ c.data[1] \in Comment
      /\ c.kind \in {"fetch", "post", "reply", "resolve"}
  BY CallTypes DEF TInv
<1>2. PICK l, a : l = side[c.page].list /\ a = c.data
  OBVIOUS
<1>3. /\ l \in Seq(Comment) /\ a \in Seq(Comment)
      /\ \A i \in DOMAIN l : Known(l[i]) /\ l[i].doc \in Docs
  BY <1>1, <1>2, SideTypes DEF WayInv, SideOK, TInv, Comment
<1>4. \A i \in DOMAIN a : Known(a[i]) /\ a[i].doc \in Docs
  BY <1>1, <1>2 DEF WayInv, CallOK, ServedOK, Known
<1>5. CASE c.kind = "fetch"
  BY <1>2, <1>4, <1>5 DEF Shown
<1>6. CASE c.kind = "post"
  <2>1. s = a \o l
    BY <1>2, <1>6 DEF Shown
  <2>2. \A i \in DOMAIN (a \o l) : \/ \E k \in DOMAIN a : (a \o l)[i] = a[k]
                                   \/ \E k \in DOMAIN l : (a \o l)[i] = l[k]
    BY <1>3
  <2> QED
    BY <1>3, <1>4, <2>1, <2>2
<1>7. CASE c.kind \notin {"fetch", "post"}
  <2>1. s = Update(l, c.id, a[1])
    BY <1>2, <1>7 DEF Shown
  <2>2. 1 \in DOMAIN a /\ a[1] \in Comment
    BY <1>1, <1>2, <1>7
  <2>3. /\ DOMAIN s = DOMAIN l
        /\ \A i \in DOMAIN l : s[i] = IF l[i].id = c.id THEN a[1] ELSE l[i]
    BY <1>3, <2>1, <2>2, UpdateTypes
  <2> QED
    BY <1>3, <1>4, <2>2, <2>3
<1> QED
  BY <1>5, <1>6, <1>7

LEMMA WayAnswered ==
  ASSUME TInv, WayInv, NEW c \in calls, Answered(c) PROVE WayInv'
<1>1. /\ calls' = calls \ {c} /\ c.pc = "served" /\ c.page \in Pages
      /\ UNCHANGED <<presenceVars, db, posts>>
  BY CallTypes DEF Answered, commentCounts, TInv
<1>2. /\ tab' = tab /\ wire' = wire /\ DbOK' /\ SameMade /\ MoreMade
      /\ \A q \in Pages : Embeds(q) /\ posts' \in Nat /\ posts' >= posts
  BY <1>1, WayStill, PostsGrow DEF SameMade, MoreMade
<1>3. PICK s : s = Shown(side[c.page].list, c)
  OBVIOUS
<1>4. side' = IF c.mine THEN [side EXCEPT ![c.page].list = s] ELSE side
  BY <1>3 DEF Answered
<1>5. \A q \in Pages : /\ side'[q].open = side[q].open
                       /\ side'[q].overtaken = side[q].overtaken
                       /\ \/ side'[q].list = side[q].list
                          \/ q = c.page /\ side'[q].list = s
  BY <1>4 DEF TInv, CTypes, Sidebar
<1>6. \A q \in Pages : SideOK(q)'
  <2> SUFFICES ASSUME NEW q \in Pages PROVE SideOK(q)'
    OBVIOUS
  <2>1. CASE side'[q].list = side[q].list
    BY <1>2, <1>5, <2>1, SideStays DEF WayInv, SideOK
  <2>2. CASE q = c.page /\ side'[q].list = s
    BY <1>1, <1>2, <1>3, <1>5, <2>2, ShownKnown, ListKept
  <2> QED
    BY <1>5, <2>1, <2>2
<1>7. Unique' /\ \A a \in calls' : Waited(a)
  BY <1>1, <1>2, <1>5, Replaced
<1>8. CASE c.kind # "post"
  <2>1. relays' = relays
    BY <1>8 DEF Answered
  <2> QED
    BY <1>1, <1>2, <1>6, <1>7, <2>1, StillFrom, WayQuiet
<1>9. CASE c.kind = "post"
  <2>1. PICK r : r = [conn |-> Conn(c.page), comment |-> c.data[1]]
    OBVIOUS
  <2>2. relays' = relays \cup {r}
    BY <1>9, <2>1 DEF Answered
  <2>3. /\ r.comment.id = c.id /\ Known(r.comment) /\ r.comment.doc \in Docs
    <3>1. Len(c.data) = 1 /\ c.data \in Seq(Comment) /\ c.doc \in Docs
      BY <1>1, <1>9, CallTypes DEF TInv
    <3>2. 1 \in DOMAIN c.data
      BY <3>1
    <3> QED
      BY <1>1, <1>9, <2>1, <3>1, <3>2 DEF WayInv, CallOK, ServedOK, Known
  <2>4. /\ \A q \in relays : q.comment.id # c.id
        /\ \A p \in Pages : ~OnWire(p, c.id)
        /\ \A b \in calls' : b.kind = "post" => b.id # c.id
    BY <1>1, <1>9 DEF WayInv, CallOK, PostOK
  <2>5. \A p \in Pages : \A n : OnWire(p, n)' = OnWire(p, n)
    BY <1>2 DEF OnWire
  <2>6. RelayOK(r)'
    BY <1>2, <2>2, <2>3, <2>4, <2>5 DEF RelayOK, Known, SameMade
  <2>7. ASSUME NEW q \in relays PROVE RelayOK(q)'
    <3>1. RelayOK(q) /\ q.comment.doc \in Docs
      BY DEF WayInv, TInv, CTypes, Relayed, Comment
    <3> QED
      BY <1>2, <2>2, <2>3, <2>4, <2>5, <3>1 DEF RelayOK, Known, SameMade
  <2>8. ASSUME NEW b \in calls' PROVE CallOK(b)'
    <3>1. CallOK(b) /\ b \in calls /\ b.doc \in Docs /\ posts' = posts
      BY <1>1, CallTypes DEF WayInv, TInv
    <3>2. b.kind = "post" => PostOK(b)'
      BY <1>1, <1>2, <2>2, <2>3, <2>4, <2>5, <3>1
      DEF CallOK, PostOK, SameMade
    <3>3. b.kind = "fetch" => FetchOK(b)'
      BY <1>1, <3>1 DEF CallOK, FetchOK
    <3>4. b.pc = "served" => ServedOK(b)'
      BY <1>2, <3>1 DEF CallOK, ServedOK, SameMade
    <3> QED
      BY <1>7, <3>2, <3>3, <3>4 DEF CallOK, Waited
  <2>9. \A p \in Pages : WireOK(p)'
    BY <1>2, WireKept
  <2> QED
    BY <1>2, <1>6, <2>2, <2>6, <2>7, <2>8, <2>9 DEF WayInv
<1> QED
  BY <1>8, <1>9

CommentEvent(x) == [is |-> "comment", doc |-> x.doc, comment |-> x]

\* What the relay of r does to one wire.
LEMMA RelayedWire ==
  ASSUME TInv, NEW r \in relays, Relay(r), NEW p \in Pages, wire' # wire
  PROVE IF Hears(p, r.comment.doc, r.conn)
        THEN wire'[p] = Append(wire[p], CommentEvent(r.comment))
        ELSE wire'[p] = wire[p]
  BY DEF Relay, Sent, CommentEvent

LEMMA WayRelay ==
  ASSUME TInv, WayInv, NEW r \in relays, Relay(r) PROVE WayInv'
<1>1. /\ relays' = relays \ {r}
      /\ UNCHANGED <<tab, db, side, calls, posts>>
  BY DEF Relay, commentCounts
<1>2. DbOK' /\ SameMade /\ MoreMade /\ posts' \in Nat /\ posts' >= posts
  BY <1>1, DbStays, PostsGrow DEF SameMade, MoreMade
<1>3. \A p \in Pages : SideOK(p)'
  BY <1>1, <1>2, SideStays DEF WayInv, SideOK
<1>4. Unique' /\ \A b \in calls' : Waited(b)
  BY <1>1, WayUnique, CallTypes, StillWaited DEF Unique, TInv
<1>5. CASE wire' = wire
  <2>1. \A p \in Pages : Embeds(p)
    BY <1>5, SameWire
  <2>2. /\ \A q \in relays' : RelayOK(q)'
        /\ \A p \in Pages : WireOK(p)'
    BY <1>1, <1>2, <2>1, WayStays
  <2>3. \A b \in calls' : CallOK(b)'
    BY <1>1, <1>2, <1>4, <2>1, StillFrom, CallStays
  <2> QED
    BY <1>2, <1>3, <2>2, <2>3 DEF WayInv
<1>6. CASE wire' # wire
  <2>1. PICK n, e : n = r.comment.id /\ e = CommentEvent(r.comment)
    OBVIOUS
  <2>2. /\ r.comment \in Comment /\ r.comment.doc \in Docs /\ RelayOK(r)
        /\ e.comment = r.comment /\ IsComment(e)
    BY <2>1 DEF WayInv, TInv, CTypes, Relayed, Comment, CommentEvent, IsComment
  <2>3. ASSUME NEW p \in Pages
        PROVE \/ wire'[p] = wire[p]
              \/ /\ \A i \in 1..Len(wire[p]) : wire'[p][i] = wire[p][i]
                 /\ wire'[p][Len(wire[p]) + 1] = e
                 /\ 1..Len(wire'[p]) = 1..Len(wire[p]) \cup {Len(wire[p]) + 1}
    <3>1. PICK s : s = wire[p] /\ s \in Seq(Alpha)
      BY TabTypes DEF TInv, PInv
    <3>2. /\ \A i \in 1..Len(s) : Append(s, e)[i] = s[i]
          /\ Append(s, e)[Len(s) + 1] = e
          /\ 1..Len(Append(s, e)) = 1..Len(s) \cup {Len(s) + 1}
      BY <3>1
    <3> QED
      BY <1>6, <2>1, <3>1, <3>2, RelayedWire
  <2>4. ASSUME NEW p \in Pages, NEW m, OnWire(p, m)'
        PROVE OnWire(p, m) \/ m = n
    BY <2>1, <2>2, <2>3, <2>4 DEF OnWire
  <2>5. ASSUME NEW q \in relays' PROVE RelayOK(q)'
    <3>1. q \in relays /\ q.comment.id # n /\ RelayOK(q)
          /\ q.comment.doc \in Docs
      BY <1>1, <2>1, <2>2 DEF WayInv, RelayOK, TInv, CTypes, Relayed, Comment
    <3> QED
      BY <1>1, <1>2, <2>4, <3>1 DEF RelayOK, Known, SameMade
  <2>6. ASSUME NEW b \in calls' PROVE CallOK(b)'
    <3>1. CallOK(b) /\ b \in calls /\ b.doc \in Docs /\ posts' = posts
      BY <1>1, CallTypes DEF WayInv, TInv
    <3>2. b.kind = "post" => PostOK(b)'
      BY <1>1, <1>2, <2>1, <2>4, <3>1 DEF CallOK, PostOK, SameMade
    <3>3. b.kind = "fetch" => FetchOK(b)'
      BY <1>1, <3>1 DEF CallOK, FetchOK
    <3>4. b.pc = "served" => ServedOK(b)'
      BY <1>2, <3>1 DEF CallOK, ServedOK, SameMade
    <3> QED
      BY <1>4, <3>2, <3>3, <3>4 DEF CallOK, Waited
  <2>7. ASSUME NEW p \in Pages PROVE WireOK(p)'
    <3>1. CASE wire'[p] = wire[p]
      BY <1>2, <3>1, SameWire, WireKept
    <3>2. CASE wire'[p] # wire[p]
      <4>1. \A i \in 1..Len(wire[p]) :
              IsComment(wire[p][i]) => wire[p][i].comment.id # n
        BY <2>1, <2>2 DEF RelayOK, OnWire
      <4>2. \A i \in 1..Len(wire[p]) : IsComment(wire[p][i]) =>
              Known(wire[p][i].comment) /\ wire[p][i].comment.doc \in Docs
        BY HeadComment DEF WayInv, WireOK
      <4>3. ASSUME NEW i \in 1..Len(wire'[p]), IsComment(wire'[p][i]),
                   NEW x, x = wire'[p][i].comment
            PROVE Known(x)' /\ \A j \in 1..Len(wire'[p]) :
                    IsComment(wire'[p][j]) /\ wire'[p][j].comment.id = x.id
                      => j = i
        <5>1. CASE i = Len(wire[p]) + 1
          <6>1. x = r.comment
            BY <2>2, <2>3, <3>2, <4>3, <5>1
          <6>2. Known(x)'
            BY <1>2, <2>2, <6>1 DEF RelayOK, Known, SameMade
          <6> QED
            BY <2>1, <2>3, <3>2, <4>1, <5>1, <6>1, <6>2
        <5>2. CASE i \in 1..Len(wire[p])
          <6>1. x = wire[p][i].comment /\ IsComment(wire[p][i])
            BY <2>3, <3>2, <4>3, <5>2
          <6>2. Known(x)'
            BY <1>2, <4>2, <5>2, <6>1 DEF Known, SameMade
          <6>3. \A j \in 1..Len(wire[p]) :
                  IsComment(wire[p][j]) /\ wire[p][j].comment.id = x.id => j = i
            BY <5>2, <6>1 DEF WayInv, WireOK
          <6>4. x.id # n
            BY <4>1, <5>2, <6>1
          <6>5. ASSUME NEW j \in 1..Len(wire'[p]), IsComment(wire'[p][j]),
                       wire'[p][j].comment.id = x.id
                PROVE j = i
            <7>1. CASE j = Len(wire[p]) + 1
              BY <2>1, <2>2, <2>3, <3>2, <6>4, <6>5, <7>1
            <7>2. CASE j \in 1..Len(wire[p])
              BY <2>3, <3>2, <6>3, <6>5, <7>2
            <7> QED
              BY <2>3, <3>2, <7>1, <7>2
          <6> QED
            BY <6>2, <6>5
        <5> QED
          BY <2>3, <3>2, <4>3, <5>1, <5>2
      <4> QED
        BY <4>3 DEF WireOK, Known, Made
    <3> QED
      BY <3>1, <3>2
  <2> QED
    BY <1>2, <1>3, <2>5, <2>6, <2>7 DEF WayInv
<1> QED
  BY <1>5, <1>6

\* A new comment is put before the others.
LEMMA PutFirst ==
  ASSUME NEW x \in Comment, NEW s \in Seq(Comment)
  PROVE /\ <<x>> \o s \in Seq(Comment) /\ 1 \in DOMAIN (<<x>> \o s)
        /\ (<<x>> \o s)[1] = x
        /\ \A i \in DOMAIN s :
             i + 1 \in DOMAIN (<<x>> \o s) /\ (<<x>> \o s)[i + 1] = s[i]
        /\ \A i \in DOMAIN (<<x>> \o s) :
             \/ i = 1
             \/ i - 1 \in DOMAIN s /\ (<<x>> \o s)[i] = s[i - 1] /\ i \in Nat
  OBVIOUS

LEMMA ServedPost ==
  ASSUME TInv, WayInv, NEW c \in calls, Serve(c), c.kind = "post"
  PROVE /\ DbOK'
        /\ \A d \in Docs : \A n :
             /\ Made(d, n)' <=> Made(d, n) \/ (d = c.doc /\ n = c.id)
             /\ Recent(d, n)' => Recent(d, n) \/ (d = c.doc /\ n = c.id)
        /\ \A d \in Docs : \A x : Held(d, x) => Held(d, x)'
        /\ Held(c.doc, MadeBy(c))'
        /\ \A d \in Docs : \A x :
             Held(d, x)' => Held(d, x) \/ (d = c.doc /\ x = MadeBy(c))
<1>1. /\ c.doc \in Docs /\ c.id \in 1..MaxPosts /\ db \in [Docs -> Seq(Comment)]
      /\ \A d \in Docs : ~Made(d, c.id)
      /\ c.id <= posts
      /\ db' = [db EXCEPT ![c.doc] = <<MadeBy(c)>> \o db[c.doc]]
      /\ posts' = posts
  <2>1. c.pc = "sent" /\ posts' = posts
        /\ db' = [db EXCEPT ![c.doc] = <<MadeBy(c)>> \o db[c.doc]]
    BY ServeCases DEF IsTouch, commentCounts
  <2> QED
    BY <2>1, CallTypes DEF TInv, CTypes, WayInv, CallOK, PostOK
<1>2. PICK x, s : x = MadeBy(c) /\ s = db[c.doc]
  OBVIOUS
<1>3. x \in Comment /\ s \in Seq(Comment) /\ x.id = c.id /\ x.doc = c.doc
  <2>1. 0 \in 0..MaxTouches
    BY CommentBoundsAreNumbers
  <2> QED
    BY <1>1, <1>2, <2>1 DEF MadeBy, Comment
<1>4. PICK t : t = <<x>> \o s
  OBVIOUS
<1>t. /\ 1 \in DOMAIN t /\ t[1] = x
      /\ \A i \in DOMAIN s : i + 1 \in DOMAIN t /\ t[i + 1] = s[i]
      /\ \A i \in DOMAIN t :
           \/ i = 1
           \/ i - 1 \in DOMAIN s /\ t[i] = s[i - 1] /\ i \in Nat
  BY <1>3, <1>4, PutFirst
<1>d. \A d \in Docs : db'[d] = IF d = c.doc THEN t ELSE db[d]
  BY <1>1, <1>2, <1>4
<1>5. ASSUME NEW d \in Docs, NEW i \in DOMAIN db'[d]
      PROVE \/ d = c.doc /\ i = 1 /\ db'[d][i] = x
            \/ /\ d = c.doc /\ i - 1 \in DOMAIN db[d] /\ i \in Nat
               /\ db'[d][i] = db[d][i - 1]
            \/ d # c.doc /\ i \in DOMAIN db[d] /\ db'[d][i] = db[d][i]
  BY <1>2, <1>t, <1>d
<1>6. ASSUME NEW d \in Docs, NEW i \in DOMAIN db[d]
      PROVE \E j \in DOMAIN db'[d] : db'[d][j] = db[d][i]
  BY <1>2, <1>t, <1>d
<1>7. \E j \in DOMAIN db'[c.doc] : db'[c.doc][j] = x
  BY <1>1, <1>t, <1>d
<1>8. DbOK'
  <2>1. ASSUME NEW d \in Docs, NEW i \in DOMAIN db'[d]
        PROVE db'[d][i].doc = d /\ db'[d][i].id <= posts'
    BY <1>1, <1>3, <1>5 DEF WayInv, DbOK
  <2>2. ASSUME NEW d \in Docs, NEW i \in DOMAIN db'[d],
               NEW e \in Docs, NEW j \in DOMAIN db'[e],
               db'[e][j].id = db'[d][i].id
        PROVE e = d /\ j = i
    <3>1. \A a \in Docs : \A k \in DOMAIN db[a] : db[a][k].id # c.id
      BY <1>1 DEF Made
    <3>2. \A a \in Docs : \A k \in DOMAIN db[a] : \A b \in Docs :
            \A l \in DOMAIN db[b] :
              db[b][l].id = db[a][k].id => b = a /\ l = k
      BY DEF WayInv, DbOK
    <3>6. ASSUME NEW a \in Docs, NEW k \in DOMAIN db'[a], db'[a][k].id = c.id
          PROVE a = c.doc /\ k = 1
      BY <1>5, <3>1, <3>6
    <3>7. db'[c.doc][1].id = c.id
      BY <1>1, <1>3, <1>t, <1>d
    <3>3. CASE d = c.doc /\ i = 1
      BY <2>2, <3>3, <3>6, <3>7
    <3>4. CASE e = c.doc /\ j = 1
      BY <2>2, <3>4, <3>6, <3>7
    <3>5. CASE ~(d = c.doc /\ i = 1) /\ ~(e = c.doc /\ j = 1)
      <4>1. PICK k \in DOMAIN db[d] :
              /\ db[d][k] = db'[d][i]
              /\ d = c.doc => i \in Nat /\ k = i - 1
              /\ d # c.doc => k = i
        BY <1>5, <3>5
      <4>2. PICK l \in DOMAIN db[e] :
              /\ db[e][l] = db'[e][j]
              /\ e = c.doc => j \in Nat /\ l = j - 1
              /\ e # c.doc => l = j
        BY <1>5, <3>5
      <4>3. d = e /\ k = l
        BY <2>2, <3>2, <4>1, <4>2
      <4>4. \A a, b \in Nat : a - 1 = b - 1 => a = b
        OBVIOUS
      <4> QED
        BY <4>1, <4>2, <4>3, <4>4
    <3> QED
      BY <3>3, <3>4, <3>5
  <2> QED
    BY <2>1, <2>2 DEF DbOK
<1>9. \A d \in Docs : \A n :
        Made(d, n)' <=> Made(d, n) \/ (d = c.doc /\ n = c.id)
  <2> SUFFICES ASSUME NEW d \in Docs, NEW n
               PROVE Made(d, n)' <=> Made(d, n) \/ (d = c.doc /\ n = c.id)
    OBVIOUS
  <2>1. Made(d, n)' => Made(d, n) \/ (d = c.doc /\ n = c.id)
    BY <1>3, <1>5 DEF Made
  <2>2. Made(d, n) => Made(d, n)'
    <3>1. ASSUME NEW i \in DOMAIN db[d], db[d][i].id = n PROVE Made(d, n)'
      BY <1>6, <3>1 DEF Made
    <3> QED
      BY <3>1 DEF Made
  <2>3. d = c.doc /\ n = c.id => Made(d, n)'
    BY <1>3, <1>7 DEF Made
  <2> QED
    BY <2>1, <2>2, <2>3
<1>10. /\ \A d \in Docs : \A y : Held(d, y) => Held(d, y)'
       /\ Held(c.doc, MadeBy(c))'
  <2>1. ASSUME NEW d \in Docs, NEW i \in DOMAIN db[d], NEW y, db[d][i] = y
        PROVE Held(d, y)'
    <3>1. \E j \in DOMAIN db'[d] : db'[d][j] = y
      BY <1>6, <2>1
    <3> QED
      BY <3>1 DEF Held, ToSet
  <2>2. Held(c.doc, MadeBy(c))'
    BY <1>2, <1>7 DEF Held, ToSet, MadeBy
  <2> QED
    BY <2>1, <2>2 DEF Held, ToSet
<1>11. \A d \in Docs : \A y :
         Held(d, y)' => Held(d, y) \/ (d = c.doc /\ y = MadeBy(c))
  BY <1>2, <1>5 DEF Held, ToSet
<1>12. ASSUME NEW d \in Docs, NEW n, Recent(d, n)'
       PROVE Recent(d, n) \/ (d = c.doc /\ n = c.id)
  <2>1. PICK i \in DOMAIN db'[d] : i <= Limit /\ db'[d][i].id = n
    BY <1>12 DEF Recent
  <2>2. CASE d = c.doc /\ i = 1 /\ db'[d][i] = x
    BY <1>3, <2>1, <2>2
  <2>3. CASE /\ d = c.doc /\ i - 1 \in DOMAIN db[d] /\ i \in Nat
             /\ db'[d][i] = db[d][i - 1]
    <3>1. i - 1 <= Limit
      BY <2>1, <2>3, LimitIsPositive
    <3> QED
      BY <2>1, <2>3, <3>1 DEF Recent
  <2>4. CASE d # c.doc /\ i \in DOMAIN db[d] /\ db'[d][i] = db[d][i]
    BY <2>1, <2>4 DEF Recent
  <2> QED
    BY <1>5, <2>2, <2>3, <2>4
<1> QED
  BY <1>8, <1>9, <1>10, <1>11, <1>12

\* The request c has changed the k-th comment of its document to y.
TouchedIn(c, k, y) ==
  /\ k \in DOMAIN db[c.doc] /\ db[c.doc][k].id = c.id
  /\ y = Touched(db[c.doc][k], c.kind)
  /\ db' = [db EXCEPT ![c.doc] = Update(db[c.doc], c.id, y)]

\* A reply or a resolution changes one comment, and no id.
LEMMA ServedTouch ==
  ASSUME TInv, WayInv, NEW c \in calls, Serve(c), IsTouch(c),
         NEW k, NEW y, TouchedIn(c, k, y)
  PROVE /\ DbOK' /\ SameMade /\ y.id = c.id /\ y.doc = c.doc
        /\ y \in Comment /\ k \in DOMAIN db'[c.doc] /\ db'[c.doc][k] = y
        /\ \A d \in Docs : /\ DOMAIN db'[d] = DOMAIN db[d]
                           /\ \A i \in DOMAIN db[d] : db'[d][i] =
                                IF d = c.doc /\ db[d][i].id = c.id THEN y
                                ELSE db[d][i]
        /\ \A d \in Docs : \A x :
             Held(d, x)' <=> \/ d = c.doc /\ x = y
                             \/ Held(d, x) /\ (d = c.doc => x.id # c.id)
<1>0. /\ k \in DOMAIN db[c.doc] /\ db[c.doc][k].id = c.id
      /\ y = Touched(db[c.doc][k], c.kind)
      /\ db' = [db EXCEPT ![c.doc] = Update(db[c.doc], c.id, y)]
  BY DEF TouchedIn
<1>1. /\ c.doc \in Docs /\ db \in [Docs -> Seq(Comment)]
      /\ db[c.doc][k] \in Comment /\ db[c.doc][k].doc = c.doc
      /\ db[c.doc][k].replies \in Nat
  BY <1>0, CallTypes, DbTypes DEF TInv, CTypes, WayInv, DbOK
<1>2. y \in Comment /\ y.id = c.id /\ y.doc = c.doc
  <2>1. c.kind = "reply" => db[c.doc][k].replies < MaxTouches
    <3>1. db[c.doc][k].replies + Cardinality(Pending) <= touches
          /\ touches \in 0..MaxTouches /\ MaxTouches \in Nat
      BY <1>0, <1>1, CommentBoundsAreNumbers DEF TInv, CTypes, RepliesFit
    <3>2. IsFiniteSet(Pending) /\ Cardinality(Pending) \in Nat
      BY PendingIsFinite DEF TInv
    <3>3. c.kind = "reply" => Cardinality(Pending) >= 1
      <4>1. SUFFICES ASSUME c.kind = "reply" PROVE Cardinality(Pending) # 0
        BY <3>2
      <4>2. c \in Pending
        BY <4>1, ServeCases DEF Pending
      <4> QED
        BY <3>2, <4>2, FS_EmptySet
    <3> QED
      BY <1>1, <3>1, <3>2, <3>3
  <2> QED
    BY <1>0, <1>1, <2>1, TouchedTypes DEF IsTouch
<1>3. \A d \in Docs :
        /\ DOMAIN db'[d] = DOMAIN db[d]
        /\ \A i \in DOMAIN db[d] :
             db'[d][i] = IF d = c.doc /\ db[d][i].id = c.id THEN y ELSE db[d][i]
  BY <1>0, <1>1, <1>2, UpdateTypes
<1>4. \A d \in Docs : \A i \in DOMAIN db[d] :
        db'[d][i].id = db[d][i].id /\ db'[d][i].doc = db[d][i].doc
  BY <1>2, <1>3 DEF WayInv, DbOK
<1>5. posts' = posts
  BY ServeCases DEF commentCounts
<1>6. DbOK'
  BY <1>3, <1>4, <1>5 DEF WayInv, DbOK
<1>7. SameMade
  BY <1>3, <1>4 DEF SameMade, Made, Recent
<1>8. k \in DOMAIN db'[c.doc] /\ db'[c.doc][k] = y
  BY <1>0, <1>1, <1>3
<1>9. ASSUME NEW d \in Docs, NEW x
      PROVE Held(d, x)' <=> \/ d = c.doc /\ x = y
                            \/ Held(d, x) /\ (d = c.doc => x.id # c.id)
  <2>1. Held(d, x)' <=> \E i \in DOMAIN db'[d] : db'[d][i] = x
    BY DEF Held, ToSet
  <2>2. Held(d, x) <=> \E i \in DOMAIN db[d] : db[d][i] = x
    BY DEF Held, ToSet
  <2> QED
    BY <1>2, <1>3, <1>8, <2>1, <2>2
<1> QED
  BY <1>2, <1>3, <1>6, <1>7, <1>8, <1>9

\* What a request that was served has got.
LEMMA AnswerOf ==
  ASSUME NEW c, NEW pc, NEW data, NEW b, b = Answer(c, pc, data)
  PROVE /\ b.page = c.page /\ b.doc = c.doc /\ b.kind = c.kind /\ b.id = c.id
        /\ b.mine = c.mine /\ b.pc = pc /\ b.data = data
  BY DEF Answer

LEMMA WayServe ==
  ASSUME TInv, WayInv, NEW c \in calls, Serve(c) PROVE WayInv'
<1>1. c.pc = "sent" /\ UNCHANGED <<presenceVars, side, relays, posts>>
      /\ c.doc \in Docs /\ c.page \in Pages /\ CallOK(c)
  BY ServeCases, CallTypes DEF commentCounts, TInv, WayInv
<1>2. /\ tab' = tab /\ wire' = wire /\ posts' \in Nat /\ posts' >= posts
      /\ \A p \in Pages : Embeds(p)
  BY <1>1, SameWire, PostsGrow DEF presenceVars
<1>3. ASSUME NEW b, NEW pc \in {"served", "failed"}, NEW data,
             b = Answer(c, pc, data),
             calls' \subseteq (calls \ {c}) \cup {b}, SameMade, DbOK',
             pc = "served" => c.kind # "post" /\ ServedOK(b)'
      PROVE WayInv'
  <2>1. /\ b.page = c.page /\ b.doc = c.doc /\ b.kind = c.kind /\ b.id = c.id
        /\ b.mine = c.mine /\ b.pc = pc /\ b.data = data
    BY <1>3, AnswerOf
  <2>2. Unique' /\ \A a \in calls' : Waited(a)
    BY <1>1, <1>2, <1>3, <2>1, Replaced
  <2>3. From(b, c)
    BY <1>3, <2>1 DEF From
  <2>4. \A a \in calls' : \E d \in calls : From(a, d)
    BY <1>3, <2>3, StillFrom
  <2>5. \A p \in Pages : SideOK(p)'
    BY <1>1, <1>2, <1>3, SideStays DEF WayInv, SideOK
  <2> QED
    BY <1>1, <1>2, <1>3, <2>2, <2>4, <2>5, WayQuiet
<1>4. CASE /\ c.kind = "fetch" /\ db' = db
           /\ Became(c, Answer(c, "served", Fetched(c.doc)))
  <2>1. PICK b : b = Answer(c, "served", Fetched(c.doc))
    OBVIOUS
  <2>2. b.kind = "fetch" /\ b.doc = c.doc /\ b.data = Fetched(c.doc)
    BY <1>4, <2>1, AnswerOf
  <2>5. \A i \in DOMAIN b.data :
          i \in DOMAIN db[c.doc] /\ b.data[i] = db[c.doc][i]
    BY <1>1, <2>2, DbTypes, NewestAre DEF Fetched, TInv
  <2>3. DbOK' /\ SameMade
    BY <1>2, <1>4, DbStays
  <2>4. ServedOK(b)'
    BY <1>1, <1>4, <2>2, <2>5 DEF ServedOK, Made, WayInv, DbOK
  <2> QED
    BY <1>3, <1>4, <2>1, <2>3, <2>4 DEF Became
<1>5. ASSUME IsTouch(c), NEW k \in DOMAIN db[c.doc], db[c.doc][k].id = c.id,
             db' = [db EXCEPT ![c.doc] =
                      Update(db[c.doc], c.id, Touched(db[c.doc][k], c.kind))],
             Became(c, Answer(c, "served", <<Touched(db[c.doc][k], c.kind)>>))
      PROVE WayInv'
  <2>1. PICK y : y = Touched(db[c.doc][k], c.kind)
    OBVIOUS
  <2>2. PICK b : b = Answer(c, "served", <<y>>)
    OBVIOUS
  <2>3. /\ DbOK' /\ SameMade /\ y.id = c.id /\ y.doc = c.doc
        /\ k \in DOMAIN db'[c.doc] /\ db'[c.doc][k] = y
    <3>1. TouchedIn(c, k, y)
      BY <1>5, <2>1 DEF TouchedIn
    <3> QED
      BY <1>5, <3>1, ServedTouch
  <2>4. b.doc = c.doc /\ b.id = c.id /\ b.data = <<y>>
    BY <2>2, AnswerOf
  <2>5. ServedOK(b)'
    <3>1. \A i \in DOMAIN <<y>> : <<y>>[i] = y
      OBVIOUS
    <3> QED
      BY <2>3, <2>4, <3>1 DEF ServedOK, Made
  <2> QED
    BY <1>3, <1>5, <2>1, <2>2, <2>3, <2>5 DEF Became, IsTouch
<1>6. CASE /\ IsTouch(c) /\ ~Made(c.doc, c.id) /\ db' = db
           /\ calls' = (calls \ {c}) \cup {Answer(c, "failed", c.data)}
  <2>1. DbOK' /\ SameMade
    BY <1>2, <1>6, DbStays
  <2>2. PICK b : b = Answer(c, "failed", c.data)
    OBVIOUS
  <2> QED
    BY <1>3, <1>6, <2>1, <2>2
<1>7. CASE c.kind = "post" /\ Became(c, Answer(c, "served", <<MadeBy(c)>>))
  <2>1. PICK b : b = Answer(c, "served", <<MadeBy(c)>>)
    OBVIOUS
  <2>2. /\ b.page = c.page /\ b.doc = c.doc /\ b.kind = "post" /\ b.id = c.id
        /\ b.mine = c.mine /\ b.pc = "served" /\ b.data = <<MadeBy(c)>>
        /\ calls' = (calls \ {c}) \cup {b}
    BY <1>7, <2>1, AnswerOf DEF Became
  <2>3. /\ DbOK' /\ MoreMade
        /\ \A d \in Docs : \A n :
             Made(d, n)' <=> Made(d, n) \/ (d = c.doc /\ n = c.id)
    BY <1>7, ServedPost DEF MoreMade
  <2>4. Unique' /\ \A a \in calls' : Waited(a)
    BY <1>1, <1>2, <1>7, <2>2, Replaced
  <2>5. \A p \in Pages : \A n : OnWire(p, n)' = OnWire(p, n)
    BY <1>2 DEF OnWire
  <2>6. ASSUME NEW a \in calls' PROVE CallOK(a)'
    <3>1. a \in calls \/ a = b
      BY <2>2
    <3>2. a.kind = "fetch" => FetchOK(a)'
      BY <2>4 DEF Waited, Unique, FetchOK
    <3>3. a.kind = "post" => PostOK(a)'
      BY <1>1, <1>7, <2>2, <2>3, <2>4, <2>5, <3>1
      DEF WayInv, CallOK, PostOK, Unique
    <3>4. a.pc = "served" => ServedOK(a)'
      <4>1. ASSUME a = b PROVE ServedOK(a)'
        <5>1. \A i \in DOMAIN <<MadeBy(c)>> : <<MadeBy(c)>>[i] = MadeBy(c)
          OBVIOUS
        <5>2. MadeBy(c).id = c.id /\ MadeBy(c).doc = c.doc
          BY DEF MadeBy
        <5> QED
          BY <1>1, <2>2, <2>3, <4>1, <5>1, <5>2 DEF ServedOK
      <4>2. ASSUME a \in calls, a.pc = "served" PROVE ServedOK(a)'
        BY <2>3, <4>2, CallTypes DEF WayInv, CallOK, ServedOK, MoreMade, TInv
      <4> QED
        BY <3>1, <4>1, <4>2
    <3> QED
      BY <2>4, <3>2, <3>3, <3>4 DEF CallOK, Waited
  <2>7. \A r \in relays' : RelayOK(r)'
    BY <1>1, <1>2, <2>3, RelayKept
  <2>8. \A p \in Pages : WireOK(p)' /\ SideOK(p)'
    BY <1>1, <1>2, <2>3, WireKept, SideKept DEF WayInv, SideOK
  <2> QED
    BY <2>3, <2>6, <2>7, <2>8 DEF WayInv
<1> QED
  BY <1>4, <1>5, <1>6, <1>7, ServeCases

LEMMA WayNext ==
  ASSUME TInv, WayInv, [Next]_vars PROVE WayInv'
<1>1. CASE UNCHANGED vars
  BY <1>1 DEF vars, presenceVars, commentCounts, WayInv, DbOK, CallOK, FetchOK,
              PostOK, ServedOK, RelayOK, WireOK, SideOK, Made, Known, OnWire
<1>2. CASE Next
  BY <1>2, WayPresence, WayOpen, WayClose, WayPost, WayTouch, WayReceive,
     WayServe, WayFails, WayAnswered, WayRefused, WayRelay DEF Next
<1> QED
  BY <1>1, <1>2
-----------------------------------------------------------------------------
(* A sidebar that follows keeps what it has and what it waits for.         *)

\* The list of p may be other comments, but the same ids.
SameList(p) ==
  /\ DOMAIN side'[p].list = DOMAIN side[p].list
  /\ \A i \in DOMAIN side[p].list :
       /\ side'[p].list[i].id = side[p].list[i].id
       /\ side'[p].list[i].doc = side[p].list[i].doc

\* What a following sidebar waits for goes on; no comment is made that its
\* fetch may miss.
CallsKept(p) ==
  /\ Fetching(p)' <=> Fetching(p)
  /\ \A b \in calls' : b.kind = "post" =>
       \/ \E c \in calls :
            /\ c.kind = "post" /\ c.id = b.id
            /\ c.doc = b.doc /\ c.page = b.page
            /\ b.page = p /\ c.mine => b.mine
            /\ b.pc = "served" => c.pc = "served"
       \/ b.pc = "sent" /\ b.mine /\ (Fetching(p) => b.doc # tab[p].doc)
  /\ \A c \in calls : c.kind = "post" /\ c.pc = "served" =>
       \E b \in calls' : b.kind = "post" /\ b.pc = "served" /\ b.id = c.id
  /\ \A b \in calls' :
       b.kind = "fetch" /\ b.page = p /\ b.pc = "served" => b \in calls

LEMMA FetchesAreMine ==
  ASSUME TInv, WayInv, NEW c \in calls, c.kind = "fetch"
  PROVE /\ c.mine /\ c.page \in Pages /\ side[c.page].open
        /\ c.doc = tab[c.page].doc /\ c.doc \in Docs /\ Fetching(c.page)
        /\ \A b \in calls : b.kind = "fetch" /\ b.page = c.page => b = c
  BY CallTypes DEF TInv, WayInv, CallOK, FetchOK, Fetching

LEMMA OpenTypes ==
  ASSUME TInv, NEW p \in Pages, side[p].open
  PROVE Shows(p) /\ tab[p].doc \in Docs
  BY DEF TInv, CTypes, PInv, TabsAreRight, TabOK

\* What a sidebar shows of its document was made there.
LEMMA OwnMade ==
  ASSUME TInv, WayInv, NEW p \in Pages, NEW i \in Own(p)
  PROVE Made(tab[p].doc, side[p].list[i].id)
  BY DEF Own, WayInv, SideOK, Known

LEMMA OneDocOnly ==
  ASSUME WayInv, NEW d \in Docs, NEW e \in Docs, NEW n, Made(d, n), Made(e, n)
  PROVE d = e
  BY DEF WayInv, DbOK, Made

\* What is on a wire and of which document.
LEMMA OnWireKnown ==
  ASSUME TInv, WayInv, NEW p \in Pages, NEW i \in 1..Len(wire[p]),
         IsComment(wire[p][i])
  PROVE /\ wire[p][i].comment.doc \in Docs
        /\ Made(wire[p][i].comment.doc, wire[p][i].comment.id)
  BY HeadComment DEF WayInv, WireOK, Known

LEMMA RecentIsMade ==
  ASSUME NEW d, NEW n, Recent(d, n) PROVE Made(d, n)
  BY DEF Recent, Made

LEMMA HasKept ==
  ASSUME TInv, WayInv, NEW p \in Pages, HasFetched(p), SameList(p),
         tab'[p].doc = tab[p].doc,
         \A b \in calls' :
           b.kind = "post" /\ b.page = p /\ b.doc = tab[p].doc => b.mine,
         \A n : Made(tab[p].doc, n) => (Coming(p, n)' <=> Coming(p, n)),
         \A n : Recent(tab[p].doc, n)' =>
                  Recent(tab[p].doc, n) \/ Coming(p, n)'
  PROVE HasFetched(p)'
<1>1. Own(p)' = Own(p)
  BY DEF Own, SameList
<1>2. \A i \in Own(p) : /\ side'[p].list[i].id = side[p].list[i].id
                        /\ Made(tab[p].doc, side[p].list[i].id)
  BY OwnMade DEF Own, SameList
<1>3. \A n : Listed(p, n)' <=> Listed(p, n)
  BY <1>1, <1>2 DEF Listed
<1>4. \A i \in Own(p)' :
        /\ ~Coming(p, side[p].list[i].id)'
        /\ \A j \in Own(p)' : side'[p].list[j].id = side'[p].list[i].id => j = i
  BY <1>1, <1>2 DEF HasFetched
<1>5. \A n \in 1..MaxPosts :
        Recent(tab[p].doc, n)' => Listed(p, n)' \/ Coming(p, n)'
  BY <1>3, RecentIsMade DEF HasFetched
<1>6. \A c \in calls' :
        c.kind = "post" /\ c.page = p /\ c.doc = tab'[p].doc => c.mine
  OBVIOUS
<1> QED
  BY <1>4, <1>5, <1>6 DEF HasFetched

LEMMA ComingKept ==
  ASSUME TInv, NEW p \in Pages, CallsKept(p), Conn(p)' = Conn(p), Embeds(p),
         Keeps(p), relays' = relays, NEW n
  PROVE Coming(p, n)' <=> Coming(p, n)
<1>1. OnWire(p, n)' => OnWire(p, n)
  BY EmbedsOnWire
<1>2. OnWire(p, n) => OnWire(p, n)'
  BY DEF OnWire, Keeps
<1>3. (\E c \in calls' : c.kind = "post" /\ c.pc = "served" /\ c.id = n)
        <=> (\E c \in calls : c.kind = "post" /\ c.pc = "served" /\ c.id = n)
  BY DEF CallsKept
<1> QED
  BY <1>1, <1>2, <1>3 DEF Coming

LEMMA AwaitsKept ==
  ASSUME TInv, NEW p \in Pages, Awaits(p), tab'[p].doc = tab[p].doc, Embeds(p),
         \A r \in relays' : r.comment.doc # tab[p].doc,
         \A b \in calls' : b.kind = "post" => b.doc # tab[p].doc,
         \A b \in calls' :
           b.kind = "fetch" /\ b.page = p /\ b.pc = "served" => FetchTold(b)'
  PROVE Awaits(p)'
  BY DEF Awaits, Embeds

LEMMA ToldKept ==
  ASSUME NEW c, FetchTold(c), \A n : Recent(c.doc, n)' => Recent(c.doc, n)
  PROVE FetchTold(c)'
  BY DEF FetchTold

LEMMA FollowStays ==
  ASSUME TInv, WayInv, NEW p \in Pages, FollowOK(p), Follows(p),
         tab'[p].doc = tab[p].doc, Conn(p)' = Conn(p), SameList(p),
         Embeds(p), Keeps(p), relays' = relays, CallsKept(p), SameMade
  PROVE FollowOK(p)'
<1>0. tab[p].doc \in Docs
  BY OpenTypes DEF Follows
<1>1. CASE Fetching(p)
  <2>1. Awaits(p)
    BY <1>1 DEF FollowOK
  <2>2. ASSUME NEW b \in calls', b.kind = "fetch", b.page = p, b.pc = "served"
        PROVE FetchTold(b)'
    <3>1. b \in calls /\ FetchTold(b) /\ b.doc \in Docs
      BY <2>1, <2>2, CallTypes DEF Awaits, CallsKept, TInv
    <3> QED
      BY <3>1, ToldKept DEF SameMade
  <2>3. Awaits(p)'
    BY <1>1, <2>1, <2>2, AwaitsKept DEF CallsKept, Awaits
  <2> QED
    BY <1>1, <2>3 DEF FollowOK, CallsKept
<1>2. CASE ~Fetching(p)
  <2>1. HasFetched(p)
    BY <1>2 DEF FollowOK
  <2>2. \A b \in calls' :
          b.kind = "post" /\ b.page = p /\ b.doc = tab[p].doc => b.mine
    BY <2>1 DEF HasFetched, CallsKept
  <2>3. \A n : Coming(p, n)' <=> Coming(p, n)
    BY ComingKept
  <2>4. \A n : Recent(tab[p].doc, n)' => Recent(tab[p].doc, n)
    <3>1. PICK d \in Docs : d = tab[p].doc
      BY <1>0
    <3>2. \A n : Recent(d, n)' => Recent(d, n)
      BY <3>1 DEF SameMade
    <3> QED
      BY <3>1, <3>2 DEF Recent
  <2>5. HasFetched(p)'
    BY <2>1, <2>2, <2>3, <2>4, HasKept
  <2> QED
    BY <1>2, <2>5 DEF FollowOK, CallsKept
<1> QED
  BY <1>1, <1>2

\* Nothing moves but requests and lists.
LEMMA PresenceSame ==
  ASSUME TInv, UNCHANGED presenceVars, NEW p \in Pages
  PROVE /\ tab' = tab /\ Conn(p)' = Conn(p) /\ Embeds(p) /\ Keeps(p)
        /\ Connected(p)' <=> Connected(p)
<1>1. tab' = tab /\ wire' = wire /\ current' = current
  BY DEF presenceVars
<1> QED
  BY <1>1, SameWire DEF Conn, Connected, Shows

LEMMA FollowIdle ==
  ASSUME TInv, WayInv, FollowInv, UNCHANGED <<presenceVars, db, relays>>,
         NEW p \in Pages, Follows(p), CallsKept(p), SameList(p)
  PROVE FollowOK(p)'
<1>1. SameMade /\ FollowOK(p)
  BY DEF SameMade, Made, Recent, FollowInv
<1> QED
  BY <1>1, PresenceSame, FollowStays

\* Who follows after a step of the rooms has followed before, and lost nothing.
LEMMA PresenceFollows ==
  ASSUME TInv, WayInv, PresenceStep, NEW p \in Pages, Follows(p)'
  PROVE /\ tab'[p].at = "open" /\ side'[p] = side[p] /\ Follows(p)
        /\ tab'[p].doc = tab[p].doc /\ Conn(p)' = Conn(p)
        /\ Keeps(p) /\ Embeds(p)
<1> DEFINE left == {q \in Pages : tab'[q].at # "open"}
<1>1. /\ side' = [q \in Pages |-> IF q \in left THEN Folded ELSE side[q]]
      /\ UNCHANGED <<db, relays, complete>>
  BY DEF PresenceStep
<1>2. PresenceEffect(p)
  BY PresenceEffects DEF PresenceStep
<1>3. p \notin left /\ side'[p] = side[p] /\ side[p].open /\ ~side[p].overtaken
  BY <1>1 DEF Follows, Folded
<1>4. Shows(p) /\ Shows(p)'
  BY <1>3, OpenTypes DEF Shows
<1> HIDE DEF left
<1>5. tab[p].on # None
  BY <1>3 DEF WayInv, SideOK
<1>6. /\ tab'[p].doc = tab[p].doc /\ Connected(p) /\ Conn(p)' = Conn(p)
      /\ Keeps(p) /\ Embeds(p)
  BY <1>2, <1>4, <1>5 DEF PresenceEffect, Follows
<1> QED
  BY <1>1, <1>3, <1>4, <1>6 DEF Follows, Shows

LEMMA FollowPresence ==
  ASSUME TInv, WayInv, FollowInv, PresenceStep PROVE FollowInv'
<1> DEFINE left == {p \in Pages : tab'[p].at # "open"}
<1>1. /\ calls' = Orphaned(left)
      /\ UNCHANGED <<db, relays, complete>>
  BY DEF PresenceStep
<1> SUFFICES ASSUME NEW p \in Pages, Follows(p)' PROVE FollowOK(p)'
  BY DEF FollowInv, FollowOK
<1>2. /\ tab'[p].doc = tab[p].doc /\ Conn(p)' = Conn(p)
      /\ Keeps(p) /\ Embeds(p) /\ side'[p] = side[p]
  BY PresenceFollows
<1>3. Follows(p) /\ p \notin left
  BY PresenceFollows
<1> HIDE DEF left
<1>4. CallsKept(p)
  <2>1. \A b \in calls' : \E c \in calls : OrphanOf(b, c, left)
    BY <1>1, OrphanedAre DEF TInv
  <2>2. \A c \in calls :
          (c.page \in left => /\ c.kind # "fetch"
                              /\ \/ c.pc = "sent"
                                 \/ c.kind = "post" /\ c.pc = "served") =>
            \E b \in calls' : OrphanOf(b, c, left)
    BY <1>1, OrphanedAre DEF TInv
  <2>3. \A b \in calls' : b.page = p => b \in calls
    <3>1. ASSUME NEW b \in calls', NEW c \in calls, OrphanOf(b, c, left),
                 b.page = p
          PROVE b = c
      BY <1>3, <3>1, CallTypes DEF OrphanOf, TInv
    <3> QED
      BY <2>1, <3>1
  <2>4. \A b \in calls' : b.kind = "post" => \E c \in calls :
            /\ c.kind = "post" /\ c.id = b.id
            /\ c.doc = b.doc /\ c.page = b.page
            /\ b.page = p /\ c.mine => b.mine
            /\ b.pc = "served" => c.pc = "served"
    <3> SUFFICES ASSUME NEW b \in calls', b.kind = "post"
                 PROVE \E c \in calls :
            /\ c.kind = "post" /\ c.id = b.id
            /\ c.doc = b.doc /\ c.page = b.page
            /\ b.page = p /\ c.mine => b.mine
            /\ b.pc = "served" => c.pc = "served"
      OBVIOUS
    <3>1. PICK c \in calls : OrphanOf(b, c, left)
      BY <2>1
    <3> QED
      BY <1>3, <3>1 DEF OrphanOf
  <2>5. \A c \in calls : c.kind = "post" /\ c.pc = "served" =>
          \E b \in calls' : b.kind = "post" /\ b.pc = "served" /\ b.id = c.id
    BY <2>2 DEF OrphanOf
  <2>6. Fetching(p)' <=> Fetching(p)
    <3>1. ASSUME NEW c \in calls, c.kind = "fetch", c.page = p
          PROVE Fetching(p)'
      BY <1>3, <2>2, <3>1 DEF OrphanOf, Fetching
    <3> QED
      BY <2>3, <3>1 DEF Fetching
  <2> QED
    BY <2>3, <2>4, <2>5, <2>6 DEF CallsKept
<1>5. SameList(p) /\ SameMade /\ FollowOK(p)
  BY <1>1, <1>2 DEF SameList, SameMade, Made, Recent, FollowInv
<1> QED
  BY <1>1, <1>2, <1>3, <1>4, <1>5, FollowStays

\* One request more, and nothing that a sidebar that fetches may miss.
LEMMA OneMoreCall ==
  ASSUME NEW p \in Pages, NEW b, calls' = calls \cup {b}, b.pc = "sent",
         b.kind = "fetch" => b.page # p,
         b.kind = "post" => b.mine /\ (Fetching(p) => b.doc # tab[p].doc)
  PROVE CallsKept(p)
<1>1. Fetching(p)' <=> Fetching(p)
  BY DEF Fetching
<1> QED
  BY <1>1 DEF CallsKept

LEMMA FollowOpen ==
  ASSUME TInv, WayInv, FollowInv, NEW p \in Pages, OpenSidebar(p)
  PROVE FollowInv'
<1>0. PICK new : new = NewCall(p, "fetch", 0)
  OBVIOUS
<1>1. /\ calls' = calls \cup {new} /\ ~side[p].open
      /\ UNCHANGED <<presenceVars, db, relays, complete>>
  BY <1>0 DEF OpenSidebar
<1>2. /\ ~side'[p].overtaken => ~UnderWay(p, tab[p].doc)
      /\ \A q \in Pages \ {p} : side'[q] = side[q]
  BY DEF TInv, CTypes, OpenSidebar
<1>3. /\ new.kind = "fetch" /\ new.page = p /\ new.pc = "sent"
  BY <1>0 DEF NewCall
<1> SUFFICES ASSUME NEW q \in Pages, Follows(q)' PROVE FollowOK(q)'
  BY DEF FollowInv, FollowOK
<1>4. tab' = tab /\ wire' = wire /\ Connected(q)' = Connected(q)
  BY <1>1 DEF presenceVars, Connected, Shows
<1>5. CASE q = p
  <2>1. \A c \in calls : c.page = p => c.kind # "fetch"
    BY <1>1, FetchesAreMine
  <2>2. ~UnderWay(p, tab[p].doc)
    BY <1>2, <1>5 DEF Follows
  <2>3. Awaits(p)'
    BY <1>1, <1>3, <1>4, <2>1, <2>2 DEF UnderWay, Awaits, IsComment
  <2> QED
    BY <1>1, <1>3, <1>5, <2>3 DEF FollowOK, Fetching
<1>6. CASE q # p
  <2>1. Follows(q)
    BY <1>1, <1>2, <1>4, <1>6 DEF Follows
  <2>2. CallsKept(q) /\ SameList(q)
    BY <1>1, <1>2, <1>3, <1>6, OneMoreCall DEF SameList
  <2> QED
    BY <1>1, <2>1, <2>2, FollowIdle
<1> QED
  BY <1>5, <1>6

LEMMA FollowClose ==
  ASSUME TInv, WayInv, FollowInv, NEW p \in Pages, CloseSidebar(p)
  PROVE FollowInv'
<1>1. /\ calls' = Orphaned({p}) /\ side' = [side EXCEPT ![p] = Folded]
      /\ UNCHANGED <<presenceVars, db, relays, complete>>
  BY DEF CloseSidebar
<1> SUFFICES ASSUME NEW q \in Pages, Follows(q)' PROVE FollowOK(q)'
  BY DEF FollowInv, FollowOK
<1>2. q # p /\ side'[q] = side[q]
  BY <1>1 DEF TInv, CTypes, Folded, Follows
<1>3. Follows(q) /\ SameList(q)
  BY <1>1, <1>2, PresenceSame DEF Follows, SameList
<1>4. CallsKept(q)
  <2>1. \A b \in calls' : \E c \in calls : OrphanOf(b, c, {p})
    BY <1>1, OrphanedAre DEF TInv
  <2>2. \A c \in calls :
          (c.page = p => /\ c.kind # "fetch"
                         /\ \/ c.pc = "sent"
                            \/ c.kind = "post" /\ c.pc = "served") =>
            \E b \in calls' : OrphanOf(b, c, {p})
    BY <1>1, OrphanedAre DEF TInv
  <2>3. \A b \in calls' : b.page = q => b \in calls
    <3>1. ASSUME NEW b \in calls', NEW c \in calls, OrphanOf(b, c, {p}),
                 b.page = q
          PROVE b = c
      BY <1>2, <3>1, CallTypes DEF OrphanOf, TInv
    <3> QED
      BY <2>1, <3>1
  <2>4. \A b \in calls' : b.kind = "post" => \E c \in calls :
            /\ c.kind = "post" /\ c.id = b.id
            /\ c.doc = b.doc /\ c.page = b.page
            /\ b.page = q /\ c.mine => b.mine
            /\ b.pc = "served" => c.pc = "served"
    <3> SUFFICES ASSUME NEW b \in calls', b.kind = "post"
                 PROVE \E c \in calls :
            /\ c.kind = "post" /\ c.id = b.id
            /\ c.doc = b.doc /\ c.page = b.page
            /\ b.page = q /\ c.mine => b.mine
            /\ b.pc = "served" => c.pc = "served"
      OBVIOUS
    <3>1. PICK c \in calls : OrphanOf(b, c, {p})
      BY <2>1
    <3> QED
      BY <1>2, <3>1 DEF OrphanOf
  <2>5. \A c \in calls : c.kind = "post" /\ c.pc = "served" =>
          \E b \in calls' : b.kind = "post" /\ b.pc = "served" /\ b.id = c.id
    BY <2>2 DEF OrphanOf
  <2>6. Fetching(q)' <=> Fetching(q)
    <3>1. ASSUME NEW c \in calls, c.kind = "fetch", c.page = q
          PROVE Fetching(q)'
      BY <1>2, <2>2, <3>1 DEF OrphanOf, Fetching
    <3> QED
      BY <2>3, <3>1 DEF Fetching
  <2> QED
    BY <2>3, <2>4, <2>5, <2>6 DEF CallsKept
<1> QED
  BY <1>1, <1>3, <1>4, FollowIdle

LEMMA FollowPost ==
  ASSUME TInv, WayInv, FollowInv, NEW p \in Pages, Post(p)
  PROVE FollowInv'
<1>0. PICK new : new = NewCall(p, "post", posts')
  OBVIOUS
<1>1. /\ calls' = calls \cup {new}
      /\ UNCHANGED <<presenceVars, db, relays, complete>>
  BY <1>0 DEF Post
<1>2. /\ new.kind = "post" /\ new.page = p /\ new.pc = "sent" /\ new.mine
      /\ new.doc = tab[p].doc
  BY <1>0 DEF NewCall
<1> SUFFICES ASSUME NEW q \in Pages, Follows(q)' PROVE FollowOK(q)'
  BY DEF FollowInv, FollowOK
<1>3. /\ side'[q].open = side[q].open /\ side'[q].list = side[q].list
      /\ side'[q].overtaken =
           (side[q].overtaken
              \/ (Waits(q, {"fetch"}) # {} /\ tab[q].doc = tab[p].doc))
  <2>1. side[q] \in Sidebar
    BY SideTypes DEF TInv
  <2>2. side'[q] = IF Waits(q, {"fetch"}) # {} /\ tab[q].doc = tab[p].doc
                   THEN [side[q] EXCEPT !.overtaken = TRUE] ELSE side[q]
    BY DEF Post
  <2> QED
    BY <2>1, <2>2 DEF Sidebar
<1>4. Fetching(q) => Waits(q, {"fetch"}) # {}
  BY FetchesAreMine DEF Fetching, Waits
<1>5. Follows(q) /\ SameList(q)
  BY <1>1, <1>3, PresenceSame DEF Follows, SameList
<1>6. Fetching(q) => tab[q].doc # tab[p].doc
  BY <1>3, <1>4 DEF Follows
<1>7. CallsKept(q)
  BY <1>1, <1>2, <1>6, OneMoreCall
<1> QED
  BY <1>1, <1>5, <1>7, FollowIdle

LEMMA FollowTouch ==
  ASSUME TInv, WayInv, FollowInv, NEW p \in Pages,
         NEW kind \in {"reply", "resolve"}, NEW x, Touch(p, kind, x)
  PROVE FollowInv'
<1>0. PICK new : new = NewCall(p, kind, x.id)
  OBVIOUS
<1>1. /\ calls' = calls \cup {new}
      /\ UNCHANGED <<presenceVars, db, relays, complete>>
  BY <1>0 DEF Touch
<1>2. new.kind = kind /\ new.pc = "sent"
  BY <1>0 DEF NewCall
<1> SUFFICES ASSUME NEW q \in Pages, Follows(q)' PROVE FollowOK(q)'
  BY DEF FollowInv, FollowOK
<1>3. /\ side'[q].open = side[q].open /\ side'[q].list = side[q].list
      /\ side'[q].overtaken = side[q].overtaken
  BY SideTypes DEF Touch, Sidebar, TInv
<1>4. Follows(q) /\ SameList(q)
  BY <1>1, <1>3, PresenceSame DEF Follows, SameList
<1>5. CallsKept(q)
  BY <1>1, <1>2, OneMoreCall
<1> QED
  BY <1>1, <1>4, <1>5, FollowIdle

\* One request ends or fails, with nothing that a sidebar still waits for.
LEMMA OneCallChanged ==
  ASSUME NEW p \in Pages, NEW c \in calls, NEW b,
         b.kind = c.kind, b.id = c.id, b.doc = c.doc, b.page = c.page,
         b.mine = c.mine,
         calls \ {c} \subseteq calls', calls' \subseteq (calls \ {c}) \cup {b},
         b.kind = "post" => (b.pc = "served" <=> c.pc = "served"),
         c.kind = "post" /\ c.pc = "served" => b \in calls',
         c.kind = "fetch" /\ c.page = p => b \in calls' /\ b.pc # "served"
  PROVE CallsKept(p)
<1>1. Fetching(p)' <=> Fetching(p)
  BY DEF Fetching
<1> QED
  BY <1>1 DEF CallsKept

LEMMA FollowFails ==
  ASSUME TInv, WayInv, FollowInv, NEW c \in calls, CallFails(c)
  PROVE FollowInv'
<1>1. PICK b : b = [c EXCEPT !.pc = "failed"]
  OBVIOUS
<1>2. /\ b.kind = c.kind /\ b.id = c.id /\ b.doc = c.doc /\ b.page = c.page
      /\ b.mine = c.mine /\ b.pc = "failed"
  BY <1>1, CallTypes DEF TInv
<1>3. /\ calls' = (calls \ {c}) \cup {b}
      /\ complete' = (complete /\ (c.kind = "post" => c.pc = "sent"))
      /\ UNCHANGED <<tab, wire, current, db, relays, side>>
  BY <1>1 DEF CallFails
<1> SUFFICES ASSUME NEW q \in Pages, Follows(q)' PROVE FollowOK(q)'
  BY DEF FollowInv, FollowOK
<1>4. /\ Follows(q) /\ SameList(q) /\ SameMade /\ FollowOK(q)
      /\ (c.kind = "post" => c.pc = "sent")
      /\ Conn(q)' = Conn(q)
  BY <1>3 DEF Follows, SameList, SameMade, Made, Recent, FollowInv, Connected,
              Shows, Conn
<1>5. CallsKept(q)
  BY <1>2, <1>3, <1>4, OneCallChanged
<1> QED
  BY <1>3, <1>4, <1>5, SameWire, FollowStays

LEMMA FollowRefused ==
  ASSUME TInv, WayInv, FollowInv, NEW c \in calls, Refused(c)
  PROVE FollowInv'
<1>1. /\ c.pc = "failed" /\ calls' = calls \ {c}
      /\ UNCHANGED <<presenceVars, db, relays, complete>>
  BY DEF Refused
<1> SUFFICES ASSUME NEW q \in Pages, Follows(q)' PROVE FollowOK(q)'
  BY DEF FollowInv, FollowOK
<1>2. /\ side'[q].open = side[q].open /\ side'[q].list = side[q].list
      /\ side[q].overtaken => side'[q].overtaken
      /\ c.mine /\ c.page = q /\ c.kind = "fetch" => side'[q].overtaken
  <2>1. side \in [Pages -> Sidebar]
    BY DEF TInv, CTypes
  <2> QED
    BY <2>1 DEF Refused, Sidebar
<1>3. ~(c.page = q /\ c.kind = "fetch")
  BY <1>2, FetchesAreMine DEF Follows
<1>4. CallsKept(q)
  BY <1>1, <1>3, OneCallChanged
<1>5. Follows(q) /\ SameList(q)
  BY <1>1, <1>2, PresenceSame DEF Follows, SameList
<1> QED
  BY <1>1, <1>4, <1>5, FollowIdle

\* A comment that was coming to p, and now is not, comes first in its list.
LEMMA Prepended ==
  ASSUME TInv, WayInv, NEW p \in Pages, HasFetched(p), side[p].open,
         tab'[p].doc = tab[p].doc, SameMade,
         NEW x \in Comment, Known(x), side'[p].list = <<x>> \o side[p].list,
         \A b \in calls' :
           b.kind = "post" /\ b.page = p /\ b.doc = tab[p].doc => b.mine,
         Coming(p, x.id), ~Coming(p, x.id)',
         \A n : n # x.id /\ Made(tab[p].doc, n) =>
                  (Coming(p, n)' <=> Coming(p, n))
  PROVE HasFetched(p)'
<1>1. PICK s, d : s = side[p].list /\ d = tab[p].doc
  OBVIOUS
<1>2. /\ s \in Seq(Comment) /\ d \in Docs /\ tab'[p].doc = d
      /\ x.doc \in Docs /\ x.id \in 1..MaxPosts
  BY <1>1, SideTypes, OpenTypes DEF TInv, Comment
<1>3. PICK t : t = <<x>> \o s
  OBVIOUS
<1>4. /\ 1 \in DOMAIN t /\ t[1] = x
      /\ \A i \in DOMAIN s : i + 1 \in DOMAIN t /\ t[i + 1] = s[i]
      /\ \A i \in DOMAIN t : i = 1 \/ (i - 1 \in DOMAIN s /\ t[i] = s[i - 1])
      /\ DOMAIN s \subseteq Nat /\ DOMAIN t \subseteq Nat
  BY <1>2, <1>3, PutFirst
<1>5. side'[p].list = t
  BY <1>1, <1>3
<1>6. /\ \A i : i \in Own(p) <=> i \in DOMAIN s /\ s[i].doc = d
      /\ \A i : i \in Own(p)' <=> i \in DOMAIN t /\ t[i].doc = d
  BY <1>1, <1>2, <1>5 DEF Own
<1>7. \A i \in Own(p) : /\ ~Coming(p, s[i].id) /\ Made(d, s[i].id)
                        /\ \A j \in Own(p) : s[j].id = s[i].id => j = i
  BY <1>1, OwnMade DEF HasFetched
<1>8. \A i \in Own(p)' : \/ i = 1 /\ t[i] = x
                         \/ i - 1 \in Own(p) /\ t[i] = s[i - 1]
  BY <1>4, <1>6
<1>9. ASSUME NEW i \in Own(p)'
      PROVE /\ ~Coming(p, t[i].id)'
            /\ \A j \in Own(p)' : t[j].id = t[i].id => j = i
  <2>1. CASE i = 1 /\ t[i] = x
    BY <1>4, <1>7, <1>8, <2>1
  <2>2. CASE i - 1 \in Own(p) /\ t[i] = s[i - 1]
    <3>1. ~Coming(p, t[i].id) /\ Made(d, t[i].id) /\ t[i].id # x.id
      BY <1>7, <2>2
    <3>2. ~Coming(p, t[i].id)'
      BY <1>1, <3>1
    <3>3. ASSUME NEW j \in Own(p)', t[j].id = t[i].id PROVE j = i
      <4>1. j - 1 \in Own(p) /\ t[j] = s[j - 1]
        BY <1>8, <3>1, <3>3
      <4>2. j - 1 = i - 1
        BY <1>7, <2>2, <3>3, <4>1
      <4>3. i \in Nat /\ j \in Nat
        BY <1>4, <1>6
      <4> QED
        BY <4>2, <4>3
    <3> QED
      BY <3>2, <3>3
  <2> QED
    BY <1>8, <2>1, <2>2
<1>10. ASSUME NEW n \in 1..MaxPosts, Recent(d, n)'
       PROVE Listed(p, n)' \/ Coming(p, n)'
  <2>1. Recent(d, n) /\ Made(d, n)
    BY <1>2, <1>10, RecentIsMade DEF SameMade
  <2>2. CASE Listed(p, n)
    <3>1. PICK i \in Own(p) : s[i].id = n
      BY <1>1, <2>2 DEF Listed
    <3>2. i + 1 \in Own(p)' /\ t[i + 1].id = n
      BY <1>4, <1>6, <3>1
    <3> QED
      BY <1>5, <3>2 DEF Listed
  <2>3. CASE Coming(p, n) /\ n = x.id
    <3>1. x.doc = d
      BY <1>2, <2>1, <2>3, OneDocOnly DEF Known
    <3>2. 1 \in Own(p)' /\ t[1].id = n
      BY <1>4, <1>6, <2>3, <3>1
    <3> QED
      BY <1>5, <3>2 DEF Listed
  <2>4. CASE Coming(p, n) /\ n # x.id
    BY <1>1, <2>1, <2>4
  <2> QED
    BY <1>1, <2>1, <2>2, <2>3, <2>4 DEF HasFetched
<1>11. \A b \in calls' :
         b.kind = "post" /\ b.page = p /\ b.doc = tab'[p].doc => b.mine
  OBVIOUS
<1> QED
  BY <1>1, <1>2, <1>5, <1>9, <1>10, <1>11 DEF HasFetched

LEMMA FollowReceive ==
  ASSUME TInv, WayInv, FollowInv, NEW p \in Pages, ReceiveComment(p)
  PROVE FollowInv'
<1>1. /\ side' = IF ~side[p].open THEN side
                 ELSE [side EXCEPT ![p].list = <<Head(wire[p]).comment>> \o @]
      /\ UNCHANGED <<tab, current, db, calls, relays, complete>>
      /\ wire[p] # <<>> /\ IsComment(Head(wire[p]))
      /\ wire' = [wire EXCEPT ![p] = Tail(@)]
  BY DEF ReceiveComment, NextEvent, IsComment
<1>2. PICK x : x = Head(wire[p]).comment
  OBVIOUS
<1>3. PICK s : s = wire[p] /\ s \in Seq(Alpha)
  BY TabTypes DEF TInv, PInv
<1>4. /\ wire'[p] = Tail(s) /\ s # <<>>
      /\ \A q \in Pages \ {p} : wire'[q] = wire[q]
  BY <1>1, <1>3 DEF TInv, PInv, PTypes
<1>5. /\ 1 \in 1..Len(s) /\ Head(s) = s[1]
      /\ \A i \in 1..Len(Tail(s)) :
           Tail(s)[i] = s[i + 1] /\ i + 1 \in 1..Len(s) /\ i + 1 # 1
      /\ \A i \in 1..Len(s) :
           i = 1 \/ (i - 1 \in 1..Len(Tail(s)) /\ Tail(s)[i - 1] = s[i])
  BY <1>3, <1>4
<1>6. x \in Comment /\ Known(x) /\ IsComment(s[1]) /\ s[1].comment = x
  BY <1>1, <1>2, <1>3, <1>5, HeadComment DEF WayInv, WireOK
<1>7. OnWire(p, x.id) /\ ~OnWire(p, x.id)'
  <2>1. OnWire(p, x.id)
    BY <1>3, <1>5, <1>6 DEF OnWire
  <2>2. \A i \in 1..Len(s) :
          IsComment(s[i]) /\ s[i].comment.id = x.id => i = 1
    BY <1>3, <1>5, <1>6 DEF WayInv, WireOK
  <2>3. ~OnWire(p, x.id)'
    BY <1>4, <1>5, <2>2 DEF OnWire
  <2> QED
    BY <2>1, <2>3
<1>8. Embeds(p) /\ SameMade
  BY <1>1, <1>3, <1>4, ReadWire DEF SameMade, Made, Recent
<1>9. \A n : n # x.id => (OnWire(p, n)' <=> OnWire(p, n))
  <2> SUFFICES ASSUME NEW n, n # x.id, OnWire(p, n) PROVE OnWire(p, n)'
    BY <1>8, EmbedsOnWire
  <2>1. PICK i \in 1..Len(s) : IsComment(s[i]) /\ s[i].comment.id = n
    BY <1>3 DEF OnWire
  <2>2. i - 1 \in 1..Len(Tail(s)) /\ Tail(s)[i - 1] = s[i]
    BY <1>5, <1>6, <2>1
  <2> QED
    BY <1>4, <2>1, <2>2 DEF OnWire
<1> SUFFICES ASSUME NEW q \in Pages, Follows(q)' PROVE FollowOK(q)'
  BY DEF FollowInv, FollowOK
<1>10. /\ side'[q].open = side[q].open
       /\ side'[q].overtaken = side[q].overtaken
       /\ q # p => side'[q] = side[q]
  BY <1>1 DEF TInv, CTypes, Sidebar
<1>11. Follows(q) /\ Conn(q)' = Conn(q) /\ (Fetching(q)' <=> Fetching(q))
  BY <1>1, <1>10 DEF Follows, Connected, Shows, Conn, Fetching
<1>12. CASE q # p
  <2>1. SameList(q) /\ CallsKept(q) /\ FollowOK(q)
    BY <1>1, <1>10, <1>11, <1>12 DEF SameList, CallsKept, FollowInv
  <2> QED
    BY <1>1, <1>4, <1>8, <1>11, <1>12, <2>1, SameWire, FollowStays
<1>13. CASE q = p /\ Fetching(p)
  <2>1. Awaits(p)
    BY <1>11, <1>13 DEF FollowInv, FollowOK
  <2>2. \A b \in calls' :
          b.kind = "fetch" /\ b.page = p /\ b.pc = "served" => FetchTold(b)'
    BY <1>1, <2>1, ToldKept DEF Awaits, Recent
  <2>3. Awaits(p)'
    BY <1>1, <1>8, <2>1, <2>2, AwaitsKept DEF Awaits
  <2> QED
    BY <1>11, <1>13, <2>3 DEF FollowOK
<1>14. CASE q = p /\ ~Fetching(p)
  <2>1. HasFetched(p) /\ side[p].open
    BY <1>11, <1>14 DEF FollowInv, FollowOK, Follows
  <2>2. side'[p].list = <<x>> \o side[p].list
    BY <1>1, <1>2, <2>1 DEF TInv, CTypes, Sidebar
  <2>3. Coming(p, x.id)
    BY <1>7 DEF Coming
  <2>4. ~Coming(p, x.id)'
    BY <1>1, <1>7 DEF Coming, WayInv, RelayOK, CallOK, PostOK
  <2>5. \A n : n # x.id => (Coming(p, n)' <=> Coming(p, n))
    BY <1>1, <1>9, <1>11, <1>14 DEF Coming
  <2>6. HasFetched(p)'
    BY <1>1, <1>6, <1>8, <2>1, <2>2, <2>3, <2>4, <2>5, Prepended
    DEF HasFetched
  <2> QED
    BY <1>11, <1>14, <2>6 DEF FollowOK
<1> QED
  BY <1>12, <1>13, <1>14

LEMMA FollowRelay ==
  ASSUME TInv, WayInv, FollowInv, NEW r \in relays, Relay(r)
  PROVE FollowInv'
<1>1. /\ relays' = relays \ {r}
      /\ UNCHANGED <<tab, current, db, side, calls>>
      /\ complete' => complete
  BY DEF Relay
<1> SUFFICES ASSUME NEW p \in Pages, Follows(p)' PROVE FollowOK(p)'
  BY DEF FollowInv, FollowOK
<1>2. PICK x : x = r.comment
  OBVIOUS
<1>3. x \in Comment /\ x.doc \in Docs /\ Known(x)
  BY <1>2 DEF TInv, CTypes, Relayed, Comment, WayInv, RelayOK
<1>4. PICK e : e = CommentEvent(x)
  OBVIOUS
<1>5. IsComment(e) /\ e.comment = x
  BY <1>4 DEF CommentEvent, IsComment
<1>6. wire'[p] = IF Hears(p, x.doc, r.conn) THEN Append(wire[p], e)
                 ELSE wire[p]
  BY <1>2, <1>4 DEF Relay, Sent, CommentEvent, Follows
<1>7. /\ Follows(p) /\ Conn(p)' = Conn(p) /\ (Fetching(p)' <=> Fetching(p))
      /\ SameList(p)
  BY <1>1 DEF Follows, Connected, Shows, Conn, Fetching, SameList
<1>8. PICK s : s = wire[p] /\ s \in Seq(Alpha)
  BY TabTypes DEF TInv, PInv
<1>9. /\ \A i \in 1..Len(s) :
           i \in 1..Len(Append(s, e)) /\ Append(s, e)[i] = s[i]
      /\ Len(s) + 1 \in 1..Len(Append(s, e)) /\ Append(s, e)[Len(s) + 1] = e
      /\ \A i \in 1..Len(Append(s, e)) :
           \/ i \in 1..Len(s) /\ Append(s, e)[i] = s[i]
           \/ Append(s, e)[i] = e
  BY <1>8
<1>10. \A n : OnWire(p, n)' <=>
                OnWire(p, n) \/ (n = x.id /\ Hears(p, x.doc, r.conn))
  BY <1>5, <1>6, <1>8, <1>9 DEF OnWire
<1>11. CASE Fetching(p)
  <2>1. Awaits(p) /\ x.doc # tab[p].doc
    BY <1>2, <1>7, <1>11 DEF FollowInv, FollowOK, Awaits
  <2>2. \A b \in calls' :
          b.kind = "fetch" /\ b.page = p /\ b.pc = "served" => FetchTold(b)'
    BY <1>1, <2>1, ToldKept DEF Awaits, Recent
  <2>3. \A i \in 1..Len(wire'[p]) :
          IsComment(wire'[p][i]) => wire'[p][i].comment.doc # tab[p].doc
    BY <1>5, <1>6, <1>8, <1>9, <2>1 DEF Awaits
  <2>4. Awaits(p)'
    BY <1>1, <2>1, <2>2, <2>3 DEF Awaits
  <2> QED
    BY <1>7, <1>11, <2>4 DEF FollowOK
<1>12. CASE ~Fetching(p)
  <2>1. HasFetched(p) /\ tab[p].doc \in Docs
    BY <1>7, <1>12, OpenTypes DEF FollowInv, FollowOK, Follows
  <2>2. ASSUME NEW n, Made(tab[p].doc, n)
        PROVE Coming(p, n)' <=> Coming(p, n)
    <3>1. CASE n # x.id
      BY <1>1, <1>2, <1>7, <1>10, <3>1 DEF Coming
    <3>2. CASE n = x.id
      <4>1. x.doc = tab[p].doc
        BY <1>3, <2>1, <2>2, <3>2, OneDocOnly DEF Known
      <4>2. ~OnWire(p, n) /\ (\A q \in relays' : q.comment.id # n)
        BY <1>1, <1>2, <3>2 DEF WayInv, RelayOK
      <4>3. \A c \in calls : c.kind = "post" => c.id # n
        BY <1>2, <3>2 DEF WayInv, CallOK, PostOK
      <4>4. Conn(p) \in members[x.doc]
        BY <1>7, <4>1 DEF Follows, TInv, PInv, TabsAreRight, TabOK
      <4>5. Coming(p, n) <=> r.conn # Conn(p)
        BY <1>1, <1>2, <3>2, <4>2, <4>3 DEF Coming
      <4>6. Coming(p, n)' <=> r.conn # Conn(p)
        BY <1>1, <1>10, <3>2, <4>2, <4>3, <4>4 DEF Coming, Hears
      <4> QED
        BY <4>5, <4>6
    <3> QED
      BY <3>1, <3>2
  <2>3. \A n : Recent(tab[p].doc, n)' => Recent(tab[p].doc, n)
    BY <1>1 DEF Recent
  <2>4. HasFetched(p)'
    BY <1>1, <1>7, <2>1, <2>2, <2>3, HasKept DEF HasFetched
  <2> QED
    BY <1>7, <1>12, <2>4 DEF FollowOK
<1> QED
  BY <1>11, <1>12

\* The answer to the fetch of p has the newest comments, and none of any is
\* on its way.
LEMMA FetchAnswered ==
  ASSUME TInv, WayInv, NEW c \in calls, c.kind = "fetch", c.pc = "served",
         NEW p \in Pages, p = c.page, Awaits(p), Conn(p)' = Conn(p),
         tab'[p] = tab[p], UNCHANGED <<db, relays>>, wire'[p] = wire[p],
         calls' = calls \ {c}, side'[p].list = c.data
  PROVE HasFetched(p)'
<1>1. PICK d \in Docs : d = tab[p].doc /\ c.doc = d
  BY FetchesAreMine
<1>2. /\ \A n \in 1..MaxPosts : Recent(d, n) =>
           \E i \in DOMAIN c.data : c.data[i].id = n
      /\ \A i, j \in DOMAIN c.data : c.data[i].id = c.data[j].id => i = j
  BY <1>1 DEF Awaits, FetchTold
<1>3. \A i \in DOMAIN c.data : c.data[i].doc = d /\ Made(d, c.data[i].id)
  BY <1>1 DEF WayInv, CallOK, ServedOK
<1>4. ASSUME NEW n, Made(d, n) PROVE ~Coming(p, n)'
  <2>1. ~OnWire(p, n)'
    BY <1>1, <1>4, OnWireKnown, OneDocOnly DEF Awaits, OnWire
  <2>2. \A r \in relays : r.comment.id # n
    BY <1>1, <1>4, OneDocOnly DEF Awaits, WayInv, RelayOK, Known, TInv, CTypes,
       Relayed, Comment
  <2>3. \A b \in calls : b.kind = "post" /\ b.pc = "served" => b.id # n
    <3> SUFFICES ASSUME NEW b \in calls, b.kind = "post", b.pc = "served",
                        b.id = n
                 PROVE FALSE
      OBVIOUS
    <3>1. /\ b.doc \in Docs /\ b.data \in Seq(Comment) /\ Len(b.data) = 1
          /\ ServedOK(b) /\ b.kind # "fetch"
      BY CallTypes DEF TInv, WayInv, CallOK
    <3>2. 1 \in DOMAIN b.data
      BY <3>1
    <3>3. Made(b.doc, n)
      BY <3>1, <3>2 DEF ServedOK
    <3> QED
      BY <1>1, <1>4, <3>1, <3>3, OneDocOnly DEF Awaits
  <2> QED
    BY <2>1, <2>2, <2>3 DEF Coming
<1>5. \A i : i \in Own(p)' <=> i \in DOMAIN c.data
  BY <1>1, <1>3 DEF Own
<1>6. \A n \in 1..MaxPosts : Recent(tab[p].doc, n)' => Listed(p, n)'
  BY <1>1, <1>2, <1>5 DEF Recent, Listed
<1>7. \A b \in calls' : b.kind = "post" => b.doc # tab'[p].doc
  BY DEF Awaits
<1> QED
  BY <1>2, <1>3, <1>4, <1>5, <1>6, <1>7 DEF HasFetched

\* The answer to a touch keeps the ids and the documents of a list.
LEMMA TouchedList ==
  ASSUME TInv, WayInv, NEW c \in calls, IsTouch(c), c.pc = "served", c.mine,
         side'[c.page].list = Shown(side[c.page].list, c)
  PROVE SameList(c.page)
<1>1. PICK s, x, p : s = side[c.page].list /\ x = c.data[1] /\ p = c.page
  OBVIOUS
<1>2. /\ p \in Pages /\ s \in Seq(Comment) /\ x \in Comment /\ c.doc \in Docs
      /\ c.data \in Seq(Comment) /\ Len(c.data) = 1 /\ c.kind # "fetch"
  BY <1>1, CallTypes, SideTypes DEF TInv, IsTouch
<1>3. 1 \in DOMAIN c.data
  BY <1>2
<1>4. x.id = c.id /\ x.doc = c.doc /\ Made(c.doc, c.id)
  BY <1>1, <1>2, <1>3 DEF WayInv, CallOK, ServedOK
<1>5. side'[p].list = Update(s, c.id, x)
  BY <1>1 DEF Shown, IsTouch
<1>6. /\ DOMAIN Update(s, c.id, x) = DOMAIN s
      /\ \A i \in DOMAIN s :
           Update(s, c.id, x)[i] = IF s[i].id = c.id THEN x ELSE s[i]
  BY <1>2, UpdateTypes
<1>7. \A i \in DOMAIN s : Known(s[i]) /\ s[i].doc \in Docs
  BY <1>1, <1>2, SideTypes DEF TInv, WayInv, SideOK, Comment
<1>8. \A i \in DOMAIN s : s[i].id = c.id => s[i].doc = c.doc
  BY <1>2, <1>4, <1>7, OneDocOnly DEF Known
<1> QED
  BY <1>1, <1>4, <1>5, <1>6, <1>8 DEF SameList

LEMMA PostAnswered ==
  ASSUME TInv, WayInv, NEW c \in calls, c.kind = "post", c.pc = "served"
  PROVE /\ c.data[1] \in Comment /\ c.data[1].id = c.id
        /\ c.data[1].doc = c.doc /\ Made(c.doc, c.id) /\ c.doc \in Docs
        /\ \A r \in relays : r.comment.id # c.id
        /\ \A p \in Pages : ~OnWire(p, c.id)
        /\ \A b \in calls : b.kind = "post" /\ b.id = c.id => b = c
<1>1. /\ c.data \in Seq(Comment) /\ Len(c.data) = 1 /\ c.data[1] \in Comment
      /\ c.doc \in Docs /\ CallOK(c)
  BY CallTypes DEF TInv, WayInv
<1>2. 1 \in DOMAIN c.data
  BY <1>1
<1> QED
  BY <1>1, <1>2 DEF CallOK, ServedOK, PostOK

LEMMA FollowAnswered ==
  ASSUME TInv, WayInv, FollowInv, NEW c \in calls, Answered(c)
  PROVE FollowInv'
<1>1. /\ c.pc = "served" /\ calls' = calls \ {c} /\ c.page \in Pages
      /\ side' = IF c.mine THEN [side EXCEPT ![c.page].list = Shown(@, c)]
                 ELSE side
      /\ relays' = IF c.kind # "post" THEN relays
                   ELSE relays \cup {[conn |-> Conn(c.page),
                                      comment |-> c.data[1]]}
      /\ UNCHANGED <<presenceVars, db, complete>>
  BY CallTypes DEF Answered, TInv
<1> SUFFICES ASSUME NEW p \in Pages, Follows(p)' PROVE FollowOK(p)'
  BY DEF FollowInv, FollowOK
<1>2. /\ side'[p].open = side[p].open
      /\ side'[p].overtaken = side[p].overtaken
      /\ p # c.page \/ ~c.mine => side'[p].list = side[p].list
      /\ p = c.page /\ c.mine =>
           side'[p].list = Shown(side[p].list, c)
  <2>1. side \in [Pages -> Sidebar]
    BY DEF TInv, CTypes
  <2> HIDE DEF Shown
  <2> QED
    BY <1>1, <2>1 DEF Sidebar
<1>3. /\ tab' = tab /\ wire' = wire /\ Conn(p)' = Conn(p)
      /\ Embeds(p) /\ Keeps(p)
  BY <1>1, PresenceSame DEF presenceVars
<1>4. Follows(p) /\ FollowOK(p)
  BY <1>1, <1>2, PresenceSame DEF Follows, FollowInv
<1>5. CASE c.kind = "fetch" /\ c.page = p
  <2>1. Fetching(p) /\ c.mine
    BY <1>5, FetchesAreMine
  <2>2. ~Fetching(p)'
    BY <1>1, <1>5, FetchesAreMine DEF Fetching
  <2>3. side'[p].list = c.data
    BY <1>2, <1>5, <2>1 DEF Shown
  <2>4. HasFetched(p)'
    BY <1>1, <1>3, <1>4, <1>5, <2>1, <2>3, FetchAnswered DEF FollowOK
  <2> QED
    BY <2>2, <2>4 DEF FollowOK
<1>6. CASE c.kind = "fetch" /\ c.page # p
  <2>1. CallsKept(p) /\ SameList(p)
    BY <1>1, <1>2, <1>6, OneCallChanged DEF SameList
  <2> QED
    BY <1>1, <1>4, <1>6, <2>1, FollowIdle
<1>7. CASE IsTouch(c)
  <2>1. CallsKept(p)
    BY <1>1, <1>7, OneCallChanged DEF IsTouch
  <2>2. SameList(p)
    BY <1>1, <1>2, <1>7, TouchedList DEF SameList
  <2> QED
    BY <1>1, <1>4, <1>7, <2>1, <2>2, FollowIdle DEF IsTouch
<1>8. CASE c.kind = "post"
  <2>1. PICK x, r : x = c.data[1] /\ r = [conn |-> Conn(c.page), comment |-> x]
    OBVIOUS
  <2>2. /\ x \in Comment /\ x.id = c.id /\ x.doc = c.doc /\ Made(c.doc, c.id)
        /\ c.doc \in Docs
        /\ \A q \in relays : q.comment.id # c.id
        /\ ~OnWire(p, c.id)
        /\ \A b \in calls : b.kind = "post" /\ b.id = c.id => b = c
    BY <1>1, <1>8, <2>1, PostAnswered
  <2>3. /\ relays' = relays \cup {r}
        /\ r.conn = Conn(c.page) /\ r.comment = x
    BY <1>1, <1>8, <2>1
  <2>4. Fetching(p)' <=> Fetching(p)
    BY <1>1, <1>8 DEF Fetching
  <2>5. \A n : OnWire(p, n)' <=> OnWire(p, n)
    BY <1>3 DEF OnWire
  <2>6. CASE Fetching(p)
    <3>1. Awaits(p) /\ c.doc # tab[p].doc
      BY <1>4, <1>8, <2>6 DEF FollowOK, Awaits
    <3>2. \A b \in calls' :
            b.kind = "fetch" /\ b.page = p /\ b.pc = "served" => FetchTold(b)'
      BY <1>1, <3>1, ToldKept DEF Awaits, Recent
    <3>3. Awaits(p)'
      BY <1>1, <1>3, <2>2, <2>3, <3>1, <3>2 DEF Awaits
    <3> QED
      BY <2>4, <2>6, <3>3 DEF FollowOK
  <2>7. CASE ~Fetching(p)
    <3>1. HasFetched(p) /\ tab[p].doc \in Docs
      BY <1>4, <2>7, OpenTypes DEF FollowOK, Follows
    <3>2. \A n : n # c.id => (Coming(p, n)' <=> Coming(p, n))
      BY <1>1, <1>3, <2>2, <2>3, <2>5 DEF Coming
    <3>3. Coming(p, c.id)
      BY <1>1, <1>8 DEF Coming
    <3>4. Coming(p, c.id)' <=> c.page # p
      <4>1. Conn(c.page) = Conn(p) <=> c.page = p
        BY DEF Conn
      <4> QED
        BY <1>1, <1>3, <2>2, <2>3, <2>5, <4>1 DEF Coming
    <3>5. \A b \in calls' :
            b.kind = "post" /\ b.page = p /\ b.doc = tab[p].doc => b.mine
      BY <1>1, <3>1 DEF HasFetched
    <3>6. HasFetched(p)'
      <4>1. CASE c.page = p /\ c.mine
        <5>1. side'[p].list = <<x>> \o side[p].list
          <6>1. c.data = <<x>>
            <7>1. c.data \in Seq(Comment) /\ Len(c.data) = 1
              BY <1>1, <1>8, CallTypes DEF TInv
            <7> QED
              BY <2>1, <7>1
          <6> QED
            BY <1>2, <1>8, <4>1, <6>1 DEF Shown
        <5>2. SameMade /\ Known(x) /\ side[p].open
          BY <1>1, <1>4, <2>2 DEF SameMade, Made, Recent, Known, Follows
        <5> QED
          BY <1>3, <2>2, <3>1, <3>2, <3>3, <3>4, <3>5, <4>1, <5>1, <5>2,
             Prepended
      <4>2. CASE c.page # p \/ ~c.mine
        <5>1. SameList(p)
          BY <1>2, <4>2 DEF SameList
        <5>2. \A n : Made(tab[p].doc, n) => (Coming(p, n)' <=> Coming(p, n))
          <6>1. c.page = p => ~Made(tab[p].doc, c.id)
            <7>1. c.page = p => c.doc # tab[p].doc
              BY <1>8, <3>1, <4>2 DEF HasFetched
            <7> QED
              BY <2>2, <3>1, <7>1, OneDocOnly
          <6> QED
            BY <3>2, <3>3, <3>4, <6>1
        <5>3. \A n : Recent(tab[p].doc, n)' => Recent(tab[p].doc, n)
          BY <1>1, <1>3 DEF Recent
        <5> QED
          BY <1>3, <3>1, <3>5, <5>1, <5>2, <5>3, HasKept
      <4> QED
        BY <4>1, <4>2
    <3> QED
      BY <2>4, <2>7, <3>6 DEF FollowOK
  <2> QED
    BY <2>6, <2>7
<1> QED
  BY <1>5, <1>6, <1>7, <1>8, CallTypes DEF IsTouch, TInv

\* A request that was served became b, or went if nobody waits for it.
LEMMA CallServed ==
  ASSUME TInv, WayInv, NEW p \in Pages, NEW c \in calls, NEW b, NEW data,
         b = Answer(c, "served", data), Became(c, b), c.kind # "post",
         c.kind = "fetch" => c.page # p
  PROVE CallsKept(p)
<1>1. /\ b.kind = c.kind /\ b.id = c.id /\ b.doc = c.doc /\ b.page = c.page
      /\ b.mine = c.mine
  BY AnswerOf
<1>2. calls \ {c} \subseteq calls' /\ calls' \subseteq (calls \ {c}) \cup {b}
  BY DEF Became
<1> QED
  BY <1>1, <1>2, OneCallChanged

LEMMA FollowServe ==
  ASSUME TInv, WayInv, FollowInv, NEW c \in calls, Serve(c)
  PROVE FollowInv'
<1>1. /\ c.pc = "sent" /\ c.page \in Pages /\ c.doc \in Docs
      /\ UNCHANGED <<presenceVars, side, relays, complete>>
  BY ServeCases, CallTypes DEF TInv
<1> SUFFICES ASSUME NEW p \in Pages, Follows(p)' PROVE FollowOK(p)'
  BY DEF FollowInv, FollowOK
<1>2. /\ tab' = tab /\ Conn(p)' = Conn(p) /\ Embeds(p) /\ Keeps(p)
      /\ SameList(p)
  BY <1>1, PresenceSame DEF SameList
<1>3. Follows(p) /\ FollowOK(p)
  BY <1>1, PresenceSame DEF Follows, FollowInv
<1>4. CASE /\ c.kind = "fetch" /\ db' = db
           /\ Became(c, Answer(c, "served", Fetched(c.doc)))
  <2>1. PICK b : b = Answer(c, "served", Fetched(c.doc))
    OBVIOUS
  <2>2. CASE c.page # p
    BY <1>1, <1>2, <1>3, <1>4, <2>1, <2>2, CallServed, FollowIdle
  <2>3. CASE c.page = p
    <3>1. /\ b.kind = "fetch" /\ b.page = p /\ b.doc = c.doc /\ b.mine
          /\ b.data = Fetched(c.doc) /\ calls' = (calls \ {c}) \cup {b}
      BY <1>4, <2>1, <2>3, AnswerOf, FetchesAreMine DEF Became
    <3>2. Fetching(p) /\ Fetching(p)'
      BY <1>4, <2>3, <3>1 DEF Fetching
    <3>3. Awaits(p)
      BY <1>3, <3>2 DEF FollowOK
    <3>4. FetchTold(b)'
      <4>1. /\ DOMAIN b.data \subseteq DOMAIN db[c.doc]
            /\ \A i \in DOMAIN b.data : b.data[i] = db[c.doc][i]
            /\ \A i \in DOMAIN db[c.doc] : i <= Limit => i \in DOMAIN b.data
        BY <1>1, <3>1, DbTypes, NewestAre DEF Fetched, TInv
      <4> QED
        BY <1>1, <1>4, <3>1, <4>1 DEF FetchTold, Recent, WayInv, DbOK
    <3>5. \A a \in calls' : a.kind = "fetch" /\ a.page = p => a = b
      BY <1>4, <2>3, <3>1, FetchesAreMine
    <3>6. \A a \in calls' : a.kind = "post" => a.doc # tab[p].doc
      BY <3>1, <3>3 DEF Awaits
    <3>7. Awaits(p)'
      BY <1>1, <1>2, <3>3, <3>4, <3>5, <3>6, AwaitsKept DEF Awaits
    <3> QED
      BY <3>2, <3>7 DEF FollowOK
  <2> QED
    BY <2>2, <2>3
<1>5. ASSUME IsTouch(c), NEW k \in DOMAIN db[c.doc], db[c.doc][k].id = c.id,
             db' = [db EXCEPT ![c.doc] =
                      Update(db[c.doc], c.id, Touched(db[c.doc][k], c.kind))],
             Became(c, Answer(c, "served", <<Touched(db[c.doc][k], c.kind)>>))
      PROVE FollowOK(p)'
  <2>1. PICK y : y = Touched(db[c.doc][k], c.kind)
    OBVIOUS
  <2>2. TouchedIn(c, k, y)
    BY <1>5, <2>1 DEF TouchedIn
  <2>3. SameMade
    BY <1>5, <2>2, ServedTouch
  <2>4. PICK data, b : data = <<y>> /\ b = Answer(c, "served", data)
    OBVIOUS
  <2>5. CallsKept(p)
    BY <1>5, <2>1, <2>4, CallServed DEF IsTouch
  <2> QED
    BY <1>1, <1>2, <1>3, <2>3, <2>5, FollowStays
<1>6. CASE /\ IsTouch(c) /\ ~Made(c.doc, c.id) /\ db' = db
           /\ calls' = (calls \ {c}) \cup {Answer(c, "failed", c.data)}
  <2>1. PICK b : b = Answer(c, "failed", c.data)
    OBVIOUS
  <2>2. /\ b.kind = c.kind /\ b.id = c.id /\ b.doc = c.doc /\ b.page = c.page
        /\ b.mine = c.mine /\ b.pc = "failed"
    BY <2>1, AnswerOf
  <2>3. CallsKept(p)
    BY <1>6, <2>1, <2>2, OneCallChanged DEF IsTouch
  <2> QED
    BY <1>1, <1>2, <1>3, <1>6, <2>3, FollowIdle
<1>7. CASE c.kind = "post" /\ Became(c, Answer(c, "served", <<MadeBy(c)>>))
  <2>1. PICK b : b = Answer(c, "served", <<MadeBy(c)>>)
    OBVIOUS
  <2>2. /\ b.page = c.page /\ b.doc = c.doc /\ b.kind = "post" /\ b.id = c.id
        /\ b.mine = c.mine /\ b.pc = "served"
        /\ calls' = (calls \ {c}) \cup {b}
    BY <1>7, <2>1, AnswerOf DEF Became
  <2>3. \A d \in Docs : \A n :
             /\ Made(d, n)' <=> Made(d, n) \/ (d = c.doc /\ n = c.id)
             /\ Recent(d, n)' => Recent(d, n) \/ (d = c.doc /\ n = c.id)
    BY <1>7, ServedPost
  <2>4. Fetching(p)' <=> Fetching(p)
    BY <1>7, <2>2 DEF Fetching
  <2>5. CASE Fetching(p)
    <3>1. Awaits(p) /\ c.doc # tab[p].doc
      BY <1>3, <1>7, <2>5 DEF FollowOK, Awaits
    <3>2. ASSUME NEW a \in calls', a.kind = "fetch", a.page = p,
                 a.pc = "served"
          PROVE FetchTold(a)'
      <4>1. a \in calls /\ a.doc = tab[p].doc /\ a.doc \in Docs
            /\ FetchTold(a)
        BY <2>2, <3>1, <3>2, FetchesAreMine DEF Awaits
      <4>2. \A n : Recent(a.doc, n)' => Recent(a.doc, n)
        BY <2>3, <3>1, <4>1
      <4> QED
        BY <4>1, <4>2, ToldKept
    <3>3. \A a \in calls' : a.kind = "post" => a.doc # tab[p].doc
      BY <2>2, <3>1 DEF Awaits
    <3>4. Awaits(p)'
      BY <1>1, <1>2, <3>1, <3>2, <3>3, AwaitsKept DEF Awaits
    <3> QED
      BY <2>4, <2>5, <3>4 DEF FollowOK
  <2>6. CASE ~Fetching(p)
    <3>1. HasFetched(p) /\ tab[p].doc \in Docs
      BY <1>3, <2>6, OpenTypes DEF FollowOK, Follows
    <3>2. \A n : n # c.id => (Coming(p, n)' <=> Coming(p, n))
      BY <1>1, <1>2, <2>2 DEF Coming, OnWire, presenceVars
    <3>3. Coming(p, c.id)'
      BY <2>2 DEF Coming
    <3>4. \A d \in Docs : ~Made(d, c.id)
      BY <1>1, <1>7 DEF WayInv, CallOK, PostOK
    <3>5. \A a \in calls' :
            a.kind = "post" /\ a.page = p /\ a.doc = tab[p].doc => a.mine
      BY <1>7, <2>2, <3>1 DEF HasFetched
    <3>6. \A n : Recent(tab[p].doc, n)' =>
                   Recent(tab[p].doc, n) \/ Coming(p, n)'
      <4>1. PICK d \in Docs : d = tab[p].doc /\ d = tab'[p].doc
        BY <1>2, <3>1
      <4>2. \A n : Recent(d, n)' => Recent(d, n) \/ Coming(p, n)'
        BY <2>3, <3>3
      <4> QED
        BY <4>1, <4>2 DEF Recent
    <3>7. HasFetched(p)'
      BY <1>2, <3>1, <3>2, <3>4, <3>5, <3>6, HasKept
    <3> QED
      BY <2>4, <2>6, <3>7 DEF FollowOK
  <2> QED
    BY <2>5, <2>6
<1> QED
  BY <1>4, <1>5, <1>6, <1>7, ServeCases

LEMMA FollowInit == Init => FollowInv
  BY DEF Init, Folded, FollowInv, FollowOK, Follows

LEMMA FollowNext ==
  ASSUME TInv, WayInv, FollowInv, [Next]_vars PROVE FollowInv'
<1>1. CASE UNCHANGED vars
  <2>1. UNCHANGED <<presenceVars, db, side, calls, relays, complete>>
    BY <1>1 DEF vars
  <2> SUFFICES ASSUME NEW p \in Pages, Follows(p)' PROVE FollowOK(p)'
    BY DEF FollowInv, FollowOK
  <2>2. Follows(p) /\ SameList(p)
    BY <2>1, PresenceSame DEF Follows, SameList
  <2>3. CallsKept(p)
    BY <2>1 DEF CallsKept, Fetching
  <2> QED
    BY <2>1, <2>2, <2>3, FollowIdle
<1>2. CASE Next
  BY <1>2, FollowPresence, FollowOpen, FollowClose, FollowPost, FollowTouch,
     FollowReceive, FollowServe, FollowFails, FollowAnswered, FollowRefused,
     FollowRelay DEF Next
<1> QED
  BY <1>1, <1>2

LEMMA FollowInvariant == Spec => [](TInv /\ WayInv /\ FollowInv)
<1>1. Init => TInv /\ WayInv /\ FollowInv
  BY TInitHolds, WayInit, FollowInit
<1>2. TInv /\ WayInv /\ FollowInv /\ [Next]_vars
        => (TInv /\ WayInv /\ FollowInv)'
  BY TInvNext, WayNext, FollowNext
<1> QED
  BY <1>1, <1>2, PTL DEF Spec

\* What p waits for is neither on a wire nor in a request, once it is up to
\* date.
LEMMA UpToDateFollows ==
  ASSUME TInv, WayInv, FollowInv, NEW p \in Pages, UpToDate(p)
  PROVE /\ Follows(p) /\ ~Fetching(p) /\ HasFetched(p)
        /\ tab[p].doc \in Docs
        /\ \A n : Made(tab[p].doc, n) => ~Coming(p, n)
<1>1. Follows(p)
  BY DEF UpToDate, Listening, Follows, Connected, Shows
<1>2. tab[p].doc \in Docs
  BY OpenTypes DEF UpToDate
<1>3. ~Fetching(p)
  BY FetchesAreMine DEF UpToDate, Waits, Fetching
<1>4. ASSUME NEW n, Made(tab[p].doc, n) PROVE ~Coming(p, n)
  <2>1. ~OnWire(p, n)
    BY DEF UpToDate, Listening, OnWire
  <2>2. \A r \in relays : r.comment.id = n => r.comment.doc = tab[p].doc
    BY <1>2, <1>4, OneDocOnly
    DEF WayInv, RelayOK, Known, TInv, CTypes, Relayed, Comment
  <2>3. \A b \in calls : b.kind = "post" /\ b.pc = "served" /\ b.id = n =>
          b.doc = tab[p].doc
    BY <1>2, <1>4, PostAnswered, OneDocOnly
  <2> QED
    BY <2>1, <2>2, <2>3 DEF Coming, UpToDate, UnderWay
<1> QED
  BY <1>1, <1>2, <1>3, <1>4 DEF FollowInv, FollowOK

\* README.md: "Create, reply, and resolve comment threads in real-time".
\* However fetches, answers and events are ordered, a sidebar that follows
\* shows the newest comments of its document, as many as a fetch answers, each
\* once, and nothing that was not made.
THEOREM EachIsAlwaysShownOnce == Spec => []EachShownOnce
<1>1. ASSUME TInv, WayInv, FollowInv PROVE EachShownOnce
  <2> SUFFICES ASSUME NEW p \in Pages, UpToDate(p)
               PROVE /\ Ids(ToSet(Newest(db[tab[p].doc])))
                          \subseteq Ids(OwnComments(p))
                     /\ Ids(OwnComments(p)) \subseteq Ids(ToSet(db[tab[p].doc]))
                     /\ \A i, j \in Own(p) :
                          side[p].list[i].id = side[p].list[j].id => i = j
    BY DEF EachShownOnce
  <2>1. PICK d \in Docs : d = tab[p].doc
    BY <1>1, UpToDateFollows
  <2>2. HasFetched(p) /\ \A n : Made(d, n) => ~Coming(p, n)
    BY <1>1, <2>1, UpToDateFollows
  <2>3. \A i \in DOMAIN db[d] : db[d][i].id \in 1..MaxPosts
    BY <1>1, DbTypes DEF TInv
  <2>4. \A n : n \in Ids(ToSet(db[d])) <=> Made(d, n)
    BY DEF Ids, ToSet, Made
  <2>5. \A n : n \in Ids(OwnComments(p)) <=> Listed(p, n)
    BY DEF Ids, OwnComments, Listed
  <2>6. \A n : Listed(p, n) => Made(d, n)
    BY <1>1, <2>1, OwnMade DEF Listed
  <2>7. \A n : n \in Ids(ToSet(Newest(db[d]))) => Recent(d, n)
    <3>1. db[d] \in Seq(Comment)
      BY <1>1, DbTypes DEF TInv
    <3>2. \A i \in DOMAIN Newest(db[d]) :
            i \in DOMAIN db[d] /\ i <= Limit /\ Newest(db[d])[i] = db[d][i]
      BY <3>1, NewestAre
    <3> QED
      BY <3>2 DEF Ids, ToSet, Recent
  <2>8. \A n : Recent(d, n) => Listed(p, n)
    BY <2>1, <2>2, <2>3, RecentIsMade DEF HasFetched, Recent
  <2> QED
    BY <2>1, <2>2, <2>4, <2>5, <2>6, <2>7, <2>8 DEF HasFetched
<1> QED
  BY <1>1, FollowInvariant, PTL

-----------------------------------------------------------------------------
(* Proof about a sidebar that follows and alone touches the threads.       *)

\* The list agrees with the database, whatever is under way.
ListEquals(p) ==
  \A x \in OwnComments(p) : \A y \in ToSet(db[tab[p].doc]) :
    y.id = x.id => x = y

\* The requests that a sidebar that follows looks at go on as they are.
AnswersKept(p) ==
  \A b \in calls' : b.pc = "served" /\ (b.kind = "fetch" => b.page = p) =>
    \E c \in calls : /\ c.pc = "served" /\ c.kind = b.kind
                     /\ c.page = b.page /\ c.data = b.data
CallsAgree(p) ==
  /\ Fetching(p)' <=> Fetching(p)
  /\ \A c : IsTouch(c) => (c \in calls' <=> c \in calls)
  /\ AnswersKept(p)

LEMMA HeldOnce ==
  ASSUME TInv, WayInv, NEW d \in Docs, NEW x, Held(d, x), NEW y, Held(d, y),
         x.id = y.id
  PROVE x = y
  BY DEF WayInv, DbOK, Held, ToSet

LEMMA HeldKnown ==
  ASSUME TInv, WayInv, NEW d \in Docs, NEW x, Held(d, x)
  PROVE x \in Comment /\ x.doc = d /\ Made(d, x.id)
  BY DbTypes DEF TInv, WayInv, DbOK, Held, ToSet, Made

LEMMA MadeHeld ==
  ASSUME NEW d, NEW n, Made(d, n) PROVE \E y : Held(d, y) /\ y.id = n
  BY DEF Made, Held, ToSet

LEMMA NoneTouched ==
  ASSUME NEW p \in Pages, ListAgrees(p),
         \A c \in calls : IsTouch(c) => c.pc = "sent"
  PROVE ListEquals(p)
  BY DEF ListAgrees, ListEquals, Touching

LEMMA OwnKept ==
  ASSUME NEW p \in Pages, TouchesOwn(p), Fetching(p)' => Fetching(p),
         \A c \in calls' : IsTouch(c) => c \in calls,
         \A i \in DOMAIN side[p].list : \E j \in DOMAIN side'[p].list :
           side'[p].list[j].id = side[p].list[i].id
  PROVE TouchesOwn(p)'
<1> SUFFICES ASSUME NEW c \in calls', IsTouch(c)
             PROVE /\ c.page = p /\ c.mine /\ ~Fetching(p)'
                   /\ \A b \in calls' : IsTouch(b) => b = c
                   /\ \E i \in DOMAIN side'[p].list : side'[p].list[i].id = c.id
  BY DEF TouchesOwn, IsTouch
<1>1. /\ c \in calls /\ c.page = p /\ c.mine /\ ~Fetching(p)
      /\ \A b \in calls : IsTouch(b) => b = c
      /\ \E i \in DOMAIN side[p].list : side[p].list[i].id = c.id
  BY DEF TouchesOwn
<1> QED
  BY <1>1

LEMMA OwnCommentsKept ==
  ASSUME NEW p \in Pages, tab'[p].doc = tab[p].doc,
         side'[p].list = side[p].list
  PROVE OwnComments(p)' = OwnComments(p)
  BY DEF OwnComments, Own

\* Whether the list of p agrees depends on it, on the comments and on the
\* requests that touch them.
LEMMA AgreesKept ==
  ASSUME NEW p \in Pages, ListAgrees(p), tab'[p].doc = tab[p].doc, db' = db,
         side'[p].list = side[p].list,
         \A c \in calls : IsTouch(c) => c \in calls'
  PROVE ListAgrees(p)'
<1>1. \A x : \A y : Touching(x, y) => Touching(x, y)'
  BY DEF Touching, IsTouch
<1> QED
  BY <1>1, OwnCommentsKept DEF ListAgrees

LEMMA ArrivingKept ==
  ASSUME NEW p \in Pages, Conn(p)' = Conn(p), Embeds(p),
         relays' \subseteq relays, AnswersKept(p), NEW x, Arriving(p, x)'
  PROVE Arriving(p, x)
<1>1. CASE \E i \in 1..Len(wire'[p]) :
             IsComment(wire'[p][i]) /\ wire'[p][i].comment = x
  BY <1>1 DEF Embeds, Arriving
<1>2. CASE \E r \in relays' : r.conn # Conn(p) /\ r.comment = x
  BY <1>2 DEF Arriving
<1>3. CASE \E c \in calls' : /\ c.pc = "served"
                             /\ (c.kind = "fetch" => c.page = p)
                             /\ \E i \in DOMAIN c.data : c.data[i] = x
  BY <1>3 DEF Arriving, AnswersKept
<1> QED
  BY <1>1, <1>2, <1>3 DEF Arriving

\* What is on its way to p, or about to be, agrees.
LEMMA ComingStill ==
  ASSUME NEW p \in Pages, ComingAgrees(p), tab'[p].doc = tab[p].doc,
         \A x : \A d : Held(d, x) => Held(d, x)',
         \A x : Arriving(p, x)' => Arriving(p, x)
  PROVE ComingAgrees(p)'
  BY DEF ComingAgrees

LEMMA SoleStays ==
  ASSUME NEW p \in Pages, SoleOK(p), Follows(p), side[p].sole,
         tab'[p].doc = tab[p].doc, Conn(p)' = Conn(p), Embeds(p),
         side'[p].list = side[p].list, UNCHANGED db,
         relays' \subseteq relays, CallsAgree(p)
  PROVE SoleOK(p)'
<1>1. TouchesOwn(p) /\ ComingAgrees(p) /\ (~Fetching(p) => ListAgrees(p))
  BY DEF SoleOK
<1>2. TouchesOwn(p)'
  BY <1>1, OwnKept DEF CallsAgree
<1>3. \A x : \A d : Held(d, x) => Held(d, x)'
  BY DEF Held
<1>4. \A x : Arriving(p, x)' => Arriving(p, x)
  BY ArrivingKept DEF CallsAgree
<1>5. ComingAgrees(p)'
  BY <1>1, <1>3, <1>4, ComingStill
<1>6. ~Fetching(p)' => ListAgrees(p)'
  BY <1>1, AgreesKept DEF CallsAgree
<1> QED
  BY <1>2, <1>5, <1>6 DEF SoleOK

LEMMA SoleIdle ==
  ASSUME TInv, WayInv, SoleInv, UNCHANGED <<presenceVars, db>>,
         relays' \subseteq relays, NEW p \in Pages, Follows(p), side[p].sole,
         side'[p].list = side[p].list, CallsAgree(p)
  PROVE SoleOK(p)'
<1>1. SoleOK(p)
  BY DEF SoleInv
<1> QED
  BY <1>1, PresenceSame, SoleStays

LEMMA OrphansAgree ==
  ASSUME TInv, NEW p \in Pages, NEW gone, p \notin gone,
         calls' = Orphaned(gone), \A c \in calls : IsTouch(c) => c.page = p
  PROVE CallsAgree(p)
<1>1. \A b \in calls' : \E c \in calls : OrphanOf(b, c, gone)
  BY OrphanedAre DEF TInv
<1>2. \A c \in calls : c.page \notin gone =>
        \E b \in calls' : OrphanOf(b, c, gone)
  BY OrphanedAre DEF TInv
<1>3. ASSUME NEW b, NEW c \in calls, OrphanOf(b, c, gone), c.page \notin gone
      PROVE b = c
  BY <1>3, CallTypes DEF OrphanOf, TInv
<1>4. ASSUME NEW b \in calls', b.page = p PROVE b \in calls
  <2>1. PICK c \in calls : OrphanOf(b, c, gone)
    BY <1>1
  <2>2. c.page = b.page
    BY <2>1 DEF OrphanOf
  <2> QED
    BY <1>3, <1>4, <2>1, <2>2
<1>5. ASSUME NEW c \in calls, c.page = p PROVE c \in calls'
  BY <1>2, <1>3, <1>5
<1>6. ASSUME NEW c, IsTouch(c) PROVE c \in calls' <=> c \in calls
  <2>1. ASSUME c \in calls' PROVE c.page = p
    <3>1. PICK a \in calls : OrphanOf(c, a, gone)
      BY <1>1, <2>1
    <3>2. IsTouch(a) /\ a.page = c.page
      BY <1>6, <3>1 DEF OrphanOf, IsTouch
    <3> QED
      BY <3>2
  <2> QED
    BY <1>4, <1>5, <1>6, <2>1
<1>7. AnswersKept(p)
  BY <1>1 DEF AnswersKept, OrphanOf
<1>8. Fetching(p)' <=> Fetching(p)
  BY <1>4, <1>5 DEF Fetching
<1> QED
  BY <1>6, <1>7, <1>8 DEF CallsAgree

LEMMA SolePresence ==
  ASSUME TInv, WayInv, SoleInv, PresenceStep PROVE SoleInv'
<1> DEFINE left == {p \in Pages : tab'[p].at # "open"}
<1>1. calls' = Orphaned(left) /\ UNCHANGED <<db, relays>>
  BY DEF PresenceStep
<1> SUFFICES ASSUME NEW p \in Pages, Follows(p)', side'[p].sole
             PROVE SoleOK(p)'
  BY DEF SoleInv, SoleOK
<1>2. /\ tab'[p].doc = tab[p].doc /\ Conn(p)' = Conn(p) /\ Embeds(p)
      /\ side'[p] = side[p] /\ Follows(p) /\ p \notin left
  BY PresenceFollows
<1> HIDE DEF left
<1>3. SoleOK(p) /\ TouchesOwn(p)
  BY <1>2 DEF SoleInv, SoleOK
<1>4. CallsAgree(p)
  BY <1>1, <1>2, <1>3, OrphansAgree DEF TouchesOwn
<1> QED
  BY <1>1, <1>2, <1>3, <1>4, SoleStays

LEMMA SoleClose ==
  ASSUME TInv, WayInv, SoleInv, NEW p \in Pages, CloseSidebar(p)
  PROVE SoleInv'
<1>1. /\ calls' = Orphaned({p}) /\ side' = [side EXCEPT ![p] = Folded]
      /\ UNCHANGED <<presenceVars, db, relays, complete>>
  BY DEF CloseSidebar
<1> SUFFICES ASSUME NEW q \in Pages, Follows(q)', side'[q].sole
             PROVE SoleOK(q)'
  BY DEF SoleInv, SoleOK
<1>2. q # p /\ side'[q] = side[q]
  BY <1>1 DEF TInv, CTypes, Folded, Follows
<1>3. Follows(q)
  BY <1>1, <1>2, PresenceSame DEF Follows
<1>4. TouchesOwn(q)
  BY <1>2, <1>3 DEF SoleInv, SoleOK
<1>5. CallsAgree(q)
  <2>1. q \notin {p}
    BY <1>2
  <2> QED
    BY <1>1, <1>4, <2>1, OrphansAgree DEF TouchesOwn
<1> QED
  BY <1>1, <1>2, <1>3, <1>5, SoleIdle

\* A request that is sent, and touches nothing, changes nothing yet.
LEMMA SentAgrees ==
  ASSUME NEW p \in Pages, NEW b, calls' = calls \cup {b}, b.pc = "sent",
         ~IsTouch(b), b.kind = "fetch" => b.page # p
  PROVE CallsAgree(p)
<1>1. Fetching(p)' <=> Fetching(p)
  BY DEF Fetching
<1> QED
  BY <1>1 DEF CallsAgree, AnswersKept

LEMMA SoleOpen ==
  ASSUME TInv, WayInv, SoleInv, NEW p \in Pages, OpenSidebar(p)
  PROVE SoleInv'
<1>0. PICK new : new = NewCall(p, "fetch", 0)
  OBVIOUS
<1>1. /\ calls' = calls \cup {new} /\ ~side[p].open
      /\ UNCHANGED <<presenceVars, db, relays, complete>>
  BY <1>0 DEF OpenSidebar
<1>2. /\ ~side'[p].overtaken => ~UnderWay(p, tab[p].doc)
      /\ side'[p].sole => \A c \in calls : ~IsTouch(c)
      /\ \A q \in Pages \ {p} : side'[q] = side[q]
  BY DEF TInv, CTypes, OpenSidebar, IsTouch
<1>3. /\ new.kind = "fetch" /\ new.page = p /\ new.pc = "sent"
      /\ ~IsTouch(new)
  BY <1>0 DEF NewCall, IsTouch
<1> SUFFICES ASSUME NEW q \in Pages, Follows(q)', side'[q].sole
             PROVE SoleOK(q)'
  BY DEF SoleInv, SoleOK
<1>4. tab' = tab /\ wire' = wire /\ Connected(q)' = Connected(q)
      /\ Conn(q)' = Conn(q)
  BY <1>1 DEF presenceVars, Connected, Shows, Conn
<1>5. CASE q = p
  <2>1. \A c \in calls : c.page = p => c.kind # "fetch"
    BY <1>1, FetchesAreMine
  <2>2. ~UnderWay(p, tab[p].doc) /\ \A c \in calls : ~IsTouch(c)
    BY <1>2, <1>5 DEF Follows
  <2>3. TouchesOwn(p)'
    BY <1>1, <1>3, <2>2 DEF TouchesOwn, IsTouch
  <2>4. ASSUME NEW x \in Comment, Arriving(p, x)', x.doc = tab'[p].doc
        PROVE FALSE
    <3>1. \A i \in 1..Len(wire'[p]) : ~IsComment(wire'[p][i])
      BY <1>4, <2>2 DEF UnderWay, IsComment
    <3>2. \A r \in relays' : r.comment # x
      BY <1>1, <1>4, <2>2, <2>4 DEF UnderWay
    <3>3. ASSUME NEW c \in calls', c.pc = "served",
                 c.kind = "fetch" => c.page = p, NEW i \in DOMAIN c.data,
                 c.data[i] = x
          PROVE FALSE
      <4>1. c \in calls /\ c.kind = "post"
        BY <1>1, <1>3, <2>1, <2>2, <3>3, CallTypes DEF IsTouch, TInv
      <4>2. c.data[i].doc = c.doc
        BY <3>3, <4>1 DEF WayInv, CallOK, ServedOK
      <4> QED
        BY <1>4, <2>2, <2>4, <3>3, <4>1, <4>2 DEF UnderWay
    <3> QED
      BY <2>4, <3>1, <3>2, <3>3 DEF Arriving
  <2>5. ComingAgrees(p)'
    BY <2>4 DEF ComingAgrees
  <2>6. Fetching(p)'
    BY <1>1, <1>3 DEF Fetching
  <2> QED
    BY <1>5, <2>3, <2>5, <2>6 DEF SoleOK
<1>6. CASE q # p
  <2>1. Follows(q)
    BY <1>1, <1>2, <1>4, <1>6 DEF Follows
  <2>2. CallsAgree(q) /\ side'[q] = side[q]
    BY <1>1, <1>2, <1>3, <1>6, SentAgrees
  <2> QED
    BY <1>1, <2>1, <2>2, SoleIdle
<1> QED
  BY <1>5, <1>6

LEMMA SolePost ==
  ASSUME TInv, WayInv, SoleInv, NEW p \in Pages, Post(p)
  PROVE SoleInv'
<1>0. PICK new : new = NewCall(p, "post", posts')
  OBVIOUS
<1>1. /\ calls' = calls \cup {new}
      /\ UNCHANGED <<presenceVars, db, relays, complete>>
  BY <1>0 DEF Post
<1>2. new.kind = "post" /\ new.pc = "sent" /\ ~IsTouch(new)
  BY <1>0 DEF NewCall, IsTouch
<1> SUFFICES ASSUME NEW q \in Pages, Follows(q)', side'[q].sole
             PROVE SoleOK(q)'
  BY DEF SoleInv, SoleOK
<1>3. /\ side'[q].open = side[q].open /\ side'[q].list = side[q].list
      /\ side'[q].sole = side[q].sole
      /\ side[q].overtaken => side'[q].overtaken
  <2>1. side[q] \in Sidebar
    BY SideTypes DEF TInv
  <2>2. side'[q] = IF Waits(q, {"fetch"}) # {} /\ tab[q].doc = tab[p].doc
                   THEN [side[q] EXCEPT !.overtaken = TRUE] ELSE side[q]
    BY DEF Post
  <2> QED
    BY <2>1, <2>2 DEF Sidebar
<1>4. Follows(q) /\ side[q].sole
  BY <1>1, <1>3, PresenceSame DEF Follows
<1>5. CallsAgree(q)
  BY <1>1, <1>2, SentAgrees
<1> QED
  BY <1>1, <1>3, <1>4, <1>5, SoleIdle

\* p touches a thread, and waits for nothing.
LEMMA SoleTouch ==
  ASSUME TInv, WayInv, SoleInv, NEW p \in Pages,
         NEW kind \in {"reply", "resolve"}, NEW x, Touch(p, kind, x)
  PROVE SoleInv'
<1>0. PICK new : new = NewCall(p, kind, x.id)
  OBVIOUS
<1>1. /\ calls' = calls \cup {new} /\ x \in ToSet(side[p].list)
      /\ UNCHANGED <<presenceVars, db, relays, complete>>
  BY <1>0 DEF Touch
<1>2. /\ new.kind = kind /\ new.pc = "sent" /\ IsTouch(new) /\ new.page = p
      /\ new.mine /\ new.id = x.id
  BY <1>0 DEF NewCall, IsTouch
<1> SUFFICES ASSUME NEW q \in Pages, Follows(q)', side'[q].sole
             PROVE SoleOK(q)'
  BY DEF SoleInv, SoleOK
<1>3. /\ side'[q].open = side[q].open /\ side'[q].list = side[q].list
      /\ side'[q].overtaken = side[q].overtaken
      /\ side[q].sole /\ q = p /\ Waits(p, {"fetch", "reply", "resolve"}) = {}
  BY SideTypes DEF Touch, Sidebar, TInv
<1>4. Follows(p)
  BY <1>1, <1>3, PresenceSame DEF Follows
<1>5. TouchesOwn(p) /\ ComingAgrees(p) /\ (~Fetching(p) => ListAgrees(p))
  BY <1>3, <1>4 DEF SoleInv, SoleOK
<1>6. ~Fetching(p) /\ ~Fetching(p)'
  <2>1. ~Fetching(p)
    BY <1>3, FetchesAreMine DEF Fetching, Waits
  <2> QED
    BY <1>1, <1>2, <2>1 DEF Fetching, IsTouch
<1>7. \A c \in calls : ~IsTouch(c)
  BY <1>3, <1>5 DEF TouchesOwn, Waits, IsTouch
<1>8. TouchesOwn(p)'
  <2>1. \E i \in DOMAIN side'[p].list : side'[p].list[i].id = new.id
    BY <1>1, <1>2, <1>3 DEF ToSet
  <2>2. \A c \in calls' : IsTouch(c) => c = new
    BY <1>1, <1>7
  <2> QED
    BY <1>2, <1>6, <2>1, <2>2 DEF TouchesOwn, IsTouch
<1>9. ListAgrees(p)'
  BY <1>1, <1>3, <1>5, <1>6, <1>7, AgreesKept, PresenceSame
<1>10. ComingAgrees(p)'
  <2>1. AnswersKept(p)
    BY <1>1, <1>2 DEF AnswersKept
  <2>2. \A y : Arriving(p, y)' => Arriving(p, y)
    BY <1>1, <2>1, ArrivingKept, PresenceSame
  <2>3. \A y : \A d : Held(d, y) => Held(d, y)'
    BY <1>1 DEF Held
  <2> QED
    BY <1>1, <1>5, <2>2, <2>3, ComingStill, PresenceSame
<1> QED
  BY <1>3, <1>8, <1>9, <1>10 DEF SoleOK

\* The request c ends or fails, and nothing else happens.
LEMMA SoleEnds ==
  ASSUME TInv, WayInv, SoleInv, NEW p \in Pages, NEW c \in calls, NEW b,
         Follows(p), side[p].sole, UNCHANGED <<tab, current, wire, db, relays>>,
         side'[p].list = side[p].list,
         b.kind = c.kind, b.page = c.page, b.id = c.id, b.mine = c.mine,
         b.pc # "served", ~IsTouch(c) \/ b.pc = "failed",
         \/ calls' = (calls \ {c}) \cup {b}
         \/ ~IsTouch(c) /\ calls' = calls \ {c}
                        /\ (c.kind = "fetch" => c.page # p)
  PROVE SoleOK(p)'
<1>1. TouchesOwn(p) /\ ComingAgrees(p) /\ (~Fetching(p) => ListAgrees(p))
  BY DEF SoleInv, SoleOK
<1>2. Fetching(p)' <=> Fetching(p)
  BY DEF Fetching
<1>3. AnswersKept(p)
  BY DEF AnswersKept
<1>4. Conn(p)' = Conn(p) /\ Embeds(p)
  BY SameWire DEF Conn
<1>5. ComingAgrees(p)'
  <2>1. \A y : Arriving(p, y)' => Arriving(p, y)
    BY <1>3, <1>4, ArrivingKept
  <2>2. \A y : \A d : Held(d, y) => Held(d, y)'
    BY DEF Held
  <2> QED
    BY <1>1, <2>1, <2>2, ComingStill
<1>6. CASE ~IsTouch(c)
  <2>1. \A a : IsTouch(a) => (a \in calls' <=> a \in calls)
    BY <1>6 DEF IsTouch
  <2>2. CallsAgree(p)
    BY <1>2, <1>3, <2>1 DEF CallsAgree
  <2>3. SoleOK(p)
    BY DEF SoleInv
  <2> QED
    BY <1>4, <2>2, <2>3, SoleStays
<1>7. CASE IsTouch(c)
  <2>1. /\ calls' = (calls \ {c}) \cup {b} /\ b.pc = "failed" /\ IsTouch(b)
    BY <1>7 DEF IsTouch
  <2>2. /\ c.page = p /\ c.mine /\ ~Fetching(p)
        /\ \A a \in calls : IsTouch(a) => a = c
        /\ \E i \in DOMAIN side[p].list : side[p].list[i].id = c.id
    BY <1>1, <1>7 DEF TouchesOwn
  <2>3. TouchesOwn(p)'
    <3> SUFFICES ASSUME NEW a \in calls', IsTouch(a)
                 PROVE /\ a.page = p /\ a.mine /\ ~Fetching(p)'
                       /\ \A e \in calls' : IsTouch(e) => e = a
                       /\ \E i \in DOMAIN side'[p].list :
                            side'[p].list[i].id = a.id
      BY DEF TouchesOwn, IsTouch
    <3>1. \A e \in calls' : IsTouch(e) => e = b
      BY <2>1, <2>2
    <3> QED
      BY <1>2, <2>2, <3>1
  <2>4. \A x : \A y : Touching(x, y) => Touching(x, y)'
    <3> SUFFICES ASSUME NEW x, NEW y, Touching(x, y) PROVE Touching(x, y)'
      OBVIOUS
    <3>1. c.id = x.id
      BY <2>2 DEF Touching
    <3>2. /\ b \in calls' /\ b.id = x.id /\ b.pc # "sent" /\ b.pc # "served"
      BY <2>1, <3>1
    <3> QED
      BY <2>1, <3>2 DEF Touching, IsTouch
  <2>5. ListAgrees(p)'
    BY <1>1, <2>2, <2>4, OwnCommentsKept DEF ListAgrees
  <2> QED
    BY <1>5, <2>3, <2>5 DEF SoleOK
<1> QED
  BY <1>6, <1>7

LEMMA SoleFails ==
  ASSUME TInv, WayInv, SoleInv, NEW c \in calls, CallFails(c)
  PROVE SoleInv'
<1>1. PICK b : b = [c EXCEPT !.pc = "failed"]
  OBVIOUS
<1>2. /\ b.kind = c.kind /\ b.id = c.id /\ b.doc = c.doc /\ b.page = c.page
      /\ b.mine = c.mine /\ b.pc = "failed"
  BY <1>1, CallTypes DEF TInv
<1>3. /\ calls' = (calls \ {c}) \cup {b}
      /\ complete' => complete
      /\ UNCHANGED <<tab, wire, current, db, relays, side>>
  BY <1>1 DEF CallFails
<1> SUFFICES ASSUME NEW p \in Pages, Follows(p)', side'[p].sole
             PROVE SoleOK(p)'
  BY DEF SoleInv, SoleOK
<1>4. Follows(p)
  BY <1>3 DEF Follows, Connected, Shows
<1> QED
  BY <1>2, <1>3, <1>4, SoleEnds

LEMMA SoleRefused ==
  ASSUME TInv, WayInv, SoleInv, NEW c \in calls, Refused(c)
  PROVE SoleInv'
<1>1. /\ c.pc = "failed" /\ calls' = calls \ {c}
      /\ UNCHANGED <<presenceVars, db, relays, complete>>
      /\ UNCHANGED <<tab, wire, current>>
  BY DEF Refused, presenceVars
<1> SUFFICES ASSUME NEW p \in Pages, Follows(p)', side'[p].sole
             PROVE SoleOK(p)'
  BY DEF SoleInv, SoleOK
<1>2. /\ side'[p].open = side[p].open /\ side'[p].list = side[p].list
      /\ side[p].overtaken => side'[p].overtaken
      /\ side[p].sole
      /\ c.mine => c.page # p
  <2>1. side \in [Pages -> Sidebar]
    BY DEF TInv, CTypes
  <2> QED
    BY <2>1 DEF Refused, Sidebar
<1>3. Follows(p)
  BY <1>1, <1>2, PresenceSame DEF Follows
<1>4. ~IsTouch(c)
  BY <1>2, <1>3 DEF SoleInv, SoleOK, TouchesOwn
<1>5. c.kind = "fetch" => c.page # p
  BY <1>2, FetchesAreMine
<1> QED
  BY <1>1, <1>2, <1>3, <1>4, <1>5, SoleEnds

LEMMA SoleRelay ==
  ASSUME TInv, WayInv, SoleInv, NEW r \in relays, Relay(r)
  PROVE SoleInv'
<1>1. /\ relays' = relays \ {r}
      /\ UNCHANGED <<tab, current, db, side, calls>>
      /\ complete' => complete
  BY DEF Relay
<1> SUFFICES ASSUME NEW p \in Pages, Follows(p)', side'[p].sole
             PROVE SoleOK(p)'
  BY DEF SoleInv, SoleOK
<1>2. PICK x, e : x = r.comment /\ e = CommentEvent(x)
  OBVIOUS
<1>3. IsComment(e) /\ e.comment = x
  BY <1>2 DEF CommentEvent, IsComment
<1>4. wire'[p] = IF Hears(p, x.doc, r.conn) THEN Append(wire[p], e)
                 ELSE wire[p]
  BY <1>2 DEF Relay, Sent, CommentEvent, Follows
<1>5. /\ Follows(p) /\ Conn(p)' = Conn(p) /\ (Fetching(p)' <=> Fetching(p))
      /\ side[p].sole
  BY <1>1 DEF Follows, Connected, Shows, Conn, Fetching
<1>6. TouchesOwn(p) /\ ComingAgrees(p) /\ (~Fetching(p) => ListAgrees(p))
  BY <1>5 DEF SoleInv, SoleOK
<1>7. PICK s : s = wire[p] /\ s \in Seq(Alpha)
  BY TabTypes DEF TInv, PInv
<1>8. \A i \in 1..Len(Append(s, e)) :
        \/ i \in 1..Len(s) /\ Append(s, e)[i] = s[i]
        \/ Append(s, e)[i] = e
  BY <1>7
<1>9. ASSUME NEW y, Arriving(p, y)' PROVE Arriving(p, y)
  <2>1. CASE \E i \in 1..Len(wire'[p]) :
               IsComment(wire'[p][i]) /\ wire'[p][i].comment = y
    <3>1. PICK i \in 1..Len(wire'[p]) :
            IsComment(wire'[p][i]) /\ wire'[p][i].comment = y
      BY <2>1
    <3>2. CASE i \in 1..Len(s) /\ wire'[p][i] = s[i]
      BY <1>7, <3>1, <3>2 DEF Arriving
    <3>3. CASE Hears(p, x.doc, r.conn) /\ wire'[p][i] = e
      <4>1. r.conn # Conn(p) /\ r.comment = y
        BY <1>2, <1>3, <3>1, <3>3 DEF Hears
      <4> QED
        BY <4>1 DEF Arriving
    <3> QED
      BY <1>4, <1>7, <1>8, <3>1, <3>2, <3>3
  <2>2. CASE \E q \in relays' : q.conn # Conn(p)' /\ q.comment = y
    BY <1>1, <1>5, <2>2 DEF Arriving
  <2>3. CASE \E c \in calls' : /\ c.pc = "served"
                               /\ (c.kind = "fetch" => c.page = p)
                               /\ \E i \in DOMAIN c.data : c.data[i] = y
    BY <1>1, <2>3 DEF Arriving
  <2> QED
    BY <1>9, <2>1, <2>2, <2>3 DEF Arriving
<1>10. ComingAgrees(p)'
  BY <1>1, <1>6, <1>9, ComingStill DEF Held
<1>11. TouchesOwn(p)'
  BY <1>1, <1>5, <1>6, OwnKept
<1>12. ~Fetching(p)' => ListAgrees(p)'
  BY <1>1, <1>5, <1>6, AgreesKept
<1> QED
  BY <1>10, <1>11, <1>12 DEF SoleOK

\* A comment as it is comes first in the list of p.
LEMMA PrependAgrees ==
  ASSUME TInv, WayInv, NEW p \in Pages, side[p].open,
         tab'[p].doc = tab[p].doc, db' = db,
         NEW x \in Comment, x.doc = tab[p].doc => Held(x.doc, x),
         side'[p].list = <<x>> \o side[p].list,
         \A c \in calls : IsTouch(c) => c \in calls'
  PROVE /\ ListAgrees(p) => ListAgrees(p)'
        /\ \A i \in DOMAIN side[p].list : \E j \in DOMAIN side'[p].list :
             side'[p].list[j].id = side[p].list[i].id
<1>1. PICK s, d, t : s = side[p].list /\ d = tab[p].doc /\ t = <<x>> \o s
  OBVIOUS
<1>2. /\ s \in Seq(Comment) /\ d \in Docs /\ tab'[p].doc = d
      /\ side'[p].list = t
  BY <1>1, SideTypes, OpenTypes DEF TInv
<1>3. /\ \A i \in DOMAIN s : i + 1 \in DOMAIN t /\ t[i + 1] = s[i]
      /\ \A i \in DOMAIN t :
           t[i] = x \/ (i - 1 \in DOMAIN s /\ t[i] = s[i - 1])
  BY <1>1, <1>2, PutFirst
<1>4. ASSUME ListAgrees(p) PROVE ListAgrees(p)'
  <2> SUFFICES ASSUME NEW z \in OwnComments(p)', NEW y \in ToSet(db'[d]),
                      y.id = z.id
               PROVE z = y \/ Touching(z, y)'
    BY <1>2 DEF ListAgrees
  <2>1. z \in OwnComments(p) \/ (z = x /\ x.doc = d)
    BY <1>1, <1>2, <1>3 DEF OwnComments, Own
  <2>2. CASE z \in OwnComments(p)
    <3>1. z = y \/ Touching(z, y)
      BY <1>1, <1>4, <2>2 DEF ListAgrees
    <3> QED
      BY <3>1 DEF Touching, IsTouch
  <2>3. CASE z = x /\ x.doc = d
    <3>1. Held(d, x) /\ Held(d, y)
      BY <1>1, <2>3 DEF Held
    <3> QED
      BY <1>2, <2>3, <3>1, HeldOnce
  <2> QED
    BY <2>1, <2>2, <2>3
<1>5. ASSUME NEW i \in DOMAIN s PROVE \E j \in DOMAIN t : t[j].id = s[i].id
  BY <1>3
<1> QED
  BY <1>1, <1>2, <1>4, <1>5

LEMMA SoleReceive ==
  ASSUME TInv, WayInv, SoleInv, NEW p \in Pages, ReceiveComment(p)
  PROVE SoleInv'
<1>1. /\ side' = IF ~side[p].open THEN side
                 ELSE [side EXCEPT ![p].list = <<Head(wire[p]).comment>> \o @]
      /\ UNCHANGED <<tab, current, db, calls, relays, complete>>
      /\ wire[p] # <<>> /\ IsComment(Head(wire[p]))
      /\ wire' = [wire EXCEPT ![p] = Tail(@)]
  BY DEF ReceiveComment, NextEvent, IsComment
<1> SUFFICES ASSUME NEW q \in Pages, Follows(q)', side'[q].sole
             PROVE SoleOK(q)'
  BY DEF SoleInv, SoleOK
<1>2. /\ side'[q].open = side[q].open
      /\ side'[q].overtaken = side[q].overtaken
      /\ side'[q].sole = side[q].sole
      /\ q # p => side'[q] = side[q]
  BY <1>1 DEF TInv, CTypes, Sidebar
<1>3. /\ Follows(q) /\ Conn(q)' = Conn(q) /\ (Fetching(q)' <=> Fetching(q))
      /\ side[q].sole
  BY <1>1, <1>2 DEF Follows, Connected, Shows, Conn, Fetching
<1>4. Embeds(q)
  <2>1. wire'[q] = IF q = p THEN Tail(wire[q]) ELSE wire[q]
    BY <1>1 DEF TInv, PInv, PTypes
  <2> QED
    BY <1>1, <2>1, ReadWire, SameWire
<1>5. /\ SoleOK(q) /\ TouchesOwn(q) /\ ComingAgrees(q)
      /\ (~Fetching(q) => ListAgrees(q))
  BY <1>3 DEF SoleInv, SoleOK
<1>6. AnswersKept(q) /\ CallsAgree(q)
  BY <1>1, <1>3 DEF AnswersKept, CallsAgree
<1>7. CASE q # p
  BY <1>1, <1>2, <1>3, <1>4, <1>5, <1>6, <1>7, SoleStays
<1>8. CASE q = p
  <2>1. PICK x : x = Head(wire[p]).comment
    OBVIOUS
  <2>2. x \in Comment /\ Arriving(p, x)
    <3>1. PICK s : s = wire[p] /\ s \in Seq(Alpha)
      BY TabTypes DEF TInv, PInv
    <3>2. 1 \in 1..Len(s) /\ Head(s) = s[1]
      BY <1>1, <3>1
    <3> QED
      BY <1>1, <2>1, <3>1, <3>2, HeadComment DEF Arriving
  <2>3. side[p].open /\ side'[p].list = <<x>> \o side[p].list
    BY <1>1, <1>3, <1>8, <2>1 DEF TInv, CTypes, Sidebar, Follows
  <2>4. x.doc = tab[p].doc => Held(x.doc, x)
    BY <1>5, <1>8, <2>2 DEF ComingAgrees
  <2>5. /\ ListAgrees(p) => ListAgrees(p)'
        /\ \A i \in DOMAIN side[p].list : \E j \in DOMAIN side'[p].list :
             side'[p].list[j].id = side[p].list[i].id
    BY <1>1, <2>2, <2>3, <2>4, PrependAgrees
  <2>6. TouchesOwn(p)'
    BY <1>1, <1>3, <1>5, <1>8, <2>5, OwnKept
  <2>7. ComingAgrees(p)'
    <3>1. \A y : Arriving(p, y)' => Arriving(p, y)
      BY <1>1, <1>3, <1>4, <1>6, <1>8, ArrivingKept
    <3> QED
      BY <1>1, <1>5, <1>8, <3>1, ComingStill DEF Held
  <2> QED
    BY <1>3, <1>5, <1>8, <2>5, <2>6, <2>7 DEF SoleOK
<1> QED
  BY <1>7, <1>8

LEMMA SoleAnswered ==
  ASSUME TInv, WayInv, FollowInv, SoleInv, NEW c \in calls, Answered(c)
  PROVE SoleInv'
<1>1. /\ c.pc = "served" /\ calls' = calls \ {c} /\ c.page \in Pages
      /\ side' = IF c.mine THEN [side EXCEPT ![c.page].list = Shown(@, c)]
                 ELSE side
      /\ relays' = IF c.kind # "post" THEN relays
                   ELSE relays \cup {[conn |-> Conn(c.page),
                                      comment |-> c.data[1]]}
      /\ UNCHANGED <<presenceVars, db, complete>>
  BY CallTypes DEF Answered, TInv
<1> SUFFICES ASSUME NEW p \in Pages, Follows(p)', side'[p].sole
             PROVE SoleOK(p)'
  BY DEF SoleInv, SoleOK
<1>2. /\ side'[p].open = side[p].open
      /\ side'[p].overtaken = side[p].overtaken
      /\ side'[p].sole = side[p].sole
      /\ p # c.page \/ ~c.mine => side'[p].list = side[p].list
      /\ p = c.page /\ c.mine =>
           side'[p].list = Shown(side[p].list, c)
  <2>1. side \in [Pages -> Sidebar]
    BY DEF TInv, CTypes
  <2> HIDE DEF Shown
  <2> QED
    BY <1>1, <2>1 DEF Sidebar
<1>3. /\ tab' = tab /\ wire' = wire /\ current' = current
      /\ Conn(p)' = Conn(p) /\ Embeds(p)
  BY <1>1, PresenceSame DEF presenceVars
<1>4. Follows(p) /\ side[p].sole
  BY <1>1, <1>2, PresenceSame DEF Follows
<1>5. TouchesOwn(p) /\ ComingAgrees(p) /\ (~Fetching(p) => ListAgrees(p))
  BY <1>4 DEF SoleInv, SoleOK
<1>6. PICK d \in Docs : d = tab[p].doc
  BY <1>4, OpenTypes DEF Follows
<1>7. AnswersKept(p)
  BY <1>1 DEF AnswersKept
<1>8. CASE c.kind # "post"
  <2>1. ComingAgrees(p)'
    <3>1. \A y : Arriving(p, y)' => Arriving(p, y)
      BY <1>1, <1>3, <1>7, <1>8, ArrivingKept
    <3> QED
      BY <1>1, <1>3, <1>5, <3>1, ComingStill DEF Held
  <2>2. ASSUME c.page = p, c.mine, NEW i \in DOMAIN c.data
        PROVE Held(d, c.data[i]) /\ c.data[i].doc = d
    <3>1. PICK x : x = c.data[i]
      OBVIOUS
    <3>2. Arriving(p, x) /\ x \in Comment
      BY <1>1, <2>2, <3>1, CallTypes DEF Arriving, TInv
    <3>3. x.doc = d
      BY <1>1, <1>6, <2>2, <3>1 DEF WayInv, CallOK, ServedOK
    <3> QED
      BY <1>5, <1>6, <3>1, <3>2, <3>3 DEF ComingAgrees
  <2>3. CASE c.kind = "fetch" /\ c.page = p
    <3>1. Fetching(p) /\ c.mine
      BY <2>3, FetchesAreMine
    <3>2. TouchesOwn(p)'
      BY <1>1, <1>5, <3>1 DEF TouchesOwn, IsTouch
    <3>3. side'[p].list = c.data
      BY <1>2, <2>3, <3>1 DEF Shown
    <3>4. ASSUME NEW z \in OwnComments(p)', NEW y \in ToSet(db'[d]),
                 y.id = z.id
          PROVE z = y
      <4>1. Held(d, z)
        BY <2>2, <2>3, <3>1, <3>3, <3>4 DEF OwnComments, Own
      <4>2. Held(d, y)
        BY <1>1, <3>4 DEF Held
      <4> QED
        BY <3>4, <4>1, <4>2, HeldOnce
    <3>5. ListAgrees(p)'
      BY <1>3, <1>6, <3>4 DEF ListAgrees
    <3> QED
      BY <2>1, <3>2, <3>5 DEF SoleOK
  <2>4. CASE ~IsTouch(c) /\ ~(c.kind = "fetch" /\ c.page = p)
    <3>1. side'[p].list = side[p].list
      BY <1>1, <1>2, <1>8, <2>4, CallTypes DEF IsTouch, TInv
    <3>2. Fetching(p)' <=> Fetching(p)
      BY <1>1, <2>4 DEF Fetching
    <3>3. \A a : IsTouch(a) => (a \in calls' <=> a \in calls)
      BY <1>1, <2>4
    <3>4. CallsAgree(p)
      BY <1>7, <3>2, <3>3 DEF CallsAgree
    <3> QED
      BY <1>1, <1>4, <1>8, <3>1, <3>4, SoleIdle
  <2>5. CASE IsTouch(c)
    <3>1. /\ c.page = p /\ c.mine /\ ~Fetching(p)
          /\ \A b \in calls : IsTouch(b) => b = c
      BY <1>5, <2>5 DEF TouchesOwn
    <3>2. TouchesOwn(p)'
      BY <1>1, <3>1 DEF TouchesOwn, IsTouch
    <3>3. PICK s, x : s = side[p].list /\ x = c.data[1]
      OBVIOUS
    <3>4. /\ s \in Seq(Comment) /\ x \in Comment
          /\ 1 \in DOMAIN c.data /\ x.id = c.id
      <4>1. c.data \in Seq(Comment) /\ Len(c.data) = 1 /\ c.kind # "fetch"
        BY <1>1, <2>5, CallTypes DEF TInv, IsTouch
      <4>2. 1 \in DOMAIN c.data
        BY <4>1
      <4> QED
        BY <1>1, <3>3, <4>1, <4>2, SideTypes
        DEF TInv, WayInv, CallOK, ServedOK
    <3>5. side'[p].list = Update(s, c.id, x)
      BY <1>2, <2>5, <3>1, <3>3 DEF Shown, IsTouch
    <3>6. /\ DOMAIN Update(s, c.id, x) = DOMAIN s
          /\ \A i \in DOMAIN s :
               Update(s, c.id, x)[i] = IF s[i].id = c.id THEN x ELSE s[i]
      BY <3>4, UpdateTypes
    <3>7. ASSUME NEW z \in OwnComments(p)', NEW y \in ToSet(db'[d]),
                 y.id = z.id
          PROVE z = y
      <4>1. z = x \/ (z \in OwnComments(p) /\ z.id # c.id)
        BY <1>3, <3>3, <3>5, <3>6 DEF OwnComments, Own
      <4>2. CASE z = x
        BY <1>1, <2>2, <3>1, <3>3, <3>4, <3>7, <4>2, HeldOnce DEF Held
      <4>3. CASE z \in OwnComments(p) /\ z.id # c.id
        <5>1. z = y \/ Touching(z, y)
          BY <1>1, <1>5, <1>6, <3>1, <3>7, <4>3 DEF ListAgrees
        <5> QED
          BY <3>1, <4>3, <5>1 DEF Touching
      <4> QED
        BY <4>1, <4>2, <4>3
    <3>8. ListAgrees(p)'
      BY <1>3, <1>6, <3>7 DEF ListAgrees
    <3> QED
      BY <2>1, <3>2, <3>8 DEF SoleOK
  <2> QED
    BY <1>1, <1>8, <2>3, <2>4, <2>5
<1>9. CASE c.kind = "post"
  <2>1. PICK x, r : x = c.data[1] /\ r = [conn |-> Conn(c.page), comment |-> x]
    OBVIOUS
  <2>2. /\ x \in Comment /\ x.doc = c.doc /\ c.data = <<x>>
        /\ relays' = relays \cup {r}
        /\ r.conn = Conn(c.page) /\ r.comment = x
    <3>1. c.data \in Seq(Comment) /\ Len(c.data) = 1
      BY <1>1, <1>9, CallTypes DEF TInv
    <3>2. c.data = <<c.data[1]>>
      BY <3>1
    <3> QED
      BY <1>1, <1>9, <2>1, <3>2, PostAnswered
  <2>3. Arriving(p, x)
    <3>1. 1 \in DOMAIN <<x>> /\ <<x>>[1] = x
      OBVIOUS
    <3> QED
      BY <1>1, <1>9, <2>2, <3>1 DEF Arriving
  <2>4. x.doc = tab[p].doc => Held(x.doc, x)
    BY <1>5, <2>2, <2>3 DEF ComingAgrees
  <2>5. ComingAgrees(p)'
    <3>1. ASSUME NEW y, Arriving(p, y)' PROVE Arriving(p, y)
      <4>1. CASE \E i \in 1..Len(wire'[p]) :
                   IsComment(wire'[p][i]) /\ wire'[p][i].comment = y
        BY <1>3, <4>1 DEF Arriving
      <4>2. CASE \E q \in relays' : q.conn # Conn(p)' /\ q.comment = y
        BY <1>3, <2>2, <2>3, <4>2 DEF Arriving
      <4>3. CASE \E b \in calls' : /\ b.pc = "served"
                                   /\ (b.kind = "fetch" => b.page = p)
                                   /\ \E i \in DOMAIN b.data : b.data[i] = y
        BY <1>1, <4>3 DEF Arriving
      <4> QED
        BY <3>1, <4>1, <4>2, <4>3 DEF Arriving
    <3> QED
      BY <1>1, <1>3, <1>5, <3>1, ComingStill DEF Held
  <2>6. Fetching(p)' <=> Fetching(p)
    BY <1>1, <1>9 DEF Fetching
  <2>7. \A b : IsTouch(b) => (b \in calls' <=> b \in calls)
    BY <1>1, <1>9 DEF IsTouch
  <2>8. CASE c.page = p /\ c.mine
    <3>1. side'[p].list = <<x>> \o side[p].list
      BY <1>2, <1>9, <2>2, <2>8 DEF Shown
    <3>2. /\ ListAgrees(p) => ListAgrees(p)'
          /\ \A i \in DOMAIN side[p].list : \E j \in DOMAIN side'[p].list :
               side'[p].list[j].id = side[p].list[i].id
      <4>1. tab'[p].doc = tab[p].doc /\ db' = db /\ side[p].open
        BY <1>1, <1>3, <1>4 DEF Follows
      <4> QED
        BY <2>2, <2>4, <2>7, <3>1, <4>1, PrependAgrees
    <3>3. TouchesOwn(p)'
      BY <1>5, <2>6, <2>7, <3>2, OwnKept
    <3> QED
      BY <1>5, <2>5, <2>6, <3>2, <3>3 DEF SoleOK
  <2>9. CASE c.page # p \/ ~c.mine
    <3>1. side'[p].list = side[p].list
      BY <1>2, <2>9
    <3>2. TouchesOwn(p)'
      BY <1>5, <2>6, <2>7, <3>1, OwnKept
    <3>3. ListAgrees(p) => ListAgrees(p)'
      BY <1>1, <1>3, <2>7, <3>1, AgreesKept
    <3> QED
      BY <1>5, <2>5, <2>6, <3>2, <3>3 DEF SoleOK
  <2> QED
    BY <2>8, <2>9
<1> QED
  BY <1>8, <1>9

\* What arrives once the request c has become b.
LEMMA ArrivingServed ==
  ASSUME NEW p \in Pages, UNCHANGED relays, Conn(p)' = Conn(p), Embeds(p),
         NEW c, NEW b, calls' \subseteq (calls \ {c}) \cup {b},
         NEW x, Arriving(p, x)'
  PROVE \/ Arriving(p, x)
        \/ /\ b.kind = "fetch" => b.page = p
           /\ \E i \in DOMAIN b.data : b.data[i] = x
<1>1. CASE \E i \in 1..Len(wire'[p]) :
             IsComment(wire'[p][i]) /\ wire'[p][i].comment = x
  BY <1>1 DEF Embeds, Arriving
<1>2. CASE \E r \in relays' : r.conn # Conn(p) /\ r.comment = x
  BY <1>2 DEF Arriving
<1>3. CASE \E a \in calls' : /\ a.pc = "served"
                             /\ (a.kind = "fetch" => a.page = p)
                             /\ \E i \in DOMAIN a.data : a.data[i] = x
  BY <1>3 DEF Arriving
<1> QED
  BY <1>1, <1>2, <1>3 DEF Arriving

LEMMA SoleServeFetch ==
  ASSUME TInv, WayInv, SoleInv, NEW p \in Pages, Follows(p), side[p].sole,
         NEW c \in calls, c.kind = "fetch", NEW b,
         b = Answer(c, "served", Fetched(c.doc)), Became(c, b),
         UNCHANGED <<presenceVars, side, relays, db>>
  PROVE SoleOK(p)'
<1>1. TouchesOwn(p) /\ ComingAgrees(p) /\ (~Fetching(p) => ListAgrees(p))
  BY DEF SoleInv, SoleOK
<1>2. tab' = tab /\ Conn(p)' = Conn(p) /\ Embeds(p)
  BY PresenceSame
<1>3. /\ b.kind = "fetch" /\ b.page = c.page /\ b.data = Fetched(c.doc)
      /\ calls' = (calls \ {c}) \cup {b} /\ c.doc = tab[c.page].doc
      /\ ~IsTouch(c) /\ ~IsTouch(b)
  BY AnswerOf, FetchesAreMine DEF Became, IsTouch
<1>4. Fetching(p)' <=> Fetching(p)
  BY <1>3 DEF Fetching
<1>5. \A a : IsTouch(a) => (a \in calls' <=> a \in calls)
  BY <1>3
<1>6. TouchesOwn(p)'
  BY <1>1, <1>4, <1>5, OwnKept
<1>7. ~Fetching(p)' => ListAgrees(p)'
  BY <1>1, <1>2, <1>4, <1>5, AgreesKept
<1>8. ASSUME NEW x \in Comment, Arriving(p, x)', x.doc = tab[p].doc
      PROVE Held(x.doc, x)
  <2>1. CASE Arriving(p, x)
    BY <1>1, <1>8, <2>1 DEF ComingAgrees
  <2>2. CASE b.page = p /\ \E i \in DOMAIN b.data : b.data[i] = x
    <3>1. db[c.doc] \in Seq(Comment)
      BY CallTypes, DbTypes DEF TInv
    <3>2. \E i \in DOMAIN db[c.doc] : db[c.doc][i] = x
      BY <1>3, <2>2, <3>1, NewestAre DEF Fetched
    <3> QED
      BY <1>3, <1>8, <2>2, <3>2 DEF Held, ToSet
  <2>3. relays' = relays /\ calls' \subseteq (calls \ {c}) \cup {b}
    BY <1>3
  <2>4. \/ Arriving(p, x)
        \/ /\ b.kind = "fetch" => b.page = p
           /\ \E i \in DOMAIN b.data : b.data[i] = x
    BY <1>2, <1>8, <2>3, ArrivingServed
  <2> QED
    BY <1>3, <2>1, <2>2, <2>4
<1>9. ComingAgrees(p)'
  BY <1>2, <1>8 DEF ComingAgrees, Held
<1> QED
  BY <1>6, <1>7, <1>9 DEF SoleOK

LEMMA SoleServePost ==
  ASSUME TInv, WayInv, SoleInv, NEW p \in Pages, Follows(p), side[p].sole,
         NEW c \in calls, Serve(c), c.kind = "post", NEW b,
         b = Answer(c, "served", <<MadeBy(c)>>), Became(c, b),
         UNCHANGED <<presenceVars, side, relays>>
  PROVE SoleOK(p)'
<1>1. TouchesOwn(p) /\ ComingAgrees(p) /\ (~Fetching(p) => ListAgrees(p))
  BY DEF SoleInv, SoleOK
<1>2. tab' = tab /\ Conn(p)' = Conn(p) /\ Embeds(p)
  BY PresenceSame
<1>3. PICK m, data : m = MadeBy(c) /\ data = <<m>>
  OBVIOUS
<1>4. /\ b.kind = "post" /\ b.data = data /\ m.id = c.id /\ m.doc = c.doc
      /\ calls' = (calls \ {c}) \cup {b} /\ ~IsTouch(c) /\ ~IsTouch(b)
  <2>1. b = Answer(c, "served", data) /\ m.id = c.id /\ m.doc = c.doc
    BY <1>3 DEF MadeBy
  <2>2. b.kind = "post" /\ b.data = data
    BY <2>1, AnswerOf
  <2> QED
    BY <2>1, <2>2 DEF Became, IsTouch
<1>5. /\ \A d \in Docs : \A x : Held(d, x) => Held(d, x)'
      /\ Held(c.doc, m)'
      /\ \A d \in Docs : \A x :
           Held(d, x)' => Held(d, x) \/ (d = c.doc /\ x = m)
  BY <1>3, ServedPost
<1>6. \A d \in Docs : ~Made(d, c.id)
  BY ServeCases DEF WayInv, CallOK, PostOK
<1>7. PICK d \in Docs : d = tab[p].doc
  BY OpenTypes DEF Follows
<1>8. Fetching(p)' <=> Fetching(p)
  BY <1>4 DEF Fetching
<1>9. \A a : IsTouch(a) => (a \in calls' <=> a \in calls)
  BY <1>4
<1>10. TouchesOwn(p)'
  BY <1>1, <1>8, <1>9, OwnKept
<1>11. ASSUME NEW x \in Comment, Arriving(p, x)', x.doc = tab[p].doc
       PROVE Held(x.doc, x)'
  <2>1. CASE Arriving(p, x)
    BY <1>1, <1>5, <1>7, <1>11, <2>1 DEF ComingAgrees
  <2>2. CASE x = m
    BY <1>4, <1>5, <2>2
  <2>3. (\E i \in DOMAIN b.data : b.data[i] = x) => x = m
    BY <1>3, <1>4
  <2>4. relays' = relays /\ calls' \subseteq (calls \ {c}) \cup {b}
    BY <1>4
  <2>5. Arriving(p, x) \/ \E i \in DOMAIN b.data : b.data[i] = x
    BY <1>2, <1>11, <2>4, ArrivingServed
  <2> QED
    BY <2>1, <2>2, <2>3, <2>5
<1>12. ComingAgrees(p)'
  BY <1>2, <1>11 DEF ComingAgrees, Held
<1>13. ASSUME ListAgrees(p) PROVE ListAgrees(p)'
  <2> SUFFICES ASSUME NEW z \in OwnComments(p), NEW y, Held(d, y)',
                      y.id = z.id
               PROVE z = y \/ Touching(z, y)'
    BY <1>2, <1>7, OwnCommentsKept DEF ListAgrees, Held
  <2>1. Made(d, z.id)
    BY <1>7, OwnMade DEF OwnComments
  <2>2. Held(d, y)
    BY <1>4, <1>5, <1>6, <2>1
  <2>3. z = y \/ Touching(z, y)
    BY <1>7, <1>13, <2>2 DEF ListAgrees, Held
  <2> QED
    BY <1>9, <2>3 DEF Touching
<1> QED
  BY <1>1, <1>8, <1>10, <1>12, <1>13 DEF SoleOK

\* p alone touches the thread c.id, which it shows: what it shows of the
\* others is unchanged, and of this one the answer tells it.
LEMMA SoleServeTouch ==
  ASSUME TInv, WayInv, FollowInv, SoleInv, NEW p \in Pages, Follows(p),
         side[p].sole, NEW c \in calls, Serve(c), IsTouch(c),
         NEW k, NEW y, TouchedIn(c, k, y), NEW b,
         b = Answer(c, "served", <<y>>), Became(c, b),
         UNCHANGED <<presenceVars, side, relays>>
  PROVE SoleOK(p)'
<1>1. TouchesOwn(p) /\ ComingAgrees(p) /\ (~Fetching(p) => ListAgrees(p))
  BY DEF SoleInv, SoleOK
<1>2. tab' = tab /\ Conn(p)' = Conn(p) /\ Embeds(p)
  BY PresenceSame
<1>3. /\ c.page = p /\ c.mine /\ ~Fetching(p)
      /\ \A a \in calls : IsTouch(a) => a = c
      /\ \E i \in DOMAIN side[p].list : side[p].list[i].id = c.id
  BY <1>1 DEF TouchesOwn
<1>4. /\ b.kind = c.kind /\ b.page = p /\ b.id = c.id /\ b.mine
      /\ b.pc = "served" /\ b.data = <<y>>
      /\ calls' = (calls \ {c}) \cup {b} /\ IsTouch(b) /\ b.kind # "fetch"
  BY <1>3, AnswerOf DEF Became, IsTouch
<1>5. /\ y.id = c.id /\ y.doc = c.doc /\ y \in Comment
      /\ \A d \in Docs : \A x :
           Held(d, x)' <=> \/ d = c.doc /\ x = y
                           \/ Held(d, x) /\ (d = c.doc => x.id # c.id)
  BY ServedTouch
<1>6. PICK d \in Docs : d = tab[p].doc /\ d = c.doc
  BY <1>3, OpenTypes DEF Follows, WayInv, CallOK
<1>7. ~Fetching(p)'
  BY <1>3, <1>4 DEF Fetching, IsTouch
<1>8. TouchesOwn(p)'
  <2> SUFFICES ASSUME NEW a \in calls', IsTouch(a)
               PROVE /\ a.page = p /\ a.mine /\ ~Fetching(p)'
                     /\ \A e \in calls' : IsTouch(e) => e = a
                     /\ \E i \in DOMAIN side'[p].list :
                          side'[p].list[i].id = a.id
    BY DEF TouchesOwn, IsTouch
  <2>1. \A e \in calls' : IsTouch(e) => e = b
    BY <1>3, <1>4
  <2> QED
    BY <1>3, <1>4, <1>7, <2>1
<1>9. ~Coming(p, c.id)
  <2>1. HasFetched(p)
    BY <1>3 DEF FollowInv, FollowOK
  <2>2. PICK i \in DOMAIN side[p].list : side[p].list[i].id = c.id
    BY <1>3
  <2>3. side[p].list[i].doc = d
    <3>1. Made(d, c.id)
      BY <1>6 DEF TouchedIn, Made
    <3>2. /\ Made(side[p].list[i].doc, c.id)
          /\ side[p].list[i].doc \in Docs
      BY <2>2, SideTypes DEF WayInv, SideOK, Known, TInv, Sidebar, Comment
    <3> QED
      BY <3>1, <3>2, OneDocOnly
  <2> QED
    BY <1>6, <2>1, <2>2, <2>3 DEF HasFetched, Own
<1>10. ASSUME NEW x, Arriving(p, x) PROVE x.id # c.id
  <2>1. CASE \E i \in 1..Len(wire[p]) :
               IsComment(wire[p][i]) /\ wire[p][i].comment = x
    BY <1>9, <2>1 DEF Coming, OnWire
  <2>2. CASE \E r \in relays : r.conn # Conn(p) /\ r.comment = x
    BY <1>9, <2>2 DEF Coming
  <2>3. CASE \E a \in calls : /\ a.pc = "served"
                              /\ (a.kind = "fetch" => a.page = p)
                              /\ \E i \in DOMAIN a.data : a.data[i] = x
    <3>1. PICK a \in calls : /\ a.pc = "served"
                             /\ (a.kind = "fetch" => a.page = p)
                             /\ \E i \in DOMAIN a.data : a.data[i] = x
      BY <2>3
    <3>2. a.kind # "fetch"
      BY <1>3, <3>1 DEF Fetching
    <3>3. ~IsTouch(a)
      BY <1>3, <3>1, ServeCases
    <3>4. a.kind = "post" /\ x.id = a.id
      BY <3>1, <3>2, <3>3, CallTypes
      DEF IsTouch, TInv, WayInv, CallOK, ServedOK
    <3> QED
      BY <1>9, <3>1, <3>4 DEF Coming
  <2> QED
    BY <1>10, <2>1, <2>2, <2>3 DEF Arriving
<1>11. ASSUME NEW x \in Comment, Arriving(p, x)', x.doc = tab[p].doc
       PROVE Held(x.doc, x)'
  <2>1. CASE Arriving(p, x)
    BY <1>1, <1>5, <1>6, <1>10, <1>11, <2>1 DEF ComingAgrees
  <2>2. CASE x = y
    BY <1>5, <1>6, <2>2
  <2>3. (\E i \in DOMAIN b.data : b.data[i] = x) => x = y
    BY <1>4
  <2>4. relays' = relays /\ calls' \subseteq (calls \ {c}) \cup {b}
    BY <1>4
  <2>5. \/ Arriving(p, x)
        \/ /\ b.kind = "fetch" => b.page = p
           /\ \E i \in DOMAIN b.data : b.data[i] = x
    BY <1>2, <1>11, <2>4, ArrivingServed
  <2> QED
    BY <2>1, <2>2, <2>3, <2>5
<1>12. ComingAgrees(p)'
  BY <1>2, <1>11 DEF ComingAgrees, Held
<1>13. ListAgrees(p)'
  <2>1. ListEquals(p)
    BY <1>1, <1>3, NoneTouched, ServeCases
  <2> SUFFICES ASSUME NEW z \in OwnComments(p), NEW x, Held(d, x)',
                      x.id = z.id
               PROVE z = x \/ Touching(z, x)'
    BY <1>2, <1>6, OwnCommentsKept DEF ListAgrees, Held
  <2>2. CASE x = y
    <3>1. b \in calls' /\ b.id = z.id /\ b.data[1] = x /\ b.pc # "sent"
      BY <1>4, <1>5, <2>2
    <3> QED
      BY <1>4, <3>1 DEF Touching, IsTouch
  <2>3. CASE Held(d, x)
    BY <1>6, <2>1, <2>3 DEF ListEquals, Held
  <2> QED
    BY <1>5, <2>2, <2>3
<1> QED
  BY <1>8, <1>12, <1>13 DEF SoleOK

LEMMA SoleServe ==
  ASSUME TInv, WayInv, FollowInv, SoleInv, NEW c \in calls, Serve(c)
  PROVE SoleInv'
<1>1. UNCHANGED <<presenceVars, side, relays, complete>>
  BY ServeCases
<1> SUFFICES ASSUME NEW p \in Pages, Follows(p)', side'[p].sole
             PROVE SoleOK(p)'
  BY DEF SoleInv, SoleOK
<1>2. Follows(p) /\ side[p].sole
  BY <1>1, PresenceSame DEF Follows
<1>3. CASE /\ c.kind = "fetch" /\ db' = db
           /\ Became(c, Answer(c, "served", Fetched(c.doc)))
  BY <1>1, <1>2, <1>3, SoleServeFetch
<1>4. CASE c.kind = "post" /\ Became(c, Answer(c, "served", <<MadeBy(c)>>))
  BY <1>1, <1>2, <1>4, SoleServePost
<1>5. ASSUME IsTouch(c), NEW k \in DOMAIN db[c.doc], db[c.doc][k].id = c.id,
             db' = [db EXCEPT ![c.doc] =
                      Update(db[c.doc], c.id, Touched(db[c.doc][k], c.kind))],
             Became(c, Answer(c, "served", <<Touched(db[c.doc][k], c.kind)>>))
      PROVE SoleOK(p)'
  <2>1. PICK y : y = Touched(db[c.doc][k], c.kind)
    OBVIOUS
  <2>2. TouchedIn(c, k, y)
    BY <1>5, <2>1 DEF TouchedIn
  <2> QED
    BY <1>1, <1>2, <1>5, <2>1, <2>2, SoleServeTouch
<1>6. CASE /\ IsTouch(c) /\ ~Made(c.doc, c.id) /\ db' = db
           /\ calls' = (calls \ {c}) \cup {Answer(c, "failed", c.data)}
  <2>1. PICK b : b = Answer(c, "failed", c.data)
    OBVIOUS
  <2>2. /\ b.kind = c.kind /\ b.id = c.id /\ b.page = c.page
        /\ b.mine = c.mine /\ b.pc = "failed"
    BY <2>1, AnswerOf
  <2>3. UNCHANGED <<tab, current, wire>> /\ side'[p].list = side[p].list
    BY <1>1 DEF presenceVars
  <2> QED
    BY <1>1, <1>2, <1>6, <2>1, <2>2, <2>3, SoleEnds
<1> QED
  BY <1>3, <1>4, <1>5, <1>6, ServeCases

LEMMA SoleInit == Init => SoleInv
  BY DEF Init, Folded, SoleInv, SoleOK, Follows

LEMMA SoleNext ==
  ASSUME TInv, WayInv, FollowInv, SoleInv, [Next]_vars PROVE SoleInv'
<1>1. CASE UNCHANGED vars
  <2>1. UNCHANGED <<presenceVars, db, side, calls, relays, complete>>
    BY <1>1 DEF vars
  <2> SUFFICES ASSUME NEW p \in Pages, Follows(p)', side'[p].sole
               PROVE SoleOK(p)'
    BY DEF SoleInv, SoleOK
  <2>2. Follows(p) /\ side[p].sole
    BY <2>1, PresenceSame DEF Follows
  <2>3. CallsAgree(p)
    BY <2>1 DEF CallsAgree, AnswersKept, Fetching
  <2> QED
    BY <2>1, <2>2, <2>3, SoleIdle
<1>2. CASE Next
  BY <1>2, SolePresence, SoleOpen, SoleClose, SolePost, SoleTouch,
     SoleReceive, SoleServe, SoleFails, SoleAnswered, SoleRefused, SoleRelay
  DEF Next
<1> QED
  BY <1>1, <1>2

LEMMA CommentsInvariant == Spec => []CInv
<1>1. Init => CInv
  BY TInitHolds, WayInit, FollowInit, SoleInit DEF CInv
<1>2. CInv /\ [Next]_vars => CInv'
  BY TInvNext, WayNext, FollowNext, SoleNext DEF CInv
<1> QED
  BY <1>1, <1>2, PTL DEF Spec

\* README.md: "Create, reply, and resolve comment threads in real-time".
\* However its requests and the events of others are ordered, a sidebar that
\* follows, and whose page alone touches the threads, one at a time, shows
\* those it shows with the replies and the resolution the database has.
THEOREM OwnThreadsAlwaysAgree == Spec => []OwnThreadsAgree
<1>1. ASSUME CInv PROVE OwnThreadsAgree
  <2> SUFFICES ASSUME NEW p \in Pages, UpToDate(p), side[p].sole
               PROVE OwnComments(p) \subseteq ToSet(db[tab[p].doc])
    BY DEF OwnThreadsAgree
  <2>1. PICK d \in Docs : d = tab[p].doc
    BY <1>1, UpToDateFollows DEF CInv
  <2>2. /\ Follows(p) /\ ~Fetching(p) /\ HasFetched(p)
        /\ \A n : Made(d, n) => ~Coming(p, n)
    BY <1>1, <2>1, UpToDateFollows DEF CInv
  <2>3. TouchesOwn(p) /\ ListAgrees(p)
    BY <1>1, <2>2 DEF CInv, SoleInv, SoleOK
  <2>4. \A c \in calls : ~IsTouch(c)
    BY <2>3 DEF TouchesOwn, UpToDate, Waits, IsTouch
  <2>5. \A x \in OwnComments(p) : \A y : Held(d, y) /\ y.id = x.id => x = y
    BY <2>1, <2>3, <2>4, NoneTouched DEF ListEquals, Held
  <2>6. ASSUME NEW x \in OwnComments(p) PROVE Held(d, x)
    <3>1. Made(d, x.id)
      BY <1>1, <2>1, OwnMade DEF OwnComments, CInv
    <3>2. PICK y : Held(d, y) /\ y.id = x.id
      BY <3>1, MadeHeld
    <3> QED
      BY <2>5, <3>2
  <2> QED
    BY <2>1, <2>6 DEF Held
<1> QED
  BY <1>1, CommentsInvariant, PTL
=============================================================================
