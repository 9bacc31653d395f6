--------------------------- MODULE PresenceProofs ---------------------------
(***************************************************************************)
(* What the rooms, the connections and the rosters of Presence keep true,  *)
(* whatever else travels on the connections: the invariant PInv, that each *)
(* action of Presence preserves it, and that an event of another kind,     *)
(* sent or received, does as well.  CommentsProofs draws the theorems.     *)
(***************************************************************************)
EXTENDS Presence, FiniteSetTheorems, TLAPS

IsEvent(e) == e.is \in {"joined", "left"}
IsAnswer(e) == e.is \in {"ok", "refused"}

\* M: all that may be on a wire.
Alphabet(M) ==
  /\ Events \subseteq M /\ Answers \subseteq M
  /\ \A e \in M : (IsEvent(e) => e \in Events) /\ (IsAnswer(e) => e \in Answers)
PTypes(M) == Alphabet(M) /\ PresenceTypeOK /\ wire \in [Pages -> Seq(M)]

Shows(p) == tab[p].at = "open"
Connected(p) == Shows(p) /\ tab[p].on = current[p]

\* The numbers of connections only grow, and only a replaced one has ended.
ConnectionsCount ==
  /\ \A d \in Docs : \A c \in members[d] : c[2] <= current[c[1]]
  /\ \A c \in ended : c[2] < current[c[1]]
  /\ \A j \in joins : j.conn[2] <= current[j.conn[1]]
  /\ \A p \in Pages :
       /\ tab[p].on # None => tab[p].on <= current[p]
       /\ current[p] <= faults /\ tab[p].visit <= visits

\* A visit asks once; while it waits nothing is listened to.
JoinsAreSingle ==
  \A j, k \in joins :
    j.conn[1] = k.conn[1] /\ j.visit = k.visit => j = k
JoinOK(j) ==
  LET t == tab[j.conn[1]]
  IN /\ j.visit \in 1..t.visit
     /\ j.visit = t.visit /\ t.at = "open" => j.doc = t.doc /\ t.on = None
JoinsAreOfVisits == \A j \in joins : JoinOK(j)

\* A visit is answered once, and when the answer is good the connection is in
\* the room.
AnswerOK(p, i) ==
  LET v == wire[p][i].visit
  IN /\ v <= tab[p].visit
     /\ \A j \in joins : j.conn[1] = p => j.visit # v
     /\ \A k \in 1..Len(wire[p]) :
          IsAnswer(wire[p][k]) /\ wire[p][k].visit = v => k = i
     /\ v = tab[p].visit => tab[p].on = None
     /\ v = tab[p].visit /\ Shows(p) /\ wire[p][i].is = "ok"
          => Conn(p) \in members[tab[p].doc]
AnswersAreOfVisits ==
  \A p \in Pages : \A i \in 1..Len(wire[p]) :
    IsAnswer(wire[p][i]) => AnswerOK(p, i)

TabOK(p) ==
  /\ Shows(p) => tab[p].doc \in Docs
  /\ tab[p].on # None => Shows(p)
  /\ tab[p].on = None => tab[p].roster = {}
  /\ Connected(p) => Conn(p) \in members[tab[p].doc]
TabsAreRight == \A p \in Pages : TabOK(p)

\* Whoever has joined has opened a document; after the first one no other
\* join is under way.
MembersVisited ==
  \A d \in Docs : \A c \in ToSet(clients[d]) :
    /\ tab[c[1]].visit >= 1
    /\ tab[c[1]].visit = 1 => \A j \in joins : j.conn[1] # c[1]

\* room.clients has the Socket.IO room, and what ended before it was added.
RoomOK(d) ==
  /\ members[d] \subseteq ToSet(clients[d])
  /\ ToSet(clients[d]) \subseteq members[d] \cup ended
  /\ IsInjective(clients[d])
RoomsAgree == \A d \in Docs : RoomOK(d)

EventsReachMembers ==
  \A p \in Pages : \A i \in 1..Len(wire[p]) :
    IsEvent(wire[p][i]) => Conn(p) \in members[wire[p][i].doc]

\* e is in s behind the place i.
Later(s, i, e) == \E k \in 1..Len(s) : k > i /\ s[k] = e
Event(is, d, u) == [is |-> is, doc |-> d, user |-> u]
Present(d, u) == \E c \in ToSet(clients[d]) : User(c) = u

\* Who is shown, or about to be, is there, or will be reported gone.
ShownArePresent ==
  \A p \in Pages : Connected(p) => \A u \in tab[p].roster :
    Present(tab[p].doc, u) \/ Later(wire[p], 0, Event("left", tab[p].doc, u))
JoinedArePresent ==
  \A p \in Pages : \A i \in 1..Len(wire[p]) : wire[p][i].is = "joined" =>
    LET e == wire[p][i]
    IN Present(e.doc, e.user) \/ Later(wire[p], i, Event("left", e.doc, e.user))

\* Only a lost connection is reported gone.
LeaversDropped ==
  \A p \in Pages : \A i \in 1..Len(wire[p]) : wire[p][i].is = "left" =>
    \E q \in Pages : UserOf[q] = wire[p][i].user /\ current[q] > 0

\* Who came after p is shown, or will be reported, behind the answer to p.
FirstAt(p, q) ==
  /\ Shows(p) /\ tab[p].visit = 1 /\ Single(q)
  /\ Before(tab[p].doc, Conn(p), Conn(q))
Greeting(p, q) == Event("joined", tab[p].doc, UserOf[q])
NewcomerTold(p, q) ==
  /\ tab[p].on = current[p] =>
       UserOf[q] \in tab[p].roster \/ Later(wire[p], 0, Greeting(p, q))
  /\ \A i \in 1..Len(wire[p]) : IsAnswer(wire[p][i]) =>
       Later(wire[p], i, Greeting(p, q))
NewcomersAreTold ==
  \A p, q \in Pages : FirstAt(p, q) => NewcomerTold(p, q)

PInv(M) ==
  /\ PTypes(M)
  /\ ConnectionsCount
  /\ JoinsAreSingle
  /\ JoinsAreOfVisits
  /\ AnswersAreOfVisits
  /\ TabsAreRight
  /\ MembersVisited
  /\ RoomsAgree
  /\ EventsReachMembers
  /\ ShownArePresent
  /\ JoinedArePresent
  /\ LeaversDropped
  /\ NewcomersAreTold

-----------------------------------------------------------------------------
LEMMA PInvInit ==
  ASSUME NEW M, Alphabet(M), PresenceInit PROVE PInv(M)
<1> USE DEF PresenceInit
<1>1. PTypes(M)
  BY PagesHaveUsers, NoneIsNeither, BoundsAreNumbers
  DEF PTypes, PresenceTypeOK, Away, Conns
<1>2. ConnectionsCount /\ JoinsAreSingle /\ JoinsAreOfVisits
  BY DEF ConnectionsCount, JoinsAreSingle, JoinsAreOfVisits, Away
<1>3. AnswersAreOfVisits /\ EventsReachMembers
  BY DEF AnswersAreOfVisits, EventsReachMembers
<1>4. TabsAreRight
  BY NoneIsNeither, BoundsAreNumbers
  DEF TabsAreRight, TabOK, Away, Shows, Connected
<1>5. MembersVisited
  BY DEF MembersVisited, ToSet
<1>6. RoomsAgree
  BY DEF RoomsAgree, RoomOK, ToSet, IsInjective
<1>7. ShownArePresent /\ JoinedArePresent /\ LeaversDropped
  BY DEF ShownArePresent, JoinedArePresent, LeaversDropped, Connected,
         Shows, Away
<1>8. NewcomersAreTold
  BY DEF NewcomersAreTold, FirstAt, Shows, Away
<1> QED
  BY <1>1, <1>2, <1>3, <1>4, <1>5, <1>6, <1>7, <1>8 DEF PInv

\* What the types say of one page and one join.
LEMMA TabTypes ==
  ASSUME NEW M, PTypes(M), NEW p \in Pages
  PROVE /\ tab[p] \in [at : {"away", "open"}, doc : Docs \cup {None},
                       visit : 0..MaxVisits, on : (0..MaxFaults) \cup {None},
                       roster : SUBSET Users]
        /\ tab[p].visit \in Nat
        /\ current[p] \in Nat /\ current[p] \in 0..MaxFaults
        /\ Conn(p) \in Conns /\ Conn(p)[1] = p /\ Conn(p)[2] = current[p]
        /\ wire[p] \in Seq(M) /\ Len(wire[p]) \in Nat
        /\ tab[p].on = None \/ tab[p].on \in Nat
        /\ current[p] # None
  BY BoundsAreNumbers, NoneIsNeither DEF PTypes, PresenceTypeOK, Conn, Conns

LEMMA JoinTypes ==
  ASSUME NEW M, PTypes(M), NEW j \in joins
  PROVE /\ j.conn \in Conns /\ j.conn[1] \in Pages /\ j.conn[2] \in Nat
        /\ j.doc \in Docs /\ j.visit \in Nat /\ j.visit \in 0..MaxVisits
        /\ j = [conn |-> j.conn, doc |-> j.doc, visit |-> j.visit]
        /\ j.conn = <<j.conn[1], j.conn[2]>>
  BY BoundsAreNumbers DEF PTypes, PresenceTypeOK, Conns

LEMMA MemberTypes ==
  ASSUME NEW M, PTypes(M), NEW d \in Docs,
         NEW c \in members[d] \cup ToSet(clients[d])
  PROVE /\ c \in Conns /\ c[1] \in Pages /\ c[2] \in Nat
        /\ c = <<c[1], c[2]>>
<1>1. members[d] \subseteq Conns /\ clients[d] \in Seq(Conns)
  BY DEF PTypes, PresenceTypeOK
<1>2. c \in Conns
  BY <1>1 DEF ToSet
<1> QED
  BY <1>2, BoundsAreNumbers DEF Conns

LEMMA WireTypes ==
  ASSUME NEW M, PTypes(M), NEW p \in Pages, NEW i \in 1..Len(wire[p])
  PROVE /\ wire[p][i] \in M
        /\ IsEvent(wire[p][i]) =>
             /\ wire[p][i] \in Events /\ wire[p][i].doc \in Docs
             /\ wire[p][i].user \in Users
             /\ wire[p][i] =
                  Event(wire[p][i].is, wire[p][i].doc, wire[p][i].user)
        /\ IsAnswer(wire[p][i]) =>
             wire[p][i] \in Answers /\ wire[p][i].visit \in Nat
<1>1. wire[p][i] \in M
  BY DEF PTypes
<1>2. IsEvent(wire[p][i]) => wire[p][i] \in Events
  BY <1>1 DEF PTypes, Alphabet
<1>3. IsAnswer(wire[p][i]) => wire[p][i] \in Answers
  BY <1>1 DEF PTypes, Alphabet
<1> QED
  BY <1>1, <1>2, <1>3, BoundsAreNumbers DEF Events, Answers, Event

\* A connection that lasts and has joined is in the Socket.IO room.
LEMMA ClientsAreIn ==
  ASSUME NEW M, PInv(M), NEW d \in Docs, NEW p \in Pages,
         Conn(p) \in ToSet(clients[d])
  PROVE Conn(p) \in members[d] /\ Conn(p) \notin ended
<1>1. current[p] \in Nat /\ Conn(p)[1] = p /\ Conn(p)[2] = current[p]
  BY TabTypes DEF PInv
<1>2. Conn(p) \notin ended
  BY <1>1 DEF PInv, ConnectionsCount
<1>3. RoomOK(d)
  BY DEF PInv, RoomsAgree
<1> QED
  BY <1>2, <1>3 DEF RoomOK

LEMMA BothHaveJoined ==
  ASSUME NEW d, NEW b, NEW c, Before(d, b, c)
  PROVE b \in ToSet(clients[d]) /\ c \in ToSet(clients[d])
  BY DEF Before, ToSet

\* The first visit of a page that has joined is over with asking.
LEMMA FirstHasJoined ==
  ASSUME NEW M, PInv(M), NEW p \in Pages, NEW q \in Pages, FirstAt(p, q)
  PROVE /\ tab[p].doc \in Docs /\ Conn(p) \in ToSet(clients[tab[p].doc])
        /\ Conn(p) \in members[tab[p].doc]
        /\ \A j \in joins : j.conn[1] # p
<1>1. tab[p].doc \in Docs
  BY DEF FirstAt, PInv, TabsAreRight, TabOK
<1>2. Conn(p) \in ToSet(clients[tab[p].doc])
  BY BothHaveJoined DEF FirstAt
<1>3. Conn(p)[1] = p /\ tab[p].visit = 1
  BY TabTypes DEF PInv, FirstAt
<1>4. \A j \in joins : j.conn[1] # p
  BY <1>1, <1>2, <1>3 DEF PInv, MembersVisited
<1> QED
  BY <1>1, <1>2, <1>4, ClientsAreIn

-----------------------------------------------------------------------------
(* The tab.                                                                *)

LEMMA PInvVisit ==
  ASSUME NEW M, PInv(M), NEW p \in Pages, NEW d \in Docs, Visit(p, d)
  PROVE PInv(M)'
<1> DEFINE v == tab[p].visit + 1
           fresh == [conn |-> Conn(p), doc |-> d, visit |-> v]
<1>1. PTypes(M) /\ PTypes(M)'
  <2>1. PTypes(M) BY DEF PInv
  <2>2. /\ v \in 0..MaxVisits /\ visits' \in 0..MaxVisits
        /\ None \notin Docs
    BY <2>1, TabTypes, BoundsAreNumbers, NoneIsNeither
    DEF PInv, ConnectionsCount, Visit, PTypes, PresenceTypeOK
  <2>3. tab' \in [Pages ->
         [at : {"away", "open"}, doc : Docs \cup {None},
          visit : 0..MaxVisits, on : (0..MaxFaults) \cup {None},
          roster : SUBSET Users]]
    BY <2>1, <2>2 DEF PTypes, PresenceTypeOK, Visit, Away
  <2>4. fresh \in [conn : Conns, doc : Docs, visit : 0..MaxVisits]
    BY <2>1, <2>2, TabTypes
  <2>5. joins' = joins \cup {fresh}
    BY <2>1 DEF Visit, PTypes, PresenceTypeOK, Away
  <2> QED
    BY <2>1, <2>2, <2>3, <2>4, <2>5
    DEF PTypes, PresenceTypeOK, Visit, Alphabet
<1>2. /\ tab'[p] = [at |-> "open", doc |-> d, visit |-> v, on |-> None,
                    roster |-> {}]
      /\ \A q \in Pages \ {p} : tab'[q] = tab[q]
      /\ joins' = joins \cup {fresh}
      /\ v \in Nat /\ v >= 1
      /\ UNCHANGED <<current, ended, members, clients, wire, faults>>
      /\ visits' = visits + 1
  <2>1. tab' = [tab EXCEPT ![p] = [at |-> "open", doc |-> d, visit |-> v,
                                   on |-> None, roster |-> {}]]
    BY DEF Visit
  <2>2. tab'[p].visit = v
    BY <2>1, <1>1 DEF PTypes, PresenceTypeOK
  <2>3. v \in Nat /\ v >= 1
    BY <1>1, TabTypes
  <2> HIDE DEF v
  <2> QED
    BY <2>1, <2>2, <2>3, <1>1 DEF Visit, PTypes, PresenceTypeOK
<1> HIDE DEF v
<1>3. v = tab[p].visit + 1 /\ tab[p].visit \in Nat
  BY <1>1, TabTypes DEF v
<1>4. /\ ~Connected(p)' /\ TabOK(p)' /\ Shows(p)'
      /\ \A q \in Pages \ {p} : Connected(q)' = Connected(q)
      /\ \A q \in Pages : Conn(q)' = Conn(q)
  BY <1>1, <1>2, TabTypes, NoneIsNeither DEF Connected, Shows, TabOK, Conn
<1>5. ConnectionsCount'
  <2>1. ConnectionsCount /\ current[p] \in Nat /\ fresh.conn = <<p, current[p]>>
    BY <1>1, TabTypes DEF PInv, Conn
  <2>2. \A j \in joins' : j.conn[2] <= current'[j.conn[1]]
    BY <2>1, <1>2 DEF ConnectionsCount
  <2>3. \A q \in Pages : /\ tab'[q].on # None => tab'[q].on <= current'[q]
                         /\ current'[q] <= faults' /\ tab'[q].visit <= visits'
    <3> SUFFICES ASSUME NEW q \in Pages
                 PROVE /\ tab'[q].on # None => tab'[q].on <= current'[q]
                       /\ current'[q] <= faults' /\ tab'[q].visit <= visits'
      OBVIOUS
    <3>1. /\ tab[q].on # None => tab[q].on <= current[q]
          /\ current[q] <= faults /\ tab[q].visit <= visits
      BY <2>1 DEF ConnectionsCount
    <3>2. visits \in Nat /\ tab[q].visit \in Nat
      BY <1>1, TabTypes, BoundsAreNumbers DEF PTypes, PresenceTypeOK
    <3> QED
      BY <3>1, <3>2, <1>2, <1>3
  <2> QED
    BY <2>1, <2>2, <2>3, <1>2 DEF ConnectionsCount
<1>6. \A j \in joins : j.conn[1] = p => j.visit < v
  BY <1>3, <1>1, JoinTypes DEF PInv, JoinsAreOfVisits, JoinOK
<1>7. JoinsAreSingle'
  BY <1>1, <1>2, <1>6, TabTypes DEF PInv, JoinsAreSingle
<1>8. JoinsAreOfVisits'
  <2> SUFFICES ASSUME NEW j \in joins' PROVE JoinOK(j)'
    BY DEF JoinsAreOfVisits
  <2>1. CASE j = fresh
    BY <2>1, <1>1, <1>2, TabTypes DEF JoinOK
  <2>2. CASE j \in joins
    BY <2>2, <1>1, <1>2, <1>3, <1>6, JoinTypes
    DEF JoinOK, PInv, JoinsAreOfVisits
  <2> QED
    BY <2>1, <2>2, <1>2
<1>9. AnswersAreOfVisits'
  <2> SUFFICES ASSUME NEW q \in Pages, NEW i \in 1..Len(wire[q]),
                      IsAnswer(wire[q][i])
               PROVE AnswerOK(q, i)'
    BY <1>2 DEF AnswersAreOfVisits
  <2>1. AnswerOK(q, i) /\ wire[q][i].visit \in Nat
    BY <1>1, WireTypes DEF PInv, AnswersAreOfVisits
  <2>2. CASE q = p
    <3>1. wire[q][i].visit < v
      BY <2>1, <2>2, <1>3 DEF AnswerOK
    <3> QED
      BY <2>1, <2>2, <3>1, <1>2, <1>3 DEF AnswerOK
  <2>3. CASE q # p
    BY <2>1, <2>3, <1>1, <1>2, <1>4, TabTypes DEF AnswerOK, Shows
  <2> QED
    BY <2>2, <2>3
<1>10. TabsAreRight'
  <2>1. \A q \in Pages \ {p} : TabOK(q)'
    BY <1>2, <1>4 DEF PInv, TabsAreRight, TabOK, Shows
  <2> QED
    BY <2>1, <1>4 DEF TabsAreRight
<1>11. MembersVisited'
  <2> SUFFICES ASSUME NEW e \in Docs, NEW c \in ToSet(clients[e])
               PROVE /\ tab'[c[1]].visit >= 1
                     /\ tab'[c[1]].visit = 1 =>
                          \A j \in joins' : j.conn[1] # c[1]
    BY <1>2 DEF MembersVisited
  <2>1. /\ c[1] \in Pages /\ tab[c[1]].visit >= 1
        /\ tab[c[1]].visit = 1 => \A j \in joins : j.conn[1] # c[1]
    BY <1>1, MemberTypes DEF PInv, MembersVisited
  <2> QED
    BY <2>1, <1>1, <1>2, <1>3, TabTypes
<1>12. RoomsAgree' /\ LeaversDropped'
  BY <1>2 DEF PInv, RoomsAgree, RoomOK, LeaversDropped
<1>13. EventsReachMembers'
  BY <1>2, <1>4 DEF PInv, EventsReachMembers
<1>14. ShownArePresent' /\ JoinedArePresent'
  BY <1>2, <1>4
  DEF PInv, ShownArePresent, JoinedArePresent, Present
<1>15. NewcomersAreTold'
  <2> SUFFICES ASSUME NEW q \in Pages, NEW r \in Pages, FirstAt(q, r)'
               PROVE NewcomerTold(q, r)'
    BY DEF NewcomersAreTold
  <2>1. CASE q = p
    <3>1. tab[p].visit = 0
      BY <2>1, <1>2, <1>3 DEF FirstAt
    <3>2. Before(d, Conn(p), Conn(r))
      BY <2>1, <1>2, <1>4 DEF FirstAt, Before
    <3>3. Conn(p) \in ToSet(clients[d])
      BY <3>2, BothHaveJoined
    <3> QED
      BY <3>1, <3>3, <1>1, TabTypes DEF PInv, MembersVisited
  <2>2. CASE q # p
    <3>1. FirstAt(q, r)
      BY <2>2, <1>2, <1>4 DEF FirstAt, Shows, Before, Single
    <3>2. NewcomerTold(q, r)
      BY <3>1 DEF PInv, NewcomersAreTold
    <3> QED
      BY <3>2, <2>2, <1>2 DEF NewcomerTold, Greeting
  <2> QED
    BY <2>1, <2>2
<1> QED
  BY <1>1, <1>5, <1>7, <1>8, <1>9, <1>10, <1>11, <1>12, <1>13, <1>14, <1>15
  DEF PInv

LEMMA PInvLeave ==
  ASSUME NEW M, PInv(M), NEW p \in Pages, Leave(p)
  PROVE PInv(M)'
<1>1. PTypes(M)
  BY DEF PInv
<1>2. /\ tab'[p] = [at |-> "away", doc |-> None, visit |-> tab[p].visit,
                    on |-> None, roster |-> {}]
      /\ \A q \in Pages \ {p} : tab'[q] = tab[q]
      /\ UNCHANGED <<current, ended, joins, members, clients, wire, visits,
                     faults>>
  BY <1>1 DEF Leave, Away, PTypes, PresenceTypeOK
<1>3. PTypes(M)'
  <2>1. tab' \in [Pages ->
         [at : {"away", "open"}, doc : Docs \cup {None},
          visit : 0..MaxVisits, on : (0..MaxFaults) \cup {None},
          roster : SUBSET Users]]
    BY <1>1, <1>2, TabTypes DEF Leave, Away, PTypes, PresenceTypeOK
  <2> QED
    BY <2>1, <1>1, <1>2 DEF PTypes, PresenceTypeOK, Alphabet
<1>4. /\ ~Connected(p)' /\ TabOK(p)' /\ ~Shows(p)'
      /\ \A q \in Pages \ {p} : Connected(q)' = Connected(q)
      /\ \A q \in Pages : Conn(q)' = Conn(q)
      /\ \A q \in Pages : tab'[q].visit = tab[q].visit
  BY <1>1, <1>2, TabTypes, NoneIsNeither DEF Connected, Shows, TabOK, Conn
<1>5. ConnectionsCount'
  BY <1>2, <1>4 DEF PInv, ConnectionsCount
<1>6. JoinsAreSingle' /\ RoomsAgree' /\ LeaversDropped'
  BY <1>2 DEF PInv, JoinsAreSingle, RoomsAgree, RoomOK, LeaversDropped
<1>7. JoinsAreOfVisits'
  BY <1>1, <1>2, JoinTypes DEF PInv, JoinsAreOfVisits, JoinOK
<1>8. AnswersAreOfVisits'
  <2> SUFFICES ASSUME NEW q \in Pages, NEW i \in 1..Len(wire[q]),
                      IsAnswer(wire[q][i])
               PROVE AnswerOK(q, i)'
    BY <1>2 DEF AnswersAreOfVisits
  <2>1. AnswerOK(q, i)
    BY DEF PInv, AnswersAreOfVisits
  <2> QED
    BY <2>1, <1>2, <1>4 DEF AnswerOK, Shows
<1>9. TabsAreRight'
  <2>1. \A q \in Pages \ {p} : TabOK(q)'
    BY <1>2, <1>4 DEF PInv, TabsAreRight, TabOK, Shows
  <2> QED
    BY <2>1, <1>4 DEF TabsAreRight
<1>10. MembersVisited'
  BY <1>1, <1>2, <1>4, MemberTypes DEF PInv, MembersVisited
<1>11. EventsReachMembers'
  BY <1>2, <1>4 DEF PInv, EventsReachMembers
<1>12. ShownArePresent' /\ JoinedArePresent'
  BY <1>2, <1>4
  DEF PInv, ShownArePresent, JoinedArePresent, Present
<1>13. NewcomersAreTold'
  <2> SUFFICES ASSUME NEW q \in Pages, NEW r \in Pages, FirstAt(q, r)'
               PROVE NewcomerTold(q, r)'
    BY DEF NewcomersAreTold
  <2>1. q # p
    BY <1>4 DEF FirstAt
  <2>2. FirstAt(q, r)
    BY <2>1, <1>2, <1>4 DEF FirstAt, Shows, Before, Single
  <2>3. NewcomerTold(q, r)
    BY <2>2 DEF PInv, NewcomersAreTold
  <2> QED
    BY <2>3, <2>1, <1>2 DEF NewcomerTold, Greeting
<1> QED
  BY <1>3, <1>5, <1>6, <1>7, <1>8, <1>9, <1>10, <1>11, <1>12, <1>13 DEF PInv

LEMMA PInvDrop ==
  ASSUME NEW M, PInv(M), NEW p \in Pages, Drop(p)
  PROVE PInv(M)'
<1>1. PTypes(M) /\ ConnectionsCount
  BY DEF PInv
<1>2. /\ current'[p] = current[p] + 1 /\ wire'[p] = <<>>
      /\ \A q \in Pages \ {p} : current'[q] = current[q] /\ wire'[q] = wire[q]
      /\ UNCHANGED <<tab, ended, joins, members, clients, visits>>
      /\ faults < MaxFaults /\ faults' = faults + 1
      /\ faults \in Nat /\ MaxFaults \in Nat
      /\ current[p] \in Nat
  BY <1>1, TabTypes, BoundsAreNumbers DEF Drop, PTypes, PresenceTypeOK
<1>3. \A q \in Pages : /\ current[q] \in Nat /\ current'[q] \in Nat
                       /\ current[q] <= current'[q]
  BY <1>1, <1>2, TabTypes
<1>4. PTypes(M)'
  <2>1. current'[p] \in 0..MaxFaults /\ faults' \in 0..MaxFaults
    BY <1>1, <1>2 DEF ConnectionsCount
  <2>2. /\ current' \in [Pages -> 0..MaxFaults]
        /\ wire' \in [Pages -> Seq(M)]
    BY <2>1, <1>1 DEF Drop, PTypes, PresenceTypeOK
  <2> QED
    BY <2>1, <2>2, <1>1, <1>2 DEF PTypes, PresenceTypeOK, Alphabet
<1>5. ConnectionsCount'
  <2>1. ASSUME NEW d \in Docs, NEW c \in members[d]
        PROVE c[2] <= current'[c[1]]
    BY <1>1, <1>3, MemberTypes DEF ConnectionsCount
  <2>2. ASSUME NEW j \in joins PROVE j.conn[2] <= current'[j.conn[1]]
    BY <1>1, <1>3, JoinTypes DEF ConnectionsCount
  <2>4. ASSUME NEW c \in ended PROVE c[2] < current'[c[1]]
    <3>1. c[1] \in Pages /\ c[2] \in Nat /\ c[2] < current[c[1]]
      BY <1>1, BoundsAreNumbers
      DEF ConnectionsCount, PTypes, PresenceTypeOK, Conns
    <3> QED
      BY <3>1, <1>3
  <2>3. ASSUME NEW q \in Pages
        PROVE /\ tab[q].on # None => tab[q].on <= current'[q]
              /\ current'[q] <= faults' /\ tab[q].visit <= visits
    <3>1. /\ tab[q].on # None => tab[q].on <= current[q]
          /\ current[q] <= faults /\ tab[q].visit <= visits
          /\ tab[q].on = None \/ tab[q].on \in Nat
      BY <1>1, TabTypes DEF ConnectionsCount
    <3> QED
      BY <3>1, <1>2, <1>3
  <2> QED
    BY <2>1, <2>2, <2>3, <2>4, <1>2 DEF ConnectionsCount
<1>6. /\ ~Connected(p)'
      /\ \A q \in Pages \ {p} : /\ Connected(q)' = Connected(q)
                                /\ Conn(q)' = Conn(q)
      /\ \A q \in Pages : Shows(q)' = Shows(q)
  <2>1. tab[p].on # current'[p]
    <3>1. current'[p] \in 0..MaxFaults
      BY <1>4 DEF PTypes, PresenceTypeOK
    <3>2. \/ tab[p].on = None
          \/ tab[p].on \in Nat /\ tab[p].on <= current[p]
      BY <1>1, TabTypes DEF ConnectionsCount
    <3> QED
      BY <3>1, <3>2, <1>2, NoneIsNeither
  <2> QED
    BY <2>1, <1>2 DEF Connected, Shows, Conn
<1>7. JoinsAreSingle' /\ RoomsAgree' /\ JoinsAreOfVisits' /\ MembersVisited'
  BY <1>2 DEF PInv, JoinsAreSingle, RoomsAgree, RoomOK, JoinsAreOfVisits,
              JoinOK, MembersVisited
<1>8. AnswersAreOfVisits'
  <2> SUFFICES ASSUME NEW q \in Pages, NEW i \in 1..Len(wire'[q]),
                      IsAnswer(wire'[q][i])
               PROVE AnswerOK(q, i)'
    BY DEF AnswersAreOfVisits
  <2>1. q # p
    BY <1>2
  <2>2. AnswerOK(q, i)
    BY <2>1, <1>2 DEF PInv, AnswersAreOfVisits
  <2> QED
    BY <2>1, <2>2, <1>2, <1>6 DEF AnswerOK
<1>9. TabsAreRight'
  BY <1>2, <1>6 DEF PInv, TabsAreRight, TabOK
<1>10. EventsReachMembers'
  BY <1>2, <1>6 DEF PInv, EventsReachMembers
<1>11. ShownArePresent' /\ JoinedArePresent'
  <2>1. \A d, u : Present(d, u)' = Present(d, u)
    BY <1>2 DEF Present
  <2>2. ShownArePresent'
    BY <2>1, <1>2, <1>6 DEF PInv, ShownArePresent
  <2>3. JoinedArePresent'
    BY <2>1, <1>2 DEF PInv, JoinedArePresent
  <2> QED
    BY <2>2, <2>3
<1>12. LeaversDropped'
  <2> SUFFICES ASSUME NEW q \in Pages, NEW i \in 1..Len(wire'[q]),
                      wire'[q][i].is = "left"
               PROVE \E r \in Pages : /\ UserOf[r] = wire'[q][i].user
                                      /\ current'[r] > 0
    BY DEF LeaversDropped
  <2>1. q # p
    BY <1>2
  <2>2. PICK r \in Pages : UserOf[r] = wire[q][i].user /\ current[r] > 0
    BY <2>1, <1>2 DEF PInv, LeaversDropped
  <2> QED
    BY <2>1, <2>2, <1>2, <1>3
<1>13. NewcomersAreTold'
  <2> SUFFICES ASSUME NEW q \in Pages, NEW r \in Pages, FirstAt(q, r)'
               PROVE NewcomerTold(q, r)'
    BY DEF NewcomersAreTold
  <2>1. q # p
    <3>2. ASSUME q = p PROVE tab[p].doc \in Docs
      BY <3>2, <1>2
      DEF FirstAt, PInv, TabsAreRight, TabOK, Shows
    <3>1. ASSUME q = p PROVE Conn(p)' \in members[tab[p].doc] \cup ended
      <4>1. Before(tab[p].doc, Conn(p)', Conn(r)')
        BY <3>1, <1>2 DEF FirstAt, Before
      <4>2. Conn(p)' \in ToSet(clients[tab[p].doc])
        BY <4>1, BothHaveJoined
      <4>3. RoomOK(tab[p].doc)
        BY <3>1, <3>2 DEF PInv, RoomsAgree
      <4> QED
        BY <4>2, <4>3 DEF RoomOK
    <3>3. /\ Conn(p)'[1] = p /\ Conn(p)'[2] = current[p] + 1
          /\ current[p] \in Nat
      BY <1>1, <1>2, TabTypes DEF Conn
    <3>4. \A c \in members[tab[p].doc] \cup ended :
            q = p => c[2] <= current[c[1]]
      BY <3>2, <1>1, TabTypes, BoundsAreNumbers
      DEF ConnectionsCount, PTypes, PresenceTypeOK, Conns
    <3> QED
      BY <3>1, <3>3, <3>4
  <2>2. r # p
    BY <1>2, <1>3 DEF FirstAt, Single
  <2>3. FirstAt(q, r)
    BY <2>1, <2>2, <1>2, <1>6 DEF FirstAt, Shows, Before, Single
  <2>4. NewcomerTold(q, r)
    BY <2>3 DEF PInv, NewcomersAreTold
  <2> QED
    BY <2>4, <2>1, <1>2 DEF NewcomerTold, Greeting
<1> QED
  BY <1>4, <1>5, <1>7, <1>8, <1>9, <1>10, <1>11, <1>12, <1>13 DEF PInv

\* Reading from a wire.
LEMMA TailIsRest ==
  ASSUME NEW M, NEW s \in Seq(M), s # <<>>
  PROVE /\ Tail(s) \in Seq(M) /\ Len(Tail(s)) = Len(s) - 1 /\ Len(s) \in Nat
        /\ Head(s) = s[1] /\ 1 \in 1..Len(s)
        /\ \A i \in 1..Len(Tail(s)) :
             Tail(s)[i] = s[i + 1] /\ i + 1 \in 1..Len(s)
  OBVIOUS

LEMMA LaterInRest ==
  ASSUME NEW M, NEW s \in Seq(M), s # <<>>, NEW i \in Nat, NEW e,
         Later(s, i, e)
  PROVE /\ i >= 1 => Later(Tail(s), i - 1, e)
        /\ i = 0 => Head(s) = e \/ Later(Tail(s), 0, e)
<1>1. PICK k \in 1..Len(s) : k > i /\ s[k] = e
  BY DEF Later
<1>2. CASE k = 1
  BY <1>1, <1>2, TailIsRest
<1>3. CASE k > 1
  <2>1. k - 1 \in 1..Len(Tail(s)) /\ Tail(s)[k - 1] = e
    BY <1>1, <1>3, TailIsRest
  <2>2. k - 1 > 0 /\ (i >= 1 => k - 1 > i - 1)
    BY <1>1, <1>3, TailIsRest
  <2>3. Later(Tail(s), 0, e)
    BY <2>1, <2>2 DEF Later
  <2>4. i >= 1 => Later(Tail(s), i - 1, e)
    BY <2>1, <2>2 DEF Later
  <2> QED
    BY <2>3, <2>4
<1> QED
  BY <1>1, <1>2, <1>3

LEMMA PInvReceiveAnswer ==
  ASSUME NEW M, PInv(M), NEW p \in Pages, ReceiveAnswer(p)
  PROVE PInv(M)'
<1> DEFINE good == /\ Head(wire[p]).is = "ok"
                   /\ Head(wire[p]).visit = tab[p].visit
                   /\ tab[p].at = "open"
<1>1. PTypes(M)
  BY DEF PInv
<1>2. /\ wire[p] \in Seq(M) /\ wire[p] # <<>> /\ IsAnswer(wire[p][1])
      /\ wire'[p] = Tail(wire[p])
      /\ \A q \in Pages \ {p} : tab'[q] = tab[q] /\ wire'[q] = wire[q]
      /\ UNCHANGED <<current, ended, joins, members, clients, visits, faults>>
      /\ ~good => tab' = tab
      /\ good => /\ tab' = [tab EXCEPT ![p].on = current[p]]
                 /\ tab'[p] = [tab[p] EXCEPT !.on = current[p]]
  BY <1>1, TabTypes, TailIsRest
  DEF ReceiveAnswer, NextEvent, PTypes, PresenceTypeOK, IsAnswer
<1>3. /\ Len(wire'[p]) = Len(wire[p]) - 1
      /\ \A i \in 1..Len(wire'[p]) :
           wire'[p][i] = wire[p][i + 1] /\ i + 1 \in 1..Len(wire[p])
      /\ Head(wire[p]) = wire[p][1] /\ 1 \in 1..Len(wire[p])
      /\ wire'[p] \in Seq(M)
  BY <1>2, TailIsRest
<1>4. AnswerOK(p, 1)
  BY <1>2, <1>3 DEF PInv, AnswersAreOfVisits
<1>5. /\ tab'[p].at = tab[p].at /\ tab'[p].doc = tab[p].doc
      /\ tab'[p].visit = tab[p].visit /\ tab'[p].roster = tab[p].roster
      /\ ~good => tab'[p] = tab[p]
      /\ good => /\ tab'[p].on = current[p] /\ tab[p].on = None
                 /\ Conn(p) \in members[tab[p].doc] /\ Shows(p)
                 /\ \A j \in joins : j.conn[1] = p => j.visit # tab[p].visit
  BY <1>1, <1>2, <1>3, <1>4, TabTypes DEF AnswerOK, Shows
<1> HIDE DEF good
<1>6. PTypes(M)'
  <2>1. tab' \in [Pages ->
         [at : {"away", "open"}, doc : Docs \cup {None},
          visit : 0..MaxVisits, on : (0..MaxFaults) \cup {None},
          roster : SUBSET Users]]
    <3>1. current[p] \in (0..MaxFaults) \cup {None}
      BY <1>1, TabTypes
    <3>2. CASE good
      <4> DEFINE T == [at : {"away", "open"}, doc : Docs \cup {None},
                       visit : 0..MaxVisits, on : (0..MaxFaults) \cup {None},
                       roster : SUBSET Users]
      <4>1. tab \in [Pages -> T] /\ tab[p] \in T
        BY <1>1, TabTypes DEF PTypes, PresenceTypeOK
      <4>2. [tab[p] EXCEPT !.on = current[p]] \in T
        BY <3>1, <4>1
      <4> HIDE DEF T
      <4>3. tab' = [tab EXCEPT ![p] = [tab[p] EXCEPT !.on = current[p]]]
        BY <3>2, <1>2
      <4>4. tab' \in [Pages -> T]
        BY <4>1, <4>2, <4>3
      <4> QED
        BY <4>4 DEF T
    <3>3. CASE ~good
      BY <3>3, <1>1, <1>2 DEF PTypes, PresenceTypeOK
    <3> QED
      BY <3>2, <3>3
  <2>2. wire' \in [Pages -> Seq(M)]
    BY <1>1, <1>3 DEF ReceiveAnswer, PTypes
  <2> QED
    BY <2>1, <2>2, <1>1, <1>2 DEF PTypes, PresenceTypeOK, Alphabet
<1>7. /\ \A q \in Pages : Conn(q)' = Conn(q) /\ Shows(q)' = Shows(q)
      /\ \A q \in Pages \ {p} : Connected(q)' = Connected(q)
      /\ ~good => Connected(p)' = Connected(p)
      /\ good => tab[p].roster = {}
  BY <1>2, <1>5 DEF Conn, Shows, Connected, PInv, TabsAreRight, TabOK
<1>8. ConnectionsCount'
  <2>1. \A q \in Pages :
          /\ tab'[q].on # None => tab'[q].on <= current[q]
          /\ current[q] <= faults /\ tab'[q].visit <= visits
    BY <1>1, <1>2, <1>5, TabTypes DEF PInv, ConnectionsCount
  <2> QED
    BY <2>1, <1>2 DEF PInv, ConnectionsCount
<1>9. JoinsAreSingle' /\ RoomsAgree'
  BY <1>2 DEF PInv, JoinsAreSingle, RoomsAgree, RoomOK
<1>10. JoinsAreOfVisits'
  <2> SUFFICES ASSUME NEW j \in joins PROVE JoinOK(j)'
    BY <1>2 DEF JoinsAreOfVisits
  <2>1. JoinOK(j) /\ j.conn[1] \in Pages
    BY <1>1, JoinTypes DEF PInv, JoinsAreOfVisits
  <2>2. CASE j.conn[1] = p /\ good
    BY <2>1, <2>2, <1>5 DEF JoinOK
  <2>3. CASE j.conn[1] # p \/ ~good
    BY <2>1, <2>3, <1>2, <1>5 DEF JoinOK
  <2> QED
    BY <2>2, <2>3
<1>11. AnswersAreOfVisits'
  <2> SUFFICES ASSUME NEW q \in Pages, NEW i \in 1..Len(wire'[q]),
                      IsAnswer(wire'[q][i])
               PROVE AnswerOK(q, i)'
    BY DEF AnswersAreOfVisits
  <2>1. CASE q # p
    <3>1. AnswerOK(q, i)
      BY <2>1, <1>2 DEF PInv, AnswersAreOfVisits
    <3> QED
      BY <3>1, <2>1, <1>2, <1>7 DEF AnswerOK
  <2>2. CASE q = p
    <3>1. /\ i + 1 \in 1..Len(wire[p]) /\ wire'[p][i] = wire[p][i + 1]
          /\ i \in Nat /\ i + 1 # 1 /\ IsAnswer(wire[p][i + 1])
      BY <2>2, <1>3
    <3>2. AnswerOK(p, i + 1)
      BY <3>1, <2>2 DEF PInv, AnswersAreOfVisits
    <3>3. good => wire[p][i + 1].visit # tab[p].visit
      BY <3>1, <1>2, <1>3, <1>4, <2>2 DEF good, AnswerOK
    <3>4. \A k \in 1..Len(wire'[p]) :
            IsAnswer(wire'[p][k]) /\ wire'[p][k].visit = wire'[p][i].visit
              => k = i
      <4> SUFFICES ASSUME NEW k \in 1..Len(wire'[p]),
                          IsAnswer(wire'[p][k]),
                          wire'[p][k].visit = wire'[p][i].visit
                   PROVE k = i
        OBVIOUS
      <4>1. k + 1 \in 1..Len(wire[p]) /\ wire'[p][k] = wire[p][k + 1]
        BY <1>3
      <4>2. k + 1 = i + 1
        BY <4>1, <3>1, <3>2 DEF AnswerOK
      <4> QED
        BY <4>2, <3>1
    <3> QED
      BY <3>1, <3>2, <3>3, <3>4, <2>2, <1>2, <1>5, <1>7 DEF AnswerOK
  <2> QED
    BY <2>1, <2>2
<1>12. TabsAreRight'
  <2> SUFFICES ASSUME NEW q \in Pages PROVE TabOK(q)'
    BY DEF TabsAreRight
  <2>1. TabOK(q)
    BY DEF PInv, TabsAreRight
  <2>2. CASE q = p /\ good
    BY <2>1, <2>2, <1>2, <1>5, <1>7, <1>1, TabTypes DEF TabOK, Connected
  <2>3. CASE q # p \/ ~good
    BY <2>1, <2>3, <1>2, <1>5, <1>7 DEF TabOK
  <2> QED
    BY <2>2, <2>3
<1>13. MembersVisited'
  <2>1. \A q \in Pages : tab'[q].visit = tab[q].visit
    BY <1>2, <1>5
  <2> QED
    BY <2>1, <1>1, <1>2, MemberTypes DEF PInv, MembersVisited
<1>14. EventsReachMembers' /\ LeaversDropped'
  <2>1. ASSUME NEW q \in Pages, NEW i \in 1..Len(wire'[q])
        PROVE \E k \in 1..Len(wire[q]) : wire'[q][i] = wire[q][k]
    <3>1. CASE q = p
      BY <3>1, <1>3
    <3>2. CASE q # p
      BY <3>2, <1>2
    <3> QED
      BY <3>1, <3>2
  <2>2. EventsReachMembers'
    BY <2>1, <1>2, <1>7 DEF PInv, EventsReachMembers
  <2>3. LeaversDropped'
    BY <2>1, <1>2 DEF PInv, LeaversDropped
  <2> QED
    BY <2>2, <2>3
<1>15. ShownArePresent'
  <2> SUFFICES ASSUME NEW q \in Pages, Connected(q)', NEW u \in tab'[q].roster
               PROVE \/ Present(tab[q].doc, u)
                     \/ Later(wire'[q], 0, Event("left", tab[q].doc, u))
    BY <1>2, <1>5 DEF ShownArePresent, Present
  <2>1. CASE q = p /\ good
    BY <2>1, <1>5, <1>7
  <2>2. CASE q = p /\ ~good
    <3>1. \/ Present(tab[p].doc, u)
          \/ Later(wire[p], 0, Event("left", tab[p].doc, u))
      BY <2>2, <1>5, <1>7 DEF PInv, ShownArePresent
    <3>2. Head(wire[p]) # Event("left", tab[p].doc, u)
      BY <1>2, <1>3 DEF IsAnswer, Event
    <3> QED
      BY <3>1, <3>2, <2>2, <1>2, LaterInRest
  <2>3. CASE q # p
    BY <2>3, <1>2, <1>7 DEF PInv, ShownArePresent
  <2> QED
    BY <2>1, <2>2, <2>3
<1>16. JoinedArePresent'
  <2> SUFFICES ASSUME NEW q \in Pages, NEW i \in 1..Len(wire'[q]), NEW e,
                      e = wire'[q][i], e.is = "joined"
               PROVE \/ Present(e.doc, e.user)
                     \/ Later(wire'[q], i, Event("left", e.doc, e.user))
    BY <1>2 DEF JoinedArePresent, Present
  <2>1. CASE q # p
    BY <2>1, <1>2 DEF PInv, JoinedArePresent
  <2>2. CASE q = p
    <3>1. /\ e = wire[p][i + 1] /\ i + 1 \in 1..Len(wire[p])
          /\ i + 1 \in Nat /\ i + 1 >= 1 /\ (i + 1) - 1 = i
      BY <2>2, <1>3
    <3>2. \/ Present(e.doc, e.user)
          \/ Later(wire[p], i + 1, Event("left", e.doc, e.user))
      BY <3>1 DEF PInv, JoinedArePresent
    <3> QED
      BY <3>1, <3>2, <2>2, <1>2, LaterInRest
  <2> QED
    BY <2>1, <2>2
<1>17. NewcomersAreTold'
  <2> SUFFICES ASSUME NEW q \in Pages, NEW r \in Pages, FirstAt(q, r)'
               PROVE NewcomerTold(q, r)'
    BY DEF NewcomersAreTold
  <2>1. FirstAt(q, r) /\ Greeting(q, r)' = Greeting(q, r)
    BY <1>2, <1>5, <1>7 DEF FirstAt, Before, Single, Greeting
  <2>2. NewcomerTold(q, r)
    BY <2>1 DEF PInv, NewcomersAreTold
  <2>3. CASE q # p
    BY <2>1, <2>2, <2>3, <1>2 DEF NewcomerTold
  <2>4. CASE q = p
    <3> DEFINE g == Greeting(p, r)
    <3>1. Head(wire[p]) # g
      BY <1>2, <1>3 DEF IsAnswer, Event, Greeting
    <3>2. Later(wire[p], 1, g)
      BY <2>2, <2>4, <1>2, <1>3 DEF NewcomerTold
    <3> HIDE DEF g
    <3>3. Later(Tail(wire[p]), 0, g)
      <4>1. 1 \in Nat /\ 1 >= 1 /\ 1 - 1 = 0
        OBVIOUS
      <4> QED
        BY <4>1, <3>2, <1>2, LaterInRest
    <3>4. ASSUME NEW i \in 1..Len(wire'[p]), IsAnswer(wire'[p][i])
          PROVE Later(wire'[p], i, g)
      <4>1. /\ wire'[p][i] = wire[p][i + 1] /\ i + 1 \in 1..Len(wire[p])
            /\ i + 1 \in Nat /\ i + 1 >= 1 /\ (i + 1) - 1 = i
        BY <1>3
      <4>2. Later(wire[p], i + 1, g)
        BY <4>1, <3>4, <2>2, <2>4 DEF NewcomerTold, g
      <4> QED
        BY <4>1, <4>2, <1>2, LaterInRest
    <3> QED
      BY <3>3, <3>4, <2>1, <2>4, <1>2 DEF NewcomerTold, g
  <2> QED
    BY <2>3, <2>4
<1> QED
  BY <1>6, <1>8, <1>9, <1>10, <1>11, <1>12, <1>13, <1>14, <1>15, <1>16, <1>17
  DEF PInv

\* An event that is no answer is read; the roster becomes R.
Read(p, R) ==
  /\ wire' = [wire EXCEPT ![p] = Tail(@)]
  /\ tab' = [tab EXCEPT ![p].roster = R]
  /\ UNCHANGED <<current, ended, joins, members, clients, visits, faults>>
RosterOK(p, R) ==
  /\ tab[p].on = None => R = {}
  /\ Connected(p) => \A u \in R :
       \/ Present(tab[p].doc, u)
       \/ Later(Tail(wire[p]), 0, Event("left", tab[p].doc, u))
  /\ \A r \in Pages : FirstAt(p, r) /\ tab[p].on = current[p] =>
       UserOf[r] \in R \/ Later(Tail(wire[p]), 0, Greeting(p, r))

LEMMA PInvHeard ==
  ASSUME NEW M, PInv(M), NEW p \in Pages, NEW R \in SUBSET Users,
         wire[p] # <<>>, ~IsAnswer(wire[p][1]), RosterOK(p, R), Read(p, R)
  PROVE PInv(M)'
<1>1. PTypes(M)
  BY DEF PInv
<1>2. /\ wire[p] \in Seq(M) /\ wire'[p] = Tail(wire[p])
      /\ \A q \in Pages \ {p} : tab'[q] = tab[q] /\ wire'[q] = wire[q]
      /\ tab'[p] = [tab[p] EXCEPT !.roster = R]
      /\ current' = current /\ joins' = joins /\ members' = members
      /\ clients' = clients /\ ended' = ended /\ visits' = visits
      /\ faults' = faults
  BY <1>1, TabTypes DEF Read, PTypes, PresenceTypeOK
<1>3. /\ Len(wire'[p]) = Len(wire[p]) - 1
      /\ \A i \in 1..Len(wire'[p]) :
           wire'[p][i] = wire[p][i + 1] /\ i + 1 \in 1..Len(wire[p])
      /\ wire'[p] \in Seq(M)
      /\ \A i \in 1..Len(wire'[p]) :
           i \in Nat /\ i + 1 \in Nat /\ i + 1 >= 1 /\ (i + 1) - 1 = i
  <2>1. /\ Len(wire'[p]) = Len(wire[p]) - 1
        /\ \A i \in 1..Len(wire'[p]) :
             wire'[p][i] = wire[p][i + 1] /\ i + 1 \in 1..Len(wire[p])
        /\ wire'[p] \in Seq(M)
    <3>1. PICK s : s = wire[p]
      OBVIOUS
    <3>2. s \in Seq(M) /\ s # <<>>
      BY <1>2, <3>1
    <3>3. wire'[p] = Tail(s)
      BY <1>2, <3>1
    <3>4. /\ Tail(s) \in Seq(M) /\ Len(Tail(s)) = Len(s) - 1
          /\ \A i \in 1..Len(Tail(s)) :
               Tail(s)[i] = s[i + 1] /\ i + 1 \in 1..Len(s)
      BY <3>2, TailIsRest
    <3> QED
      BY <3>1, <3>3, <3>4
  <2>2. \A i \in 1..Len(wire'[p]) :
          i \in Nat /\ i + 1 \in Nat /\ i + 1 >= 1 /\ (i + 1) - 1 = i
    BY <2>1
  <2> QED
    BY <2>1, <2>2
<1>4. /\ tab'[p].roster = R
      /\ \A q \in Pages :
           /\ tab'[q].at = tab[q].at /\ tab'[q].doc = tab[q].doc
           /\ tab'[q].visit = tab[q].visit /\ tab'[q].on = tab[q].on
  BY <1>1, <1>2, TabTypes DEF Read
<1>5. PTypes(M)'
  <2> DEFINE T == [at : {"away", "open"}, doc : Docs \cup {None},
                   visit : 0..MaxVisits, on : (0..MaxFaults) \cup {None},
                   roster : SUBSET Users]
  <2>1. tab \in [Pages -> T] /\ tab[p] \in T
    BY <1>1, TabTypes DEF PTypes, PresenceTypeOK
  <2>2. [tab[p] EXCEPT !.roster = R] \in T
    BY <2>1
  <2> HIDE DEF T
  <2>3. tab' = [tab EXCEPT ![p] = [tab[p] EXCEPT !.roster = R]]
    BY DEF Read
  <2>4. tab' \in [Pages -> T]
    BY <2>1, <2>2, <2>3
  <2>5. wire' \in [Pages -> Seq(M)]
    BY <1>1, <1>2, <1>3 DEF Read, PTypes
  <2> QED
    BY <2>4, <2>5, <1>1, <1>2 DEF T, PTypes, PresenceTypeOK, Alphabet
<1>6. \A q \in Pages : /\ Conn(q)' = Conn(q) /\ Shows(q)' = Shows(q)
                       /\ Connected(q)' = Connected(q)
  BY <1>2, <1>4 DEF Conn, Shows, Connected
<1>7. ConnectionsCount' /\ JoinsAreSingle' /\ RoomsAgree'
  BY <1>2, <1>4
  DEF PInv, ConnectionsCount, JoinsAreSingle, RoomsAgree, RoomOK
<1>8. JoinsAreOfVisits'
  BY <1>1, <1>2, <1>4, JoinTypes DEF PInv, JoinsAreOfVisits, JoinOK
<1>9. AnswersAreOfVisits'
  <2> SUFFICES ASSUME NEW q \in Pages, NEW i \in 1..Len(wire'[q]),
                      IsAnswer(wire'[q][i])
               PROVE AnswerOK(q, i)'
    BY DEF AnswersAreOfVisits
  <2>1. CASE q # p
    <3>1. AnswerOK(q, i)
      BY <2>1, <1>2 DEF PInv, AnswersAreOfVisits
    <3> QED
      BY <3>1, <2>1, <1>2, <1>4, <1>6 DEF AnswerOK
  <2>2. CASE q = p
    <3>1. AnswerOK(p, i + 1)
      BY <1>3, <2>2 DEF PInv, AnswersAreOfVisits
    <3>2. \A k \in 1..Len(wire'[p]) :
            IsAnswer(wire'[p][k]) /\ wire'[p][k].visit = wire'[p][i].visit
              => k = i
      <4> SUFFICES ASSUME NEW k \in 1..Len(wire'[p]),
                          IsAnswer(wire'[p][k]),
                          wire'[p][k].visit = wire'[p][i].visit
                   PROVE k = i
        OBVIOUS
      <4>0. /\ k + 1 \in 1..Len(wire[p]) /\ wire'[p][k] = wire[p][k + 1]
            /\ wire'[p][i] = wire[p][i + 1]
        BY <1>3, <2>2
      <4>1. k + 1 = i + 1
        BY <4>0, <3>1, <2>2 DEF AnswerOK
      <4> QED
        BY <4>1, <1>3, <2>2
    <3>3. wire'[p][i] = wire[p][i + 1]
      BY <1>3, <2>2
    <3> QED
      BY <3>1, <3>2, <3>3, <2>2, <1>2, <1>4, <1>6 DEF AnswerOK
  <2> QED
    BY <2>1, <2>2
<1>10. TabsAreRight'
  <2> SUFFICES ASSUME NEW q \in Pages PROVE TabOK(q)'
    BY DEF TabsAreRight
  <2>1. TabOK(q)
    BY DEF PInv, TabsAreRight
  <2> QED
    BY <2>1, <1>2, <1>4, <1>6 DEF TabOK, RosterOK
<1>11. MembersVisited'
  BY <1>1, <1>2, <1>4, MemberTypes DEF PInv, MembersVisited
<1>12. EventsReachMembers' /\ LeaversDropped'
  <2>1. ASSUME NEW q \in Pages, NEW i \in 1..Len(wire'[q])
        PROVE \E k \in 1..Len(wire[q]) : wire'[q][i] = wire[q][k]
    <3>1. CASE q = p
      BY <3>1, <1>3
    <3>2. CASE q # p
      BY <3>2, <1>2
    <3> QED
      BY <3>1, <3>2
  <2>2. EventsReachMembers'
    BY <2>1, <1>2, <1>6 DEF PInv, EventsReachMembers
  <2>3. LeaversDropped'
    BY <2>1, <1>2 DEF PInv, LeaversDropped
  <2> QED
    BY <2>2, <2>3
<1>13. ShownArePresent'
  <2> SUFFICES ASSUME NEW q \in Pages, Connected(q), NEW u \in tab'[q].roster
               PROVE \/ Present(tab[q].doc, u)
                     \/ Later(wire'[q], 0, Event("left", tab[q].doc, u))
    BY <1>2, <1>4, <1>6 DEF ShownArePresent, Present
  <2>1. CASE q = p
    BY <2>1, <1>2, <1>4 DEF RosterOK
  <2>2. CASE q # p
    BY <2>2, <1>2 DEF PInv, ShownArePresent
  <2> QED
    BY <2>1, <2>2
<1>14. JoinedArePresent'
  <2> SUFFICES ASSUME NEW q \in Pages, NEW i \in 1..Len(wire'[q]), NEW e,
                      e = wire'[q][i], e.is = "joined"
               PROVE \/ Present(e.doc, e.user)
                     \/ Later(wire'[q], i, Event("left", e.doc, e.user))
    BY <1>2 DEF JoinedArePresent, Present
  <2>1. CASE q # p
    BY <2>1, <1>2 DEF PInv, JoinedArePresent
  <2>2. CASE q = p
    <3>0. wire'[p][i] = wire[p][i + 1] /\ i + 1 \in 1..Len(wire[p])
      BY <1>3, <2>2
    <3>1. \/ Present(e.doc, e.user)
          \/ Later(wire[p], i + 1, Event("left", e.doc, e.user))
      BY <3>0, <2>2 DEF PInv, JoinedArePresent
    <3> QED
      BY <3>1, <2>2, <1>2, <1>3, LaterInRest
  <2> QED
    BY <2>1, <2>2
<1>15. NewcomersAreTold'
  <2> SUFFICES ASSUME NEW q \in Pages, NEW r \in Pages, FirstAt(q, r)'
               PROVE NewcomerTold(q, r)'
    BY DEF NewcomersAreTold
  <2>1. FirstAt(q, r) /\ Greeting(q, r)' = Greeting(q, r)
    BY <1>2, <1>4, <1>6 DEF FirstAt, Before, Single, Greeting
  <2>2. NewcomerTold(q, r)
    BY <2>1 DEF PInv, NewcomersAreTold
  <2>3. CASE q # p
    BY <2>1, <2>2, <2>3, <1>2 DEF NewcomerTold
  <2>4. CASE q = p
    <3> DEFINE g == Greeting(p, r)
    <3>1. ASSUME NEW i \in 1..Len(wire'[p]), IsAnswer(wire'[p][i])
          PROVE Later(wire'[p], i, g)
      <4>1. Later(wire[p], i + 1, g)
        BY <1>3, <3>1, <2>2, <2>4 DEF NewcomerTold, g
      <4> HIDE DEF g
      <4> QED
        BY <4>1, <1>2, <1>3, LaterInRest
    <3> QED
      BY <3>1, <2>1, <2>4, <1>2, <1>4 DEF NewcomerTold, RosterOK, g
  <2> QED
    BY <2>3, <2>4
<1> QED
  BY <1>5, <1>7, <1>8, <1>9, <1>10, <1>11, <1>12, <1>13, <1>14, <1>15 DEF PInv

\* onPresence: who is reported is there, or will be reported gone; and a
\* report of somebody gone is not about a newcomer who stays.
LEMMA PInvReceivePresence ==
  ASSUME NEW M, PInv(M), NEW p \in Pages, ReceivePresence(p)
  PROVE PInv(M)'
<1>1. PTypes(M)
  BY DEF PInv
<1>2. PICK e : e = wire[p][1]
  OBVIOUS
<1>3. /\ wire[p] \in Seq(M) /\ wire[p] # <<>> /\ Head(wire[p]) = e
      /\ IsEvent(e) /\ ~IsAnswer(e) /\ 1 \in 1..Len(wire[p])
  BY <1>1, <1>2, TabTypes, TailIsRest
  DEF ReceivePresence, NextEvent, IsEvent, IsAnswer
<1>4. e \in Events /\ e = Event(e.is, e.doc, e.user)
  BY <1>1, <1>2, <1>3, WireTypes
<1> DEFINE old == tab[p].roster
           heard == Heard(p, e)
           R == IF ~heard THEN old
                ELSE IF e.is = "joined" THEN old \cup {e.user}
                ELSE old \ {e.user}
<1>5. tab[p].roster \in SUBSET Users
  BY <1>1, TabTypes
<1>6. R \in SUBSET Users
  BY <1>4, <1>5 DEF Events
<1>7. tab' = [tab EXCEPT ![p].roster = R]
  <2>1. CASE heard
    BY <2>1, <1>3 DEF ReceivePresence
  <2>2. CASE ~heard
    <3>1. tab' = tab
      BY <2>2, <1>3 DEF ReceivePresence
    <3>2. tab = [tab EXCEPT ![p] = tab[p]]
      BY <1>1 DEF PTypes, PresenceTypeOK
    <3>3. tab[p] = [tab[p] EXCEPT !.roster = old]
      BY <1>1, TabTypes
    <3> QED
      BY <3>1, <3>2, <3>3, <2>2
  <2> QED
    BY <2>1, <2>2
<1>8. tab[p].on = None => R = {}
  BY DEF PInv, TabsAreRight, TabOK, Heard
<1>9. ASSUME Connected(p), NEW u \in R
      PROVE \/ Present(tab[p].doc, u)
            \/ Later(Tail(wire[p]), 0, Event("left", tab[p].doc, u))
  <2> DEFINE bye == Event("left", tab[p].doc, u)
  <2>1. CASE u \in old
    <3>1. Present(tab[p].doc, u) \/ Later(wire[p], 0, bye)
      BY <2>1, <1>9 DEF PInv, ShownArePresent
    <3>2. e # bye
      <4>1. ASSUME e = bye PROVE FALSE
        <5>1. e.is = "left" /\ e.doc = tab[p].doc /\ e.user = u
          BY <4>1 DEF Event
        <5>2. tab[p].on # None
          BY <1>9, <1>1, TabTypes DEF Connected
        <5> QED
          BY <5>1, <5>2, <1>9 DEF Heard
      <4> QED
        BY <4>1
    <3> HIDE DEF bye
    <3> QED
      BY <3>1, <3>2, <1>3, LaterInRest DEF bye
  <2>2. CASE u \notin old
    <3>1. e.is = "joined" /\ e.doc = tab[p].doc /\ e.user = u
      BY <2>2, <1>9 DEF Heard
    <3>2. Present(tab[p].doc, u) \/ Later(wire[p], 1, bye)
      BY <3>1, <1>2, <1>3 DEF PInv, JoinedArePresent
    <3> HIDE DEF bye
    <3>3. 1 \in Nat /\ 1 >= 1 /\ 1 - 1 = 0
      OBVIOUS
    <3> QED
      BY <3>2, <3>3, <1>3, LaterInRest DEF bye
  <2> QED
    BY <2>1, <2>2
<1>10. ASSUME NEW r \in Pages, FirstAt(p, r), tab[p].on = current[p]
       PROVE UserOf[r] \in R \/ Later(Tail(wire[p]), 0, Greeting(p, r))
  <2> DEFINE g == Greeting(p, r)
  <2>1. UserOf[r] \in old \/ Later(wire[p], 0, g)
    BY <1>10 DEF PInv, NewcomersAreTold, NewcomerTold
  <2>2. CASE UserOf[r] \in old
    <3>1. ASSUME e.is = "left", e.user = UserOf[r] PROVE FALSE
      <4>1. PICK q \in Pages : UserOf[q] = UserOf[r] /\ current[q] > 0
        BY <3>1, <1>2, <1>3 DEF PInv, LeaversDropped
      <4>2. Single(r) /\ current[q] \in Nat
        BY <1>10, <1>1, TabTypes DEF FirstAt
      <4> QED
        BY <4>1, <4>2 DEF Single
    <3> QED
      BY <3>1, <2>2, <1>3 DEF IsEvent
  <2>3. CASE e = g
    <3>1. tab[p].on # None
      BY <1>10, <1>1, TabTypes
    <3> QED
      BY <2>3, <3>1 DEF Greeting, Event, Heard
  <2>4. CASE Later(wire[p], 0, g) /\ e # g
    <3> HIDE DEF g
    <3>1. Later(Tail(wire[p]), 0, g)
      BY <2>4, <1>3, LaterInRest
    <3> QED
      BY <3>1 DEF g
  <2> QED
    BY <2>1, <2>2, <2>3, <2>4
<1> HIDE DEF R
<1>11. /\ wire' = [wire EXCEPT ![p] = Tail(@)]
       /\ UNCHANGED <<current, ended, joins, members, clients, visits, faults>>
       /\ ~IsAnswer(wire[p][1])
  BY <1>2, <1>3 DEF ReceivePresence
<1>12. RosterOK(p, R)
  BY <1>8, <1>9, <1>10 DEF RosterOK
<1>13. Read(p, R)
  BY <1>7, <1>11 DEF Read
<1> QED
  BY <1>3, <1>6, <1>11, <1>12, <1>13, PInvHeard

\* An event of another kind is read.
LEMMA PInvHeardElse ==
  ASSUME NEW M, PInv(M), NEW p \in Pages,
         wire[p] # <<>>, ~IsAnswer(Head(wire[p])), ~IsEvent(Head(wire[p])),
         wire' = [wire EXCEPT ![p] = Tail(@)],
         UNCHANGED <<tab, current, ended, joins, members, clients, visits,
                     faults>>
  PROVE PInv(M)'
<1>1. PTypes(M) /\ wire[p] \in Seq(M)
  BY TabTypes DEF PInv
<1>2. PICK R : R = tab[p].roster
  OBVIOUS
<1>3. /\ R \in SUBSET Users /\ Head(wire[p]) = wire[p][1]
      /\ tab[p].on = None => R = {}
  BY <1>1, <1>2, TabTypes, TailIsRest DEF PInv, TabsAreRight, TabOK
<1>4. tab' = [tab EXCEPT ![p].roster = R]
  <2>1. tab = [tab EXCEPT ![p] = tab[p]]
    BY <1>1 DEF PTypes, PresenceTypeOK
  <2>2. tab[p] = [tab[p] EXCEPT !.roster = R]
    BY <1>1, <1>2, TabTypes
  <2> QED
    BY <2>1, <2>2
<1>5. \A is \in {"joined", "left"} : \A d, u :
        Later(wire[p], 0, Event(is, d, u)) =>
          Later(Tail(wire[p]), 0, Event(is, d, u))
  <2> SUFFICES ASSUME NEW is \in {"joined", "left"}, NEW d, NEW u,
                      Later(wire[p], 0, Event(is, d, u))
               PROVE Later(Tail(wire[p]), 0, Event(is, d, u))
    OBVIOUS
  <2>1. Head(wire[p]) # Event(is, d, u)
    BY DEF IsEvent, Event
  <2> QED
    BY <2>1, <1>1, LaterInRest
<1>6. Connected(p) => \A u \in R :
        \/ Present(tab[p].doc, u)
        \/ Later(Tail(wire[p]), 0, Event("left", tab[p].doc, u))
  BY <1>2, <1>5 DEF PInv, ShownArePresent
<1>7. \A r \in Pages : FirstAt(p, r) /\ tab[p].on = current[p] =>
        UserOf[r] \in R \/ Later(Tail(wire[p]), 0, Greeting(p, r))
  BY <1>2, <1>5 DEF PInv, NewcomersAreTold, NewcomerTold, Greeting
<1>8. RosterOK(p, R)
  BY <1>3, <1>6, <1>7 DEF RosterOK
<1>9. Read(p, R)
  BY <1>4 DEF Read
<1> QED
  BY <1>3, <1>8, <1>9, PInvHeard

-----------------------------------------------------------------------------
(* The server.                                                             *)

\* Writing to a wire.
LEMMA JoinedSeqs ==
  ASSUME NEW M, NEW s \in Seq(M), NEW t \in Seq(M)
  PROVE /\ s \o t \in Seq(M) /\ Len(s \o t) = Len(s) + Len(t)
        /\ Len(s) \in Nat /\ Len(t) \in Nat
        /\ \A i \in 1..Len(s) : (s \o t)[i] = s[i] /\ i \in 1..Len(s \o t)
        /\ \A i \in 1..Len(t) :
             (s \o t)[Len(s) + i] = t[i] /\ Len(s) + i \in 1..Len(s \o t)
        /\ \A i \in 1..Len(s \o t) :
             \/ i \in 1..Len(s) /\ (s \o t)[i] = s[i]
             \/ /\ i > Len(s) /\ i - Len(s) \in 1..Len(t)
                /\ (s \o t)[i] = t[i - Len(s)]
  OBVIOUS

LEMMA LaterInJoined ==
  ASSUME NEW M, NEW s \in Seq(M), NEW t \in Seq(M), NEW e, NEW i \in Nat
  PROVE /\ Later(s, i, e) => Later(s \o t, i, e)
        /\ i <= Len(s) /\ (\E k \in 1..Len(t) : t[k] = e)
             => Later(s \o t, i, e)
<1>1. ASSUME Later(s, i, e) PROVE Later(s \o t, i, e)
  BY <1>1, JoinedSeqs DEF Later
<1>2. ASSUME i <= Len(s), NEW k \in 1..Len(t), t[k] = e
      PROVE Later(s \o t, i, e)
  <2>1. /\ Len(s) + k \in 1..Len(s \o t) /\ (s \o t)[Len(s) + k] = e
        /\ Len(s) + k > i
    BY <1>2, JoinedSeqs
  <2> QED
    BY <2>1 DEF Later
<1> QED
  BY <1>1, <1>2

LEMMA Appended ==
  ASSUME NEW M, NEW s \in Seq(M), NEW e \in M
  PROVE /\ Append(s, e) \in Seq(M) /\ Len(s) \in Nat
        /\ \A i \in 1..Len(s) :
             Append(s, e)[i] = s[i] /\ i \in 1..Len(Append(s, e))
        /\ \A i \in 1..Len(Append(s, e)) :
             \/ i \in 1..Len(s) /\ Append(s, e)[i] = s[i]
             \/ i = Len(s) + 1 /\ Append(s, e)[i] = e
        /\ Len(s) + 1 \in 1..Len(Append(s, e))
        /\ Append(s, e)[Len(s) + 1] = e
        /\ \A i \in Nat : \A f : Later(s, i, f) => Later(Append(s, e), i, f)
        /\ \A i \in 0..Len(s) : Later(Append(s, e), i, e)
<1>1. /\ Append(s, e) \in Seq(M) /\ Len(s) \in Nat
      /\ \A i \in 1..Len(s) :
           Append(s, e)[i] = s[i] /\ i \in 1..Len(Append(s, e))
      /\ \A i \in 1..Len(Append(s, e)) :
           \/ i \in 1..Len(s) /\ Append(s, e)[i] = s[i]
           \/ i = Len(s) + 1 /\ Append(s, e)[i] = e
      /\ Len(s) + 1 \in 1..Len(Append(s, e))
      /\ Append(s, e)[Len(s) + 1] = e
  OBVIOUS
<1>2. ASSUME NEW i \in Nat, NEW f, Later(s, i, f)
      PROVE Later(Append(s, e), i, f)
  BY <1>1, <1>2 DEF Later
<1>3. ASSUME NEW i \in 0..Len(s) PROVE Later(Append(s, e), i, e)
  <2>1. Len(s) + 1 > i
    BY <1>1
  <2> QED
    BY <2>1, <1>1 DEF Later
<1> QED
  BY <1>1, <1>2, <1>3

\* Something that is neither a join nor a leave is sent, perhaps the refusal
\* of a join that was waiting.
Unlike(q, e) ==
  /\ ~IsEvent(e)
  /\ IsAnswer(e) => /\ e.is = "refused"
                    /\ \E j \in joins \ joins' :
                         j.conn = Conn(q) /\ j.visit = e.visit
WireGrows(M) ==
  \A q \in Pages : wire'[q] # wire[q] =>
    \E e \in M : wire'[q] = Append(wire[q], e) /\ Unlike(q, e)

LEMMA GrownWire ==
  ASSUME NEW M, PTypes(M), NEW q \in Pages,
         wire'[q] # wire[q] =>
           \E e \in M : wire'[q] = Append(wire[q], e) /\ Unlike(q, e)
  PROVE /\ wire'[q] \in Seq(M)
        /\ \A i \in 1..Len(wire[q]) :
             i \in 1..Len(wire'[q]) /\ wire'[q][i] = wire[q][i]
        /\ \A i \in 1..Len(wire'[q]) :
             \/ i \in 1..Len(wire[q])
             \/ i = Len(wire[q]) + 1 /\ Unlike(q, wire'[q][i])
        /\ \A i \in Nat : \A f : Later(wire[q], i, f) => Later(wire'[q], i, f)
<1>1. wire[q] \in Seq(M)
  BY TabTypes
<1>2. CASE wire'[q] = wire[q]
  BY <1>1, <1>2
<1>3. CASE wire'[q] # wire[q]
  <2>1. PICK e \in M : wire'[q] = Append(wire[q], e) /\ Unlike(q, e)
    BY <1>3
  <2> QED
    BY <1>1, <2>1, Appended
<1> QED
  BY <1>2, <1>3

LEMMA PInvGrow ==
  ASSUME NEW M, PInv(M), WireGrows(M), wire' \in [Pages -> Seq(M)],
         joins' \subseteq joins, faults' \in 0..MaxFaults, faults' >= faults,
         UNCHANGED <<tab, current, ended, members, clients, visits>>
  PROVE PInv(M)'
<1>1. PTypes(M)
  BY DEF PInv
<1>2. \A q \in Pages : /\ Conn(q)' = Conn(q) /\ Shows(q)' = Shows(q)
                       /\ Connected(q)' = Connected(q)
  BY DEF Conn, Shows, Connected
<1>3. ASSUME NEW q \in Pages
      PROVE /\ wire'[q] \in Seq(M)
            /\ \A i \in 1..Len(wire[q]) :
                 i \in 1..Len(wire'[q]) /\ wire'[q][i] = wire[q][i]
            /\ \A i \in 1..Len(wire'[q]) :
                 \/ i \in 1..Len(wire[q])
                 \/ i = Len(wire[q]) + 1 /\ Unlike(q, wire'[q][i])
            /\ \A i \in Nat : \A f :
                 Later(wire[q], i, f) => Later(wire'[q], i, f)
  BY <1>1, GrownWire DEF WireGrows
<1>4. PTypes(M)'
  BY <1>1 DEF PTypes, PresenceTypeOK, Alphabet
<1>5. ConnectionsCount'
  <2>1. faults \in Nat /\ faults' \in Nat
    BY <1>1, BoundsAreNumbers DEF PTypes, PresenceTypeOK
  <2>2. ASSUME NEW q \in Pages PROVE current[q] <= faults'
    BY <1>1, <2>1, TabTypes DEF PInv, ConnectionsCount
  <2> QED
    BY <2>2 DEF PInv, ConnectionsCount
<1>6. JoinsAreSingle' /\ JoinsAreOfVisits' /\ RoomsAgree'
  BY DEF PInv, JoinsAreSingle, JoinsAreOfVisits, JoinOK, RoomsAgree, RoomOK
<1>7. AnswersAreOfVisits'
  <2> SUFFICES ASSUME NEW q \in Pages, NEW i \in 1..Len(wire'[q]),
                      IsAnswer(wire'[q][i])
               PROVE AnswerOK(q, i)'
    BY DEF AnswersAreOfVisits
  <2>1. ASSUME NEW k \in 1..Len(wire'[q]), IsAnswer(wire'[q][k]),
               k \notin 1..Len(wire[q])
        PROVE /\ k = Len(wire[q]) + 1 /\ wire'[q][k].is = "refused"
              /\ \E j \in joins \ joins' :
                   j.conn = Conn(q) /\ j.visit = wire'[q][k].visit
    BY <1>3, <2>1 DEF Unlike
  <2>2. \A k \in 1..Len(wire[q]) : IsAnswer(wire[q][k]) =>
          AnswerOK(q, k) /\ wire'[q][k] = wire[q][k]
    BY <1>3 DEF PInv, AnswersAreOfVisits
  <2>3. Conn(q)[1] = q
    BY <1>1, TabTypes
  <2>4. CASE i \in 1..Len(wire[q])
    <3>1. AnswerOK(q, i) /\ wire'[q][i] = wire[q][i]
      BY <2>2, <2>4, <1>3
    <3>2. ASSUME NEW k \in 1..Len(wire'[q]), IsAnswer(wire'[q][k]),
                 wire'[q][k].visit = wire'[q][i].visit
          PROVE k = i
      <4>1. CASE k \in 1..Len(wire[q])
        BY <4>1, <3>1, <3>2, <1>3 DEF AnswerOK
      <4>2. CASE k \notin 1..Len(wire[q])
        BY <4>2, <3>1, <3>2, <2>1, <2>3 DEF AnswerOK
      <4> QED
        BY <4>1, <4>2
    <3> QED
      BY <3>1, <3>2, <1>2 DEF AnswerOK
  <2>5. CASE i \notin 1..Len(wire[q])
    <3>1. PICK j \in joins \ joins' :
            j.conn = Conn(q) /\ j.visit = wire'[q][i].visit
      BY <2>1, <2>5
    <3>2. JoinOK(j) /\ j.conn[1] = q /\ j.visit \in Nat
      BY <3>1, <2>3, <1>1, JoinTypes DEF PInv, JoinsAreOfVisits
    <3>3. ASSUME NEW k \in 1..Len(wire'[q]), IsAnswer(wire'[q][k]),
                 wire'[q][k].visit = wire'[q][i].visit
          PROVE k = i
      <4>1. CASE k \in 1..Len(wire[q])
        BY <4>1, <3>1, <3>2, <3>3, <2>2, <1>3 DEF AnswerOK
      <4>2. CASE k \notin 1..Len(wire[q])
        BY <4>2, <3>3, <2>1, <2>5
      <4> QED
        BY <4>1, <4>2
    <3>4. \A k \in joins' : k.conn[1] = q => k.visit # j.visit
      BY <3>1, <3>2 DEF PInv, JoinsAreSingle
    <3>5. j.visit <= tab[q].visit
          /\ (j.visit = tab[q].visit => tab[q].on = None)
      BY <3>2, <1>1, TabTypes
      DEF JoinOK, PInv, TabsAreRight, TabOK, Shows
    <3>6. wire'[q][i].is = "refused"
      BY <2>1, <2>5
    <3> QED
      BY <3>1, <3>3, <3>4, <3>5, <3>6 DEF AnswerOK
  <2> QED
    BY <2>4, <2>5
<1>8. TabsAreRight'
  BY <1>2 DEF PInv, TabsAreRight, TabOK
<1>9. MembersVisited'
  BY DEF PInv, MembersVisited
<1>10. EventsReachMembers' /\ LeaversDropped'
  <2>1. ASSUME NEW q \in Pages, NEW i \in 1..Len(wire'[q]), IsEvent(wire'[q][i])
        PROVE i \in 1..Len(wire[q]) /\ wire'[q][i] = wire[q][i]
    BY <2>1, <1>3 DEF Unlike
  <2>2. EventsReachMembers'
    BY <2>1, <1>2 DEF PInv, EventsReachMembers
  <2>3. LeaversDropped'
    BY <2>1 DEF PInv, LeaversDropped, IsEvent
  <2> QED
    BY <2>2, <2>3
<1>11. ShownArePresent'
  <2> SUFFICES ASSUME NEW q \in Pages, Connected(q), NEW u \in tab[q].roster
               PROVE \/ Present(tab[q].doc, u)
                     \/ Later(wire'[q], 0, Event("left", tab[q].doc, u))
    BY <1>2 DEF ShownArePresent, Present
  <2> QED
    BY <1>3 DEF PInv, ShownArePresent
<1>12. JoinedArePresent'
  <2> SUFFICES ASSUME NEW q \in Pages, NEW i \in 1..Len(wire'[q]), NEW e,
                      e = wire'[q][i], e.is = "joined"
               PROVE \/ Present(e.doc, e.user)
                     \/ Later(wire'[q], i, Event("left", e.doc, e.user))
    BY DEF JoinedArePresent, Present
  <2>1. i \in 1..Len(wire[q]) /\ e = wire[q][i] /\ i \in Nat
    BY <1>3 DEF Unlike, IsEvent
  <2>2. \/ Present(e.doc, e.user)
        \/ Later(wire[q], i, Event("left", e.doc, e.user))
    BY <2>1 DEF PInv, JoinedArePresent
  <2> QED
    BY <2>1, <2>2, <1>3
<1>13. NewcomersAreTold'
  <2> SUFFICES ASSUME NEW q \in Pages, NEW r \in Pages, FirstAt(q, r)'
               PROVE NewcomerTold(q, r)'
    BY DEF NewcomersAreTold
  <2>1. FirstAt(q, r) /\ Greeting(q, r)' = Greeting(q, r)
    BY <1>2 DEF FirstAt, Before, Single, Greeting
  <2>2. NewcomerTold(q, r)
    BY <2>1 DEF PInv, NewcomersAreTold
  <2>3. \A j \in joins : j.conn[1] # q
    BY <2>1, FirstHasJoined
  <2>4. ASSUME NEW i \in 1..Len(wire'[q]), IsAnswer(wire'[q][i])
        PROVE Later(wire'[q], i, Greeting(q, r))
    <3>0. ~Unlike(q, wire'[q][i])
      <4>1. Conn(q)[1] = q
        BY <1>1, TabTypes
      <4> QED
        BY <4>1, <2>3, <2>4 DEF Unlike
    <3>1. i \in 1..Len(wire[q]) /\ wire'[q][i] = wire[q][i] /\ i \in Nat
      BY <3>0, <1>3
    <3> QED
      BY <3>1, <2>2, <2>4, <1>3 DEF NewcomerTold
  <2>5. tab[q].on = current[q] =>
          UserOf[r] \in tab[q].roster \/ Later(wire'[q], 0, Greeting(q, r))
    BY <2>2, <1>3 DEF NewcomerTold
  <2> QED
    BY <2>1, <2>4, <2>5 DEF NewcomerTold
<1> QED
  BY <1>4, <1>5, <1>6, <1>7, <1>8, <1>9, <1>10, <1>11, <1>12, <1>13 DEF PInv

LEMMA PInvRefuseJoin ==
  ASSUME NEW M, PInv(M), NEW j \in joins, RefuseJoin(j)
  PROVE PInv(M)'
<1>1. PTypes(M) /\ Alphabet(M) /\ wire \in [Pages -> Seq(M)]
  BY DEF PInv, PTypes
<1>2. /\ joins' = joins \ {j} /\ faults' = faults + 1 /\ faults < MaxFaults
      /\ UNCHANGED <<tab, current, ended, members, clients, visits>>
  BY DEF RefuseJoin
<1>3. faults' \in 0..MaxFaults /\ faults' >= faults
  BY <1>1, <1>2, BoundsAreNumbers DEF PTypes, PresenceTypeOK
<1> DEFINE no == [is |-> "refused", visit |-> j.visit]
<1>4. no \in M /\ IsAnswer(no) /\ ~IsEvent(no)
  BY <1>1, JoinTypes DEF Alphabet, Answers, IsAnswer, IsEvent
<1>5. CASE ~Live(j.conn)
  <2>1. wire' = wire
    BY <1>5 DEF RefuseJoin
  <2>2. WireGrows(M)
    BY <2>1 DEF WireGrows
  <2> QED
    BY <2>1, <2>2, <1>1, <1>2, <1>3, PInvGrow
<1>6. CASE Live(j.conn)
  <2>1. wire' = [wire EXCEPT ![j.conn[1]] = Append(@, no)]
    BY <1>6 DEF RefuseJoin
  <2>2. j.conn[1] \in Pages /\ Conn(j.conn[1]) = j.conn
    BY <1>6, <1>1, JoinTypes DEF Conn, Live
  <2>3. wire' \in [Pages -> Seq(M)]
    BY <2>1, <2>2, <1>1, <1>4
  <2>4. WireGrows(M)
    <3>1. Unlike(j.conn[1], no)
      BY <2>2, <1>2, <1>4 DEF Unlike
    <3> HIDE DEF no
    <3> QED
      BY <3>1, <2>1, <2>2, <1>1, <1>4 DEF WireGrows
  <2> QED
    BY <2>3, <2>4, <1>2, <1>3, PInvGrow
<1> QED
  BY <1>5, <1>6

\* An event of another kind is sent to some.
LEMMA PInvSentElse ==
  ASSUME NEW M, PInv(M), NEW d \in Docs, NEW c, NEW e \in M,
         ~IsEvent(e), ~IsAnswer(e), wire' = Sent(d, c, e),
         UNCHANGED <<tab, current, ended, joins, members, clients, visits,
                     faults>>
  PROVE PInv(M)'
<1>1. PTypes(M) /\ wire \in [Pages -> Seq(M)]
  BY DEF PInv, PTypes
<1>2. \A q \in Pages : wire'[q] = wire[q] \/ wire'[q] = Append(wire[q], e)
  BY DEF Sent
<1>3. WireGrows(M)
  BY <1>2 DEF WireGrows, Unlike
<1>4. wire' \in [Pages -> Seq(M)]
  BY <1>1 DEF Sent
<1>5. faults' \in 0..MaxFaults /\ faults' >= faults
  BY <1>1, BoundsAreNumbers DEF PTypes, PresenceTypeOK
<1> QED
  BY <1>3, <1>4, <1>5, PInvGrow

\* A request fails.
LEMMA PInvFaults ==
  ASSUME NEW M, PInv(M), faults' \in 0..MaxFaults, faults' >= faults,
         UNCHANGED <<tab, current, ended, joins, members, clients, wire,
                     visits>>
  PROVE PInv(M)'
<1>1. WireGrows(M) /\ wire' \in [Pages -> Seq(M)]
  BY DEF WireGrows, PInv, PTypes
<1> QED
  BY <1>1, PInvGrow

\* The connection is in the room when its answer and the report are sent.
LEMMA PInvJoin ==
  ASSUME NEW M, PInv(M), NEW j \in joins, Join(j)
  PROVE PInv(M)'
<1> DEFINE ok == [is |-> "ok", visit |-> j.visit]
           hello == Event("joined", j.doc, User(j.conn))
<1>1. PTypes(M) /\ Alphabet(M) /\ wire \in [Pages -> Seq(M)]
  BY DEF PInv, PTypes
<1>2. PICK c, d : c = j.conn /\ d = j.doc
  OBVIOUS
<1>3. /\ c \in Conns /\ c[1] \in Pages /\ c[2] \in Nat /\ d \in Docs
      /\ c = <<c[1], c[2]>> /\ j.visit \in Nat
      /\ \A q \in Pages : Conn(q)[1] = q
      /\ \A q \in Pages : Conn(q) = c => q = c[1] /\ Live(c)
  BY <1>1, <1>2, JoinTypes, TabTypes DEF Conn, Live
<1>4. /\ ok \in M /\ IsAnswer(ok) /\ ~IsEvent(ok) /\ ok.is = "ok"
      /\ ok.visit = j.visit
      /\ hello \in M /\ IsEvent(hello) /\ ~IsAnswer(hello)
      /\ hello.is = "joined" /\ hello.doc = d /\ hello.user = User(c)
      /\ hello = Event("joined", d, User(c))
  BY <1>1, <1>2, <1>3, JoinTypes, PagesHaveUsers
  DEF Alphabet, Answers, Events, IsAnswer, IsEvent, Event, User
<1>5. /\ joins' = joins \ {j}
      /\ members' = IF c \in ended THEN members
                    ELSE [members EXCEPT ![d] = @ \cup {c}]
      /\ clients' = [clients EXCEPT ![d] =
           IF Contains(@, c) THEN @ ELSE Append(@, c)]
      /\ UNCHANGED <<tab, current, ended, visits, faults>>
  BY <1>2 DEF Join, FinishJoin
<1>6. ASSUME NEW q \in Pages
      PROVE wire'[q] = IF q = c[1] /\ Live(c) THEN Append(wire[q], ok)
                       ELSE IF Hears(q, d, c) THEN Append(wire[q], hello)
                       ELSE wire[q]
  <2>1. CASE q = c[1] /\ Live(c)
    <3>1. ~Hears(q, d, c)
      BY <2>1, <1>3 DEF Hears, Conn, Live
    <3> QED
      BY <2>1, <3>1, <1>2, <1>3 DEF Join, Sent
  <2>2. CASE ~(q = c[1] /\ Live(c))
    BY <2>2, <1>2, <1>3 DEF Join, Sent, Event
  <2> QED
    BY <2>1, <2>2
<1> HIDE DEF ok, hello
<1>8. ASSUME NEW q \in Pages
      PROVE /\ wire'[q] \in Seq(M) /\ Len(wire[q]) \in Nat
            /\ \A i \in 1..Len(wire[q]) :
                 i \in 1..Len(wire'[q]) /\ wire'[q][i] = wire[q][i]
            /\ \A i \in 1..Len(wire'[q]) :
                 \/ i \in 1..Len(wire[q])
                 \/ /\ i = Len(wire[q]) + 1
                    /\ \/ wire'[q][i] = ok /\ q = c[1] /\ Live(c)
                       \/ wire'[q][i] = hello /\ Hears(q, d, c)
            /\ \A i \in Nat : \A f :
                 Later(wire[q], i, f) => Later(wire'[q], i, f)
            /\ Hears(q, d, c) => \A i \in 0..Len(wire[q]) :
                                   Later(wire'[q], i, hello)
  <2>1. wire[q] \in Seq(M)
    BY <1>1
  <2>2. CASE q = c[1] /\ Live(c)
    <3>1. ~Hears(q, d, c)
      BY <2>2, <1>3 DEF Hears, Conn, Live
    <3>2. wire'[q] = Append(wire[q], ok)
      BY <2>2, <1>6
    <3> QED
      BY <3>1, <3>2, <2>1, <2>2, <1>4, Appended
  <2>3. CASE ~(q = c[1] /\ Live(c)) /\ Hears(q, d, c)
    <3>1. wire'[q] = Append(wire[q], hello)
      BY <2>3, <1>6
    <3> QED
      BY <3>1, <2>1, <2>3, <1>4, Appended
  <2>4. CASE ~(q = c[1] /\ Live(c)) /\ ~Hears(q, d, c)
    <3>1. wire'[q] = wire[q]
      BY <2>4, <1>6
    <3> QED
      BY <3>1, <2>1, <2>4
  <2> QED
    BY <2>2, <2>3, <2>4
<1>9. /\ \A e \in Docs : members[e] \subseteq members'[e]
      /\ c \in members'[d] \cup ended
      /\ Live(c) => c \in members'[d]
      /\ members'[d] \subseteq members[d] \cup {c}
      /\ \A e \in Docs \ {d} : members'[e] = members[e]
                               /\ clients'[e] = clients[e]
      /\ clients[d] \in Seq(Conns)
      /\ clients'[d] = IF Contains(clients[d], c) THEN clients[d]
                       ELSE Append(clients[d], c)
  <2>1. Live(c) => c \notin ended
    BY <1>1, <1>3, TabTypes DEF PInv, ConnectionsCount, Live
  <2> QED
    BY <2>1, <1>1, <1>3, <1>5 DEF PTypes, PresenceTypeOK
<1>7. /\ ToSet(clients'[d]) = ToSet(clients[d]) \cup {c}
      /\ \A e \in Docs : ToSet(clients[e]) \subseteq ToSet(clients'[e])
      /\ \A e \in Docs \ {d} : ToSet(clients'[e]) = ToSet(clients[e])
  <2>1. CASE Contains(clients[d], c)
    <3>1. c \in ToSet(clients[d])
      BY <2>1 DEF Contains, ToSet
    <3> QED
      BY <2>1, <3>1, <1>9
  <2>2. CASE ~Contains(clients[d], c)
    <3>1. PICK s : s = clients[d]
      OBVIOUS
    <3>2. /\ \A i \in 1..Len(s) :
               Append(s, c)[i] = s[i] /\ i \in 1..Len(Append(s, c))
          /\ \A i \in 1..Len(Append(s, c)) :
               \/ i \in 1..Len(s) /\ Append(s, c)[i] = s[i]
               \/ Append(s, c)[i] = c
          /\ Len(s) + 1 \in 1..Len(Append(s, c))
          /\ Append(s, c)[Len(s) + 1] = c
          /\ s \in Seq(Conns) /\ Append(s, c) \in Seq(Conns)
      BY <3>1, <1>3, <1>9, Appended
    <3>3. ToSet(Append(s, c)) \subseteq ToSet(s) \cup {c}
      BY <3>2 DEF ToSet
    <3>4. ToSet(s) \subseteq ToSet(Append(s, c)) /\ c \in ToSet(Append(s, c))
      BY <3>2 DEF ToSet
    <3> QED
      BY <2>2, <3>1, <3>3, <3>4, <1>9
  <2> QED
    BY <2>1, <2>2
<1>10. \A q \in Pages : /\ Conn(q)' = Conn(q) /\ Shows(q)' = Shows(q)
                        /\ Connected(q)' = Connected(q)
  BY <1>5 DEF Conn, Shows, Connected
<1>11. PTypes(M)'
  <2>1. members' \in [Docs -> SUBSET Conns]
    BY <1>1, <1>3, <1>5 DEF PTypes, PresenceTypeOK
  <2>2. clients' \in [Docs -> Seq(Conns)]
    BY <1>1, <1>3, <1>5 DEF PTypes, PresenceTypeOK
  <2>3. wire' \in [Pages -> Seq(M)]
    <3>1. DOMAIN wire' = Pages /\ wire' = [q \in Pages |-> wire'[q]]
      BY <1>1, <1>2, <1>3 DEF Join, Sent
    <3> QED
      BY <3>1, <1>8
  <2> QED
    BY <2>1, <2>2, <2>3, <1>1, <1>5 DEF PTypes, PresenceTypeOK, Alphabet
<1>12. JoinOK(j) /\ JoinsAreSingle /\ c[2] <= current[c[1]]
  BY <1>2 DEF PInv, JoinsAreOfVisits, ConnectionsCount
<1>13. ConnectionsCount'
  <2>1. ASSUME NEW e \in Docs, NEW k \in members'[e]
        PROVE k[2] <= current[k[1]]
    BY <2>1, <1>9, <1>12 DEF PInv, ConnectionsCount
  <2> QED
    BY <2>1, <1>5 DEF PInv, ConnectionsCount
<1>14. JoinsAreSingle' /\ JoinsAreOfVisits'
  BY <1>5 DEF PInv, JoinsAreSingle, JoinsAreOfVisits, JoinOK
<1>15. \A k \in joins' : k.conn[1] = c[1] => k.visit # j.visit
  BY <1>2, <1>5, <1>12 DEF JoinsAreSingle
<1>16. AnswersAreOfVisits'
  <2> SUFFICES ASSUME NEW q \in Pages, NEW i \in 1..Len(wire'[q]),
                      IsAnswer(wire'[q][i])
               PROVE AnswerOK(q, i)'
    BY DEF AnswersAreOfVisits
  <2>1. ASSUME NEW k \in 1..Len(wire'[q]), IsAnswer(wire'[q][k]),
               k \notin 1..Len(wire[q])
        PROVE /\ k = Len(wire[q]) + 1 /\ wire'[q][k] = ok
              /\ q = c[1] /\ Live(c)
    BY <1>4, <1>8, <2>1
  <2>2. \A k \in 1..Len(wire[q]) : IsAnswer(wire[q][k]) =>
          /\ AnswerOK(q, k) /\ wire'[q][k] = wire[q][k]
          /\ q = c[1] => wire[q][k].visit # j.visit
    BY <1>2, <1>8 DEF PInv, AnswersAreOfVisits, AnswerOK
  <2>3. CASE i \in 1..Len(wire[q])
    <3>1. AnswerOK(q, i) /\ wire'[q][i] = wire[q][i]
      BY <2>2, <2>3, <1>8
    <3>2. ASSUME NEW k \in 1..Len(wire'[q]), IsAnswer(wire'[q][k]),
                 wire'[q][k].visit = wire'[q][i].visit
          PROVE k = i
      <4>1. CASE k \in 1..Len(wire[q])
        BY <4>1, <3>1, <3>2, <1>8 DEF AnswerOK
      <4>2. CASE k \notin 1..Len(wire[q])
        BY <4>2, <3>1, <3>2, <2>1, <2>2, <2>3, <1>4
      <4> QED
        BY <4>1, <4>2
    <3>3. Shows(q) => tab[q].doc \in Docs
      BY DEF PInv, TabsAreRight, TabOK
    <3> QED
      BY <3>1, <3>2, <3>3, <1>5, <1>9, <1>10 DEF AnswerOK
  <2>4. CASE i \notin 1..Len(wire[q])
    <3>1. wire'[q][i] = ok /\ q = c[1] /\ Live(c) /\ Conn(q) = c
      BY <2>1, <2>4, <1>3 DEF Conn, Live
    <3>2. ASSUME NEW k \in 1..Len(wire'[q]), IsAnswer(wire'[q][k]),
                 wire'[q][k].visit = wire'[q][i].visit
          PROVE k = i
      <4>1. CASE k \in 1..Len(wire[q])
        BY <4>1, <3>1, <3>2, <2>2, <1>4, <1>8
      <4>2. CASE k \notin 1..Len(wire[q])
        BY <4>2, <3>2, <2>1, <2>4
      <4> QED
        BY <4>1, <4>2
    <3>3. /\ j.visit <= tab[q].visit
          /\ j.visit = tab[q].visit => tab[q].on = None
          /\ j.visit = tab[q].visit /\ Shows(q) => tab[q].doc = d
      BY <3>1, <1>1, <1>2, <1>3, <1>12, TabTypes
      DEF JoinOK, PInv, TabsAreRight, TabOK, Shows
    <3> QED
      BY <3>1, <3>2, <3>3, <1>4, <1>5, <1>9, <1>10, <1>15 DEF AnswerOK
  <2> QED
    BY <2>3, <2>4
<1>17. TabsAreRight'
  BY <1>5, <1>9, <1>10 DEF PInv, TabsAreRight, TabOK
<1>18. MembersVisited'
  <2> SUFFICES ASSUME NEW e \in Docs, NEW k \in ToSet(clients'[e])
               PROVE /\ tab[k[1]].visit >= 1
                     /\ tab[k[1]].visit = 1 =>
                          \A l \in joins' : l.conn[1] # k[1]
    BY <1>5 DEF MembersVisited
  <2>1. CASE k \in ToSet(clients[e])
    BY <2>1, <1>5 DEF PInv, MembersVisited
  <2>2. CASE k = c
    <3>1. j.visit \in 1..tab[c[1]].visit /\ tab[c[1]].visit \in Nat
      BY <1>1, <1>2, <1>3, <1>12, TabTypes DEF JoinOK
    <3>2. ASSUME tab[c[1]].visit = 1, NEW l \in joins', l.conn[1] = c[1]
          PROVE FALSE
      <4>1. l \in joins /\ l # j
        BY <1>5
      <4>2. l.visit \in 1..1
        BY <4>1, <3>2 DEF PInv, JoinsAreOfVisits, JoinOK
      <4> QED
        BY <4>1, <4>2, <3>1, <3>2, <1>15
    <3> QED
      BY <2>2, <3>1, <3>2
  <2> QED
    BY <2>1, <2>2, <1>7
<1>19. RoomsAgree'
  <2> SUFFICES ASSUME NEW e \in Docs PROVE RoomOK(e)'
    BY DEF RoomsAgree
  <2>1. RoomOK(e)
    BY DEF PInv, RoomsAgree
  <2>2. CASE e # d
    BY <2>1, <2>2, <1>5, <1>9 DEF RoomOK
  <2>3. CASE e = d /\ Contains(clients[d], c)
    BY <2>1, <2>3, <1>5, <1>7, <1>9 DEF RoomOK
  <2>4. CASE e = d /\ ~Contains(clients[d], c)
    <3>1. clients'[d] = Append(clients[d], c) /\ Len(clients[d]) \in Nat
      BY <2>4, <1>9
    <3>2. \A i \in 1..Len(clients[d]) : clients[d][i] # c
      BY <2>4 DEF Contains
    <3>4. IsInjective(Append(clients[d], c))
      BY <2>1, <2>4, <3>2, <1>9, <1>3 DEF RoomOK, IsInjective
    <3> QED
      BY <2>1, <2>4, <3>1, <3>4, <1>5, <1>7, <1>9 DEF RoomOK
  <2> QED
    BY <2>2, <2>3, <2>4
<1>20. EventsReachMembers'
  <2> SUFFICES ASSUME NEW q \in Pages, NEW i \in 1..Len(wire'[q]),
                      IsEvent(wire'[q][i])
               PROVE Conn(q) \in members'[wire'[q][i].doc]
    BY <1>10 DEF EventsReachMembers
  <2>1. CASE i \in 1..Len(wire[q])
    <3>1. /\ Conn(q) \in members[wire[q][i].doc] /\ wire[q][i].doc \in Docs
          /\ wire'[q][i] = wire[q][i]
      BY <2>1, <1>1, <1>8, WireTypes DEF PInv, EventsReachMembers
    <3>2. members[wire[q][i].doc] \subseteq members'[wire[q][i].doc]
      BY <3>1, <1>9
    <3> QED
      BY <3>1, <3>2
  <2>2. CASE i \notin 1..Len(wire[q])
    <3>1. wire'[q][i] = hello /\ Hears(q, d, c)
      BY <2>2, <1>4, <1>8
    <3>2. Conn(q) \in members'[d] /\ wire'[q][i].doc = d
      BY <3>1, <1>3, <1>4, <1>9 DEF Hears
    <3> QED
      BY <3>2
  <2> QED
    BY <2>1, <2>2
<1>22. ShownArePresent'
  <2> SUFFICES ASSUME NEW q \in Pages, Connected(q), NEW u \in tab[q].roster
               PROVE \/ Present(tab[q].doc, u)'
                     \/ Later(wire'[q], 0, Event("left", tab[q].doc, u))
    BY <1>5, <1>10 DEF ShownArePresent, Present
  <2>1. tab[q].doc \in Docs
    BY DEF PInv, TabsAreRight, TabOK, Connected
  <2>2. \/ Present(tab[q].doc, u)
        \/ Later(wire[q], 0, Event("left", tab[q].doc, u))
    BY DEF PInv, ShownArePresent
  <2>3. Present(tab[q].doc, u) => Present(tab[q].doc, u)'
    BY <2>1, <1>5, <1>7 DEF Present, User
  <2> QED
    BY <2>2, <2>3, <1>8
<1>23. JoinedArePresent'
  <2> SUFFICES ASSUME NEW q \in Pages, NEW i \in 1..Len(wire'[q]), NEW e,
                      e = wire'[q][i], e.is = "joined"
               PROVE \/ \E k \in ToSet(clients'[e.doc]) : User(k) = e.user
                     \/ Later(wire'[q], i, Event("left", e.doc, e.user))
    BY DEF JoinedArePresent, Present
  <2>1. CASE i \in 1..Len(wire[q])
    <3>1. e = wire[q][i] /\ i \in Nat /\ e.doc \in Docs
      BY <2>1, <1>1, <1>8, WireTypes DEF IsEvent
    <3>2. \/ Present(e.doc, e.user)
          \/ Later(wire[q], i, Event("left", e.doc, e.user))
      BY <2>1, <3>1 DEF PInv, JoinedArePresent
    <3> QED
      BY <3>1, <3>2, <1>7, <1>8 DEF Present, User
  <2>2. CASE i \notin 1..Len(wire[q])
    BY <2>2, <1>4, <1>7, <1>8
  <2> QED
    BY <2>1, <2>2
<1>24. LeaversDropped'
  <2> SUFFICES ASSUME NEW q \in Pages, NEW i \in 1..Len(wire'[q]),
                      wire'[q][i].is = "left"
               PROVE \E r \in Pages : /\ UserOf[r] = wire'[q][i].user
                                      /\ current[r] > 0
    BY <1>5 DEF LeaversDropped
  <2>1. i \in 1..Len(wire[q]) /\ wire'[q][i] = wire[q][i]
    BY <1>4, <1>8
  <2> QED
    BY <2>1 DEF PInv, LeaversDropped
<1>25. NewcomersAreTold'
  <2> SUFFICES ASSUME NEW q \in Pages, NEW r \in Pages, FirstAt(q, r)'
               PROVE NewcomerTold(q, r)'
    BY DEF NewcomersAreTold
  <2>1. /\ Shows(q) /\ tab[q].visit = 1 /\ Single(r)
        /\ Greeting(q, r)' = Greeting(q, r) /\ tab[q].doc \in Docs
        /\ Before(tab[q].doc, Conn(q), Conn(r))'
    BY <1>5, <1>10
    DEF FirstAt, Single, Greeting, Shows, PInv, TabsAreRight, TabOK
  <2>2. PICK a \in DOMAIN clients'[tab[q].doc],
             b \in DOMAIN clients'[tab[q].doc] :
          /\ a < b /\ clients'[tab[q].doc][a] = Conn(q)
          /\ clients'[tab[q].doc][b] = Conn(r)
    BY <2>1, <1>5, <1>10 DEF Before, Conn
  <2>3. CASE FirstAt(q, r)
    <3>1. NewcomerTold(q, r)
      BY <2>3 DEF PInv, NewcomersAreTold
    <3>2. q # c[1]
      BY <2>3, <1>2, FirstHasJoined
    <3>3. ASSUME NEW i \in 1..Len(wire'[q]), IsAnswer(wire'[q][i])
          PROVE Later(wire'[q], i, Greeting(q, r))
      <4>1. i \in 1..Len(wire[q]) /\ wire'[q][i] = wire[q][i] /\ i \in Nat
        BY <3>2, <3>3, <1>4, <1>8
      <4> QED
        BY <4>1, <3>1, <3>3, <1>8 DEF NewcomerTold
    <3>4. tab[q].on = current[q] =>
            UserOf[r] \in tab[q].roster \/ Later(wire'[q], 0, Greeting(q, r))
      BY <3>1, <1>8 DEF NewcomerTold
    <3> QED
      BY <3>3, <3>4, <2>1, <1>5 DEF NewcomerTold
  <2>4. CASE ~FirstAt(q, r)
    <3>1. ~Before(tab[q].doc, Conn(q), Conn(r))
      BY <2>1, <2>4 DEF FirstAt
    <3>2. tab[q].doc = d /\ ~Contains(clients[d], c)
      <4>1. clients'[tab[q].doc] # clients[tab[q].doc]
        BY <3>1, <2>2 DEF Before
      <4> QED
        BY <4>1, <2>1, <1>9
    <3>3. /\ clients'[d] = Append(clients[d], c) /\ Len(clients[d]) \in Nat
          /\ a \in 1..(Len(clients[d]) + 1) /\ b \in 1..(Len(clients[d]) + 1)
      BY <3>2, <2>2, <1>9, <1>3
    <3>4. b = Len(clients[d]) + 1
      <4>1. ASSUME b \in 1..Len(clients[d]) PROVE FALSE
        <5>1. /\ a \in 1..Len(clients[d]) /\ clients[d][a] = Conn(q)
              /\ clients[d][b] = Conn(r)
          BY <4>1, <3>2, <3>3, <2>2, <1>9, <1>3
        <5> QED
          BY <4>1, <5>1, <3>1, <3>2, <2>2, <1>9 DEF Before
      <4> QED
        BY <4>1, <3>3
    <3>5. Conn(r) = c /\ a \in 1..Len(clients[d]) /\ clients[d][a] = Conn(q)
      BY <3>2, <3>3, <3>4, <2>2, <1>9, <1>3
    <3>6. Hears(q, d, c) /\ q # c[1]
      <4>1. Conn(q) # c
        BY <3>2, <3>5 DEF Contains
      <4>2. Conn(q) \in members[d]
        <5>1. Conn(q) \in ToSet(clients[d])
          BY <3>5, <1>9 DEF ToSet
        <5> QED
          BY <5>1, <1>3, ClientsAreIn
      <4>3. q # c[1]
        BY <4>1, <3>5, <1>3
      <4> QED
        BY <4>1, <4>2, <4>3 DEF Hears
    <3>7. hello = Greeting(q, r)
      BY <3>2, <3>5, <1>3, <1>4 DEF Greeting, User
    <3>8. ASSUME NEW i \in 1..Len(wire'[q]), IsAnswer(wire'[q][i])
          PROVE Later(wire'[q], i, hello)
      <4>1. i \in 1..Len(wire[q])
        BY <3>6, <3>8, <1>4, <1>8
      <4> QED
        BY <4>1, <3>6, <1>8
    <3>9. Later(wire'[q], 0, hello)
      BY <3>6, <1>8
    <3> QED
      BY <3>7, <3>8, <3>9, <2>1, <1>5 DEF NewcomerTold
  <2> QED
    BY <2>3, <2>4
<1> QED
  BY <1>11, <1>13, <1>14, <1>16, <1>17, <1>18, <1>19, <1>20, <1>22, <1>23,
     <1>24, <1>25 DEF PInv

\* A set is made into a sequence of its elements.
LEMMA SetToSeqIsOf ==
  ASSUME NEW S, IsFiniteSet(S)
  PROVE SetToSeq(S) \in Seq(S) /\ ToSet(SetToSeq(S)) = S
<1> DEFINE n == Cardinality(S)
<1>1. n \in Nat /\ ExistsBijection(1..n, S) /\ IsFiniteSet(1..n)
      /\ Cardinality(1..n) = n
  BY FS_CardinalityType, FS_Interval
<1>2. \E f \in [1..n -> S] : IsInjective(f)
  BY <1>1 DEF ExistsBijection, Bijection, Injection, IsInjective
<1>3. SetToSeq(S) \in [1..n -> S] /\ IsInjective(SetToSeq(S))
  BY <1>2 DEF SetToSeq
<1>4. PICK f : f = SetToSeq(S)
  OBVIOUS
<1>5. f \in Injection(1..n, S)
  BY <1>3, <1>4 DEF Injection, IsInjective
<1>6. f \in Surjection(1..n, S)
  BY <1>1, <1>5, FS_Injection
<1>7. ToSet(f) = S
  BY <1>3, <1>4, <1>6 DEF Surjection, ToSet
<1> QED
  BY <1>1, <1>3, <1>4, <1>7

\* An element is taken out of a sequence that has it once.
LEMMA RemoveFirstIsWithout ==
  ASSUME NEW S, NEW s \in Seq(S), IsInjective(s), NEW e \in ToSet(s)
  PROVE /\ RemoveFirst(s, e) \in Seq(S)
        /\ ToSet(RemoveFirst(s, e)) = ToSet(s) \ {e}
        /\ IsInjective(RemoveFirst(s, e))
        /\ \A a, b \in DOMAIN RemoveFirst(s, e) : a < b =>
             \E k, l \in DOMAIN s : /\ k < l /\ s[k] = RemoveFirst(s, e)[a]
                                    /\ s[l] = RemoveFirst(s, e)[b]
<1>1. PICK i \in 1..Len(s) : s[i] = e
  BY DEF ToSet
<1>2. \A k \in 1..Len(s) : s[k] = e => k = i
  BY <1>1 DEF IsInjective
<1>3. SelectInSeq(s, LAMBDA v : v = e) = i
  <2>1. {k \in 1..Len(s) : s[k] = e} = {i}
    BY <1>1, <1>2
  <2>2. Min({i}) = i
    BY <1>1 DEF Min
  <2> QED
    BY <2>1, <2>2 DEF SelectInSeq
<1>4. PICK r : r = RemoveFirst(s, e)
  OBVIOUS
<1>5. r = SubSeq(s, 1, i - 1) \o SubSeq(s, i + 1, Len(s))
  BY <1>1, <1>3, <1>4 DEF RemoveFirst, RemoveAt
<1>6. /\ r \in Seq(S) /\ Len(r) = Len(s) - 1
      /\ \A a \in 1..Len(r) : r[a] = IF a < i THEN s[a] ELSE s[a + 1]
  <2>1. PICK x, y : x = SubSeq(s, 1, i - 1) /\ y = SubSeq(s, i + 1, Len(s))
    OBVIOUS
  <2>2. /\ x \in Seq(S) /\ Len(x) = i - 1
        /\ \A a \in 1..Len(x) : x[a] = s[a]
    BY <1>1, <2>1
  <2>3. /\ y \in Seq(S) /\ Len(y) = Len(s) - i
        /\ \A a \in 1..Len(y) : y[a] = s[i + a]
    BY <1>1, <2>1
  <2>4. /\ r = x \o y /\ r \in Seq(S) /\ Len(r) = (i - 1) + (Len(s) - i)
        /\ Len(s) \in Nat /\ i \in Nat
        /\ \A a \in 1..Len(r) :
             \/ a \in 1..Len(x) /\ r[a] = x[a]
             \/ /\ a > Len(x) /\ a - Len(x) \in 1..Len(y)
                /\ r[a] = y[a - Len(x)]
    <3>1. r = x \o y
      BY <1>5, <2>1
    <3>2. x \in Seq(S) /\ y \in Seq(S)
      BY <2>2, <2>3
    <3>3. /\ x \o y \in Seq(S) /\ Len(x \o y) = Len(x) + Len(y)
          /\ \A a \in 1..Len(x \o y) :
               \/ a \in 1..Len(x) /\ (x \o y)[a] = x[a]
               \/ /\ a > Len(x) /\ a - Len(x) \in 1..Len(y)
                  /\ (x \o y)[a] = y[a - Len(x)]
      BY <3>2, JoinedSeqs
    <3>4. Len(s) \in Nat /\ i \in Nat
      BY <1>1
    <3> QED
      BY <3>1, <3>3, <3>4, <2>2, <2>3
  <2>5. Len(r) = Len(s) - 1
    BY <2>4
  <2>6. ASSUME NEW a \in 1..Len(r)
        PROVE r[a] = IF a < i THEN s[a] ELSE s[a + 1]
    <3>1. \/ a \in 1..Len(x) /\ r[a] = x[a]
          \/ /\ a > Len(x) /\ a - Len(x) \in 1..Len(y)
             /\ r[a] = y[a - Len(x)]
      BY <2>4
    <3>2. CASE a < i
      BY <3>1, <3>2, <2>2, <2>4
    <3>3. CASE a >= i
      <4>1. a - (i - 1) \in 1..Len(y) /\ r[a] = y[a - (i - 1)]
        BY <3>1, <3>3, <2>2, <2>4
      <4>2. i + (a - (i - 1)) = a + 1
        BY <2>4
      <4> QED
        BY <4>1, <4>2, <3>3, <2>3, <2>4
    <3> QED
      BY <3>2, <3>3, <2>4
  <2> QED
    BY <2>4, <2>5, <2>6
<1>7. ToSet(r) = ToSet(s) \ {e}
  <2>1. ASSUME NEW a \in 1..Len(r) PROVE r[a] \in ToSet(s) \ {e}
    <3>1. PICK k \in 1..Len(s) : r[a] = s[k] /\ k # i
      <4>1. CASE a < i
        BY <4>1, <1>1, <1>6
      <4>2. CASE a >= i
        <5>1. a + 1 \in 1..Len(s) /\ a + 1 # i /\ r[a] = s[a + 1]
          BY <4>2, <1>1, <1>6
        <5> QED
          BY <5>1
      <4> QED
        BY <4>1, <4>2, <1>1, <1>6
    <3> QED
      BY <3>1, <1>2 DEF ToSet
  <2>2. ASSUME NEW k \in 1..Len(s), s[k] # e PROVE s[k] \in ToSet(r)
    <3>1. CASE k < i
      <4>1. k \in 1..Len(r) /\ r[k] = s[k]
        BY <3>1, <1>1, <1>6
      <4> QED
        BY <4>1 DEF ToSet
    <3>2. CASE k > i
      <4>1. k - 1 \in 1..Len(r) /\ r[k - 1] = s[k]
        BY <3>2, <1>1, <1>6
      <4> QED
        BY <4>1, <1>6 DEF ToSet
    <3> QED
      BY <3>1, <3>2, <2>2, <1>1
  <2>3. \A x : x \in ToSet(r) <=> \E k \in 1..Len(r) : r[k] = x
    BY <1>6 DEF ToSet
  <2>4. \A x : x \in ToSet(s) <=> \E k \in 1..Len(s) : s[k] = x
    BY DEF ToSet
  <2>5. \A x \in ToSet(r) : x \in ToSet(s) \ {e}
    BY <2>1, <2>3
  <2>6. \A x \in ToSet(s) \ {e} : x \in ToSet(r)
    BY <2>2, <2>4
  <2> QED
    BY <2>5, <2>6
<1>8. IsInjective(r)
  BY <1>1, <1>6 DEF IsInjective
<1>9. ASSUME NEW a \in DOMAIN r, NEW b \in DOMAIN r, a < b
      PROVE \E k, l \in DOMAIN s : k < l /\ s[k] = r[a] /\ s[l] = r[b]
  <2> DEFINE at(x) == IF x < i THEN x ELSE x + 1
  <2>1. /\ at(a) \in 1..Len(s) /\ at(b) \in 1..Len(s) /\ at(a) < at(b)
        /\ s[at(a)] = r[a] /\ s[at(b)] = r[b]
    BY <1>1, <1>6, <1>9
  <2> QED
    BY <2>1
<1> QED
  BY <1>4, <1>6, <1>7, <1>8, <1>9

\* The connection leaves its rooms, and whoever hears of it is told.
LEMMA PInvDisconnecting ==
  ASSUME NEW M, PInv(M), NEW c \in Conns, Disconnecting(c)
  PROVE PInv(M)'
<1> DEFINE ds == {d \in Docs : c \in members[d]}
           bye(d) == Event("left", d, User(c))
           told(q) == {bye(d) : d \in {d \in ds : Hears(q, d, c)}}
<1>1. PTypes(M) /\ Alphabet(M) /\ wire \in [Pages -> Seq(M)]
  BY DEF PInv, PTypes
<1>2. /\ c[1] \in Pages /\ c[2] \in Nat /\ current[c[1]] > 0
      /\ \A q \in Pages : Conn(q) # c /\ Conn(q)[1] = q
  <2>1. c[1] \in Pages /\ c[2] \in Nat /\ c = <<c[1], c[2]>>
    BY BoundsAreNumbers DEF Conns
  <2>2. /\ current[c[1]] \in Nat /\ current[c[1]] # c[2]
        /\ c[2] <= current[c[1]]
    BY <2>1, <1>1, TabTypes DEF Disconnecting, Live
  <2>3. \A q \in Pages : Conn(q)[1] = q /\ Conn(q)[2] = current[q]
    BY <1>1, TabTypes
  <2> QED
    BY <2>1, <2>2, <2>3
<1>3. /\ members' = [d \in Docs |-> members[d] \ {c}]
      /\ clients' = [d \in Docs |-> IF d \in ds THEN RemoveFirst(clients[d], c)
                                    ELSE clients[d]]
      /\ ended' = ended \cup {c}
      /\ UNCHANGED <<tab, current, joins, visits, faults>>
  BY DEF Disconnecting
<1>4. \A q \in Pages : wire'[q] = wire[q] \o SetToSeq(told(q))
  BY DEF Disconnecting, Departed, Event
<1>5. ASSUME NEW q \in Pages
      PROVE /\ SetToSeq(told(q)) \in Seq(M)
            /\ ToSet(SetToSeq(told(q))) = told(q)
  <2> DEFINE D == {d \in ds : Hears(q, d, c)}
             f == [d \in D |-> bye(d)]
  <2>1. IsFiniteSet(D)
    BY DocsAreFinite, FS_Subset
  <2>2. f \in Surjection(D, told(q))
    BY DEF Surjection
  <2>3. IsFiniteSet(told(q))
    BY <2>1, <2>2, FS_Surjection
  <2>4. ASSUME NEW d \in D PROVE bye(d) \in M
    BY <1>1, <1>2, PagesHaveUsers DEF Alphabet, Events, Event, User
  <2>5. told(q) \subseteq M
    BY <2>4
  <2> HIDE DEF told
  <2>6. SetToSeq(told(q)) \in Seq(told(q)) /\ ToSet(SetToSeq(told(q))) = told(q)
    BY <2>3, SetToSeqIsOf
  <2>7. \A S, T, s : S \subseteq T /\ s \in Seq(S) => s \in Seq(T)
    OBVIOUS
  <2> QED
    BY <2>5, <2>6, <2>7
<1>6. ASSUME NEW q \in Pages
      PROVE /\ wire'[q] \in Seq(M) /\ Len(wire[q]) \in Nat
            /\ \A i \in 1..Len(wire[q]) :
                 i \in 1..Len(wire'[q]) /\ wire'[q][i] = wire[q][i]
            /\ \A i \in 1..Len(wire'[q]) :
                 \/ i \in 1..Len(wire[q])
                 \/ i > Len(wire[q]) /\ wire'[q][i] \in told(q)
            /\ \A i \in Nat : \A e :
                 Later(wire[q], i, e) => Later(wire'[q], i, e)
            /\ \A i \in 0..Len(wire[q]), e \in told(q) : Later(wire'[q], i, e)
  <2> HIDE DEF told
  <2>1. PICK s, t : s = wire[q] /\ t = SetToSeq(told(q))
    OBVIOUS
  <2>2. s \in Seq(M) /\ t \in Seq(M) /\ wire'[q] = s \o t /\ ToSet(t) = told(q)
    BY <2>1, <1>1, <1>4, <1>5
  <2>3. /\ s \o t \in Seq(M) /\ Len(s) \in Nat
        /\ \A i \in 1..Len(s) : (s \o t)[i] = s[i] /\ i \in 1..Len(s \o t)
        /\ \A i \in 1..Len(s \o t) :
             \/ i \in 1..Len(s)
             \/ /\ i > Len(s) /\ i - Len(s) \in 1..Len(t)
                /\ (s \o t)[i] = t[i - Len(s)]
    BY <2>2, JoinedSeqs
  <2>4. \A i \in Nat : \A e : Later(s, i, e) => Later(s \o t, i, e)
    BY <2>2, LaterInJoined
  <2>5. ASSUME NEW i \in 0..Len(s), NEW e \in told(q)
        PROVE Later(s \o t, i, e)
    <3>1. \E k \in 1..Len(t) : t[k] = e
      BY <2>2 DEF ToSet
    <3> QED
      BY <3>1, <2>2, <2>3, LaterInJoined
  <2>6. \A i \in 1..Len(t) : t[i] \in told(q)
    BY <2>2 DEF ToSet
  <2> QED
    BY <2>1, <2>2, <2>3, <2>4, <2>5, <2>6
<1>7. ASSUME NEW q \in Pages, NEW e \in told(q)
      PROVE /\ e.is = "left" /\ IsEvent(e) /\ ~IsAnswer(e)
            /\ e.doc \in Docs /\ e.user = User(c)
            /\ Conn(q) \in members[e.doc] /\ Conn(q) \in members'[e.doc]
  BY <1>2, <1>3 DEF Event, IsEvent, IsAnswer, Hears
<1>8. ASSUME NEW q \in Pages, NEW d \in Docs, c \in members[d],
             Conn(q) \in members[d]
      PROVE bye(d) \in told(q)
  BY <1>2, <1>8 DEF Hears
<1> HIDE DEF told
<1>9. /\ \A d \in Docs : /\ members'[d] = members[d] \ {c}
                         /\ members'[d] \subseteq members[d]
      /\ \A d \in Docs, q \in Pages :
           Conn(q) \in members[d] <=> Conn(q) \in members'[d]
      /\ \A q \in Pages : /\ Conn(q)' = Conn(q) /\ Shows(q)' = Shows(q)
                          /\ Connected(q)' = Connected(q)
  BY <1>2, <1>3 DEF Conn, Shows, Connected
<1>10. ASSUME NEW d \in Docs
       PROVE /\ clients'[d] \in Seq(Conns) /\ RoomOK(d)'
             /\ ToSet(clients[d]) \ {c} \subseteq ToSet(clients'[d])
             /\ ToSet(clients'[d]) \subseteq ToSet(clients[d])
             /\ c \notin members[d] => clients'[d] = clients[d]
             /\ \A a, b \in DOMAIN clients'[d] : a < b =>
                  \E k, l \in DOMAIN clients[d] :
                    /\ k < l /\ clients[d][k] = clients'[d][a]
                    /\ clients[d][l] = clients'[d][b]
  <2>1. RoomOK(d) /\ clients[d] \in Seq(Conns)
    BY <1>1 DEF PInv, RoomsAgree, PTypes, PresenceTypeOK
  <2>2. CASE c \in members[d]
    <3>1. clients'[d] = RemoveFirst(clients[d], c)
      BY <2>2, <1>3
    <3>2. c \in ToSet(clients[d]) /\ IsInjective(clients[d])
      BY <2>1, <2>2 DEF RoomOK
    <3>3. PICK s, r : s = clients[d] /\ r = RemoveFirst(s, c)
      OBVIOUS
    <3>4. s \in Seq(Conns) /\ IsInjective(s) /\ c \in ToSet(s)
      BY <2>1, <3>2, <3>3
    <3>5. /\ r \in Seq(Conns) /\ ToSet(r) = ToSet(s) \ {c} /\ IsInjective(r)
          /\ \A a, b \in DOMAIN r : a < b =>
               \E k, l \in DOMAIN s : k < l /\ s[k] = r[a] /\ s[l] = r[b]
      BY <3>3, <3>4, RemoveFirstIsWithout
    <3>6. clients'[d] = r /\ members'[d] = members[d] \ {c}
      BY <3>1, <3>3, <1>9
    <3>7. /\ members[d] \ {c} \subseteq ToSet(r)
          /\ ToSet(r) \subseteq (members[d] \ {c}) \cup ended'
      BY <3>3, <3>5, <2>1, <1>3 DEF RoomOK
    <3> QED
      BY <2>2, <3>3, <3>5, <3>6, <3>7 DEF RoomOK
  <2>3. CASE c \notin members[d]
    <3>1. clients'[d] = clients[d] /\ members'[d] = members[d]
      BY <2>3, <1>3
    <3> QED
      BY <3>1, <2>1, <1>3 DEF RoomOK
  <2> QED
    BY <2>2, <2>3
<1>11. PTypes(M)'
  <2>1. members' \in [Docs -> SUBSET Conns] /\ ended' \subseteq Conns
    BY <1>1, <1>3 DEF PTypes, PresenceTypeOK
  <2>2. clients' \in [Docs -> Seq(Conns)]
    BY <1>3, <1>10
  <2>3. wire' \in [Pages -> Seq(M)]
    <3>1. wire' = [q \in Pages |-> wire'[q]]
      BY DEF Disconnecting, Departed
    <3> QED
      BY <3>1, <1>6
  <2> QED
    BY <2>1, <2>2, <2>3, <1>1, <1>3 DEF PTypes, PresenceTypeOK, Alphabet
<1>12. ConnectionsCount'
  <2>1. c[2] < current[c[1]]
    BY <1>1, <1>2, TabTypes DEF Disconnecting, Live
  <2> QED
    BY <2>1, <1>3, <1>9 DEF PInv, ConnectionsCount
<1>13. JoinsAreSingle' /\ JoinsAreOfVisits' /\ RoomsAgree'
  BY <1>3, <1>10
  DEF PInv, JoinsAreSingle, JoinsAreOfVisits, JoinOK, RoomsAgree
<1>14. ASSUME NEW q \in Pages, NEW i \in 1..Len(wire'[q]),
              wire'[q][i].is # "left"
       PROVE i \in 1..Len(wire[q]) /\ wire'[q][i] = wire[q][i] /\ i \in Nat
  BY <1>6, <1>7, <1>14
<1>15. AnswersAreOfVisits'
  <2> SUFFICES ASSUME NEW q \in Pages, NEW i \in 1..Len(wire'[q]),
                      IsAnswer(wire'[q][i])
               PROVE AnswerOK(q, i)'
    BY DEF AnswersAreOfVisits
  <2>1. i \in 1..Len(wire[q]) /\ wire'[q][i] = wire[q][i] /\ AnswerOK(q, i)
    BY <1>14 DEF PInv, AnswersAreOfVisits, IsAnswer
  <2>2. \A k \in 1..Len(wire'[q]) : IsAnswer(wire'[q][k]) =>
          k \in 1..Len(wire[q]) /\ wire'[q][k] = wire[q][k]
    BY <1>14 DEF IsAnswer
  <2>3. Shows(q) => tab[q].doc \in Docs
    BY DEF PInv, TabsAreRight, TabOK
  <2> QED
    BY <2>1, <2>2, <2>3, <1>3, <1>9 DEF AnswerOK
<1>16. TabsAreRight'
  BY <1>3, <1>9 DEF PInv, TabsAreRight, TabOK, Connected
<1>17. MembersVisited'
  <2>1. \A d \in Docs : ToSet(clients'[d]) \subseteq ToSet(clients[d])
    BY <1>10
  <2>2. MembersVisited
    BY DEF PInv
  <2> QED
    BY <2>1, <2>2, <1>3 DEF MembersVisited
<1>18. EventsReachMembers'
  <2> SUFFICES ASSUME NEW q \in Pages, NEW i \in 1..Len(wire'[q]),
                      IsEvent(wire'[q][i])
               PROVE Conn(q) \in members'[wire'[q][i].doc]
    BY <1>9 DEF EventsReachMembers
  <2>1. CASE i \in 1..Len(wire[q])
    <3>1. /\ Conn(q) \in members[wire[q][i].doc] /\ wire[q][i].doc \in Docs
          /\ wire'[q][i] = wire[q][i]
      BY <2>1, <1>1, <1>6, WireTypes DEF PInv, EventsReachMembers
    <3> QED
      BY <3>1, <1>9
  <2>2. CASE i \notin 1..Len(wire[q])
    BY <2>2, <1>6, <1>7
  <2> QED
    BY <2>1, <2>2
<1>19. ASSUME NEW q \in Pages, NEW d \in Docs, NEW u,
              NEW i \in 0..Len(wire[q]), Conn(q) \in members[d],
              Present(d, u) \/ Later(wire[q], i, Event("left", d, u))
       PROVE \/ Present(d, u)'
             \/ Later(wire'[q], i, Event("left", d, u))
  <2>1. CASE Later(wire[q], i, Event("left", d, u))
    BY <2>1, <1>6
  <2>2. CASE Present(d, u)
    <3>1. PICK k \in ToSet(clients[d]) : User(k) = u
      BY <2>2 DEF Present
    <3>4. CASE c \notin members[d]
      BY <3>1, <3>4, <1>10 DEF Present, User
    <3>2. CASE k = c /\ c \in members[d]
      <4>1. bye(d) \in told(q) /\ bye(d) = Event("left", d, u)
        BY <3>1, <3>2, <1>8, <1>19
      <4> QED
        BY <4>1, <1>6
    <3>3. CASE k # c
      <4>1. k \in ToSet(clients'[d])
        BY <3>1, <3>3, <1>10
      <4> QED
        BY <4>1, <3>1 DEF Present, User
    <3> QED
      BY <3>2, <3>3, <3>4
  <2> QED
    BY <2>1, <2>2, <1>19
<1>20. ShownArePresent'
  <2> SUFFICES ASSUME NEW q \in Pages, Connected(q), NEW u \in tab[q].roster
               PROVE \/ Present(tab[q].doc, u)'
                     \/ Later(wire'[q], 0, Event("left", tab[q].doc, u))
    BY <1>3, <1>9 DEF ShownArePresent, Present
  <2>1. tab[q].doc \in Docs /\ Conn(q) \in members[tab[q].doc]
    BY DEF PInv, TabsAreRight, TabOK, Connected
  <2>2. \/ Present(tab[q].doc, u)
        \/ Later(wire[q], 0, Event("left", tab[q].doc, u))
    BY DEF PInv, ShownArePresent
  <2>3. 0 \in 0..Len(wire[q])
    BY <1>6
  <2>4. PICK d : d = tab[q].doc
    OBVIOUS
  <2>5. Present(d, u)' \/ Later(wire'[q], 0, Event("left", d, u))
    BY <2>1, <2>2, <2>3, <2>4, <1>19
  <2> QED
    BY <2>4, <2>5, <1>3 DEF Present
<1>21. JoinedArePresent'
  <2> SUFFICES ASSUME NEW q \in Pages, NEW i \in 1..Len(wire'[q]), NEW e,
                      e = wire'[q][i], e.is = "joined"
               PROVE \/ \E k \in ToSet(clients'[e.doc]) : User(k) = e.user
                     \/ Later(wire'[q], i, Event("left", e.doc, e.user))
    BY DEF JoinedArePresent, Present
  <2>1. i \in 1..Len(wire[q]) /\ e = wire[q][i] /\ i \in 0..Len(wire[q])
    BY <1>6, <1>14
  <2>2. \/ Present(e.doc, e.user)
        \/ Later(wire[q], i, Event("left", e.doc, e.user))
    BY <2>1 DEF PInv, JoinedArePresent
  <2>3. e.doc \in Docs /\ Conn(q) \in members[e.doc]
    BY <2>1, <1>1, WireTypes DEF PInv, EventsReachMembers, IsEvent
  <2>4. \/ Present(e.doc, e.user)'
        \/ Later(wire'[q], i, Event("left", e.doc, e.user))
    BY <2>1, <2>2, <2>3, <1>19
  <2> QED
    BY <2>4 DEF Present
<1>22. LeaversDropped'
  <2> SUFFICES ASSUME NEW q \in Pages, NEW i \in 1..Len(wire'[q]),
                      wire'[q][i].is = "left"
               PROVE \E r \in Pages : /\ UserOf[r] = wire'[q][i].user
                                      /\ current[r] > 0
    BY <1>3 DEF LeaversDropped
  <2>1. CASE i \in 1..Len(wire[q])
    BY <2>1, <1>6 DEF PInv, LeaversDropped
  <2>2. CASE i \notin 1..Len(wire[q])
    <3>1. wire'[q][i].user = UserOf[c[1]]
      BY <2>2, <1>6, <1>7 DEF User
    <3> QED
      BY <3>1, <1>2
  <2> QED
    BY <2>1, <2>2
<1>23. NewcomersAreTold'
  <2> SUFFICES ASSUME NEW q \in Pages, NEW r \in Pages, FirstAt(q, r)'
               PROVE NewcomerTold(q, r)'
    BY DEF NewcomersAreTold
  <2>1. tab[q].doc \in Docs
    BY <1>3 DEF FirstAt, Shows, PInv, TabsAreRight, TabOK
  <2>2. Before(tab[q].doc, Conn(q), Conn(r))
    <3>1. PICK d : d = tab[q].doc
      OBVIOUS
    <3>2. PICK a \in DOMAIN clients'[d], b \in DOMAIN clients'[d] :
            a < b /\ clients'[d][a] = Conn(q) /\ clients'[d][b] = Conn(r)
      BY <3>1, <1>3, <1>9 DEF FirstAt, Before
    <3>3. \E k, l \in DOMAIN clients[d] :
             k < l /\ clients[d][k] = Conn(q) /\ clients[d][l] = Conn(r)
      BY <3>1, <3>2, <2>1, <1>10
    <3> QED
      BY <3>1, <3>3 DEF Before
  <2>3. FirstAt(q, r) /\ Greeting(q, r)' = Greeting(q, r)
    BY <2>2, <1>3, <1>9 DEF FirstAt, Single, Greeting
  <2>4. NewcomerTold(q, r)
    BY <2>3 DEF PInv, NewcomersAreTold
  <2>5. ASSUME NEW i \in 1..Len(wire'[q]), IsAnswer(wire'[q][i])
        PROVE Later(wire'[q], i, Greeting(q, r))
    <3>1. i \in 1..Len(wire[q]) /\ wire'[q][i] = wire[q][i] /\ i \in Nat
      BY <2>5, <1>14 DEF IsAnswer
    <3> QED
      BY <3>1, <2>4, <2>5, <1>6 DEF NewcomerTold
  <2>6. tab[q].on = current[q] =>
          UserOf[r] \in tab[q].roster \/ Later(wire'[q], 0, Greeting(q, r))
    BY <2>4, <1>6 DEF NewcomerTold
  <2> QED
    BY <2>3, <2>5, <2>6, <1>3 DEF NewcomerTold
<1> QED
  BY <1>11, <1>12, <1>13, <1>15, <1>16, <1>17, <1>18, <1>20, <1>21, <1>22,
     <1>23 DEF PInv

-----------------------------------------------------------------------------
LEMMA PInvNext ==
  ASSUME NEW M, PInv(M), PresenceNext PROVE PInv(M)'
<1>1. ASSUME NEW p \in Pages, NEW d \in Docs, Visit(p, d) PROVE PInv(M)'
  BY <1>1, PInvVisit
<1>2. ASSUME NEW p \in Pages, Leave(p) PROVE PInv(M)'
  BY <1>2, PInvLeave
<1>3. ASSUME NEW p \in Pages, Drop(p) PROVE PInv(M)'
  BY <1>3, PInvDrop
<1>4. ASSUME NEW p \in Pages, ReceiveAnswer(p) PROVE PInv(M)'
  BY <1>4, PInvReceiveAnswer
<1>5. ASSUME NEW p \in Pages, ReceivePresence(p) PROVE PInv(M)'
  BY <1>5, PInvReceivePresence
<1>6. ASSUME NEW j \in joins, Join(j) PROVE PInv(M)'
  BY <1>6, PInvJoin
<1>7. ASSUME NEW j \in joins, RefuseJoin(j) PROVE PInv(M)'
  BY <1>7, PInvRefuseJoin
<1>8. ASSUME NEW c \in Conns, Disconnecting(c) PROVE PInv(M)'
  BY <1>8, PInvDisconnecting
<1> QED
  BY <1>1, <1>2, <1>3, <1>4, <1>5, <1>6, <1>7, <1>8 DEF PresenceNext

LEMMA PInvIdle ==
  ASSUME NEW M, PInv(M), UNCHANGED presenceVars PROVE PInv(M)'
<1>1. /\ UNCHANGED <<tab, current, ended, joins, members, clients, wire,
                     visits>>
      /\ faults' = faults
  BY DEF presenceVars
<1>2. faults' \in 0..MaxFaults /\ faults' >= faults
  BY <1>1, BoundsAreNumbers DEF PInv, PTypes, PresenceTypeOK
<1> QED
  BY <1>1, <1>2, PInvFaults

\* What the roster shows follows from the invariant.
LEMMA ListenersKnow ==
  ASSUME NEW M, PInv(M) PROVE OnlyClientsAreShown /\ NewcomersAreShown
<1>1. ASSUME NEW p \in Pages, Listening(p), NEW e
      PROVE ~Later(wire[p], 0, e)
  BY <1>1 DEF Listening, Later
<1>2. OnlyClientsAreShown
  BY <1>1 DEF OnlyClientsAreShown, PInv, ShownArePresent, Connected, Shows,
              Listening, Present
<1>3. NewcomersAreShown
  BY <1>1 DEF NewcomersAreShown, PInv, NewcomersAreTold, NewcomerTold, FirstAt,
              Shows, Listening
<1> QED
  BY <1>2, <1>3
=============================================================================
