------------------------------ MODULE Presence ------------------------------
(***************************************************************************)
(* Who is where: the Socket.IO rooms that sockets/collab.js puts           *)
(* connections into, the joins and leaves it announces, and the roster an  *)
(* editor page keeps of them (EditorPage.jsx, SocketIOProvider.js).        *)
(*                                                                         *)
(* A page is a browser tab.  It has one connection at a time, the          *)
(* singleton of lib/socket.js, which outlives the documents the tab shows  *)
(* one after the other; a connection that is lost is replaced, and the     *)
(* server learns of the loss some time later.                              *)
(***************************************************************************)
EXTENDS Naturals, Sequences, FiniteSets, SequencesExt

CONSTANTS
  Docs, Pages, Users, None,
  UserOf,    \* the user of each page
  MaxVisits, \* bound: documents opened
  MaxFaults  \* bound: connections lost and requests that fail

ASSUME PagesHaveUsers == UserOf \in [Pages -> Users]
ASSUME NoneIsNeither == None \notin Docs \cup (0..MaxFaults)
ASSUME DocsAreFinite == IsFiniteSet(Docs)
ASSUME BoundsAreNumbers == {MaxVisits, MaxFaults} \subseteq Nat

VARIABLES
  tab,     \* tab[p]: what the tab shows
  current, \* current[p]: the number of its connection
  ended,   \* connections whose "disconnecting" event has been handled
  joins,   \* doc:join handlers that await the permission or the room
  members, \* members[d]: the Socket.IO room
  clients, \* clients[d]: room.clients, in the order of insertion
  wire,    \* wire[p]: events on their way to the tab
  visits, faults

presenceVars ==
  <<tab, current, ended, joins, members, clients, wire, visits, faults>>

Conns == Pages \X (0..MaxFaults)
User(c) == UserOf[c[1]]
Live(c) == current[c[1]] = c[2]
Conn(p) == <<p, current[p]>>

\* visit: which of the tab's visits this is, so that the answer to the join
\* of an earlier one finds its component gone.  on: the connection of the
\* provider, None before the answer, when no event is listened to.
Away(n) == [at |-> "away", doc |-> None, visit |-> n, on |-> None,
            roster |-> {}]

Events == [is : {"joined", "left"}, doc : Docs, user : Users]
Answers == [is : {"ok", "refused"}, visit : 0..MaxVisits]

PresenceTypeOK ==
  /\ tab \in [Pages ->
       [at : {"away", "open"}, doc : Docs \cup {None},
        visit : 0..MaxVisits, on : (0..MaxFaults) \cup {None},
        roster : SUBSET Users]]
  /\ current \in [Pages -> 0..MaxFaults]
  /\ ended \subseteq Conns
  /\ joins \subseteq [conn : Conns, doc : Docs, visit : 0..MaxVisits]
  /\ members \in [Docs -> SUBSET Conns]
  /\ clients \in [Docs -> Seq(Conns)]
  /\ visits \in 0..MaxVisits /\ faults \in 0..MaxFaults

PresenceInit ==
  /\ tab = [p \in Pages |-> Away(0)]
  /\ current = [p \in Pages |-> 0]
  /\ ended = {}
  /\ joins = {}
  /\ members = [d \in Docs |-> {}]
  /\ clients = [d \in Docs |-> <<>>]
  /\ wire = [p \in Pages |-> <<>>]
  /\ visits = 0
  /\ faults = 0

-----------------------------------------------------------------------------
\* socket.to(d).emit by c: to every other connection in the room that is
\* still there.
Hears(p, d, c) == Conn(p) \in members[d] \ {c}
Sent(d, c, event) ==
  [p \in Pages |-> IF Hears(p, d, c) THEN Append(wire[p], event)
                                      ELSE wire[p]]

-----------------------------------------------------------------------------
(* The tab.                                                                *)

\* The effect of EditorPage: doc:join is sent.
Visit(p, d) ==
  /\ tab[p].at = "away"
  /\ visits < MaxVisits /\ visits' = visits + 1
  /\ tab' = [tab EXCEPT ![p] = [at |-> "open", doc |-> d,
                                  visit |-> @.visit + 1, on |-> None,
                                  roster |-> {}]]
  /\ joins' = joins \cup {[conn |-> Conn(p), doc |-> d,
                           visit |-> tab'[p].visit]}
  /\ UNCHANGED <<current, ended, members, clients, wire, faults>>

\* Its cleanup, on the way to another page: listeners are removed and the
\* roster is emptied; the server is not told.
Leave(p) ==
  /\ tab[p].at = "open"
  /\ tab' = [tab EXCEPT ![p] = Away(@.visit)]
  /\ UNCHANGED <<current, ended, joins, members, clients, wire, visits, faults>>

\* The connection is lost with all it carries; the client makes another one,
\* and does not join again.  A tab that is closed is one that does nothing
\* from here on.  One that has asked for nothing is replaced unnoticed.
Drop(p) ==
  /\ \/ \E j \in joins : j.conn = Conn(p)
     \/ \E d \in Docs : Conn(p) \in members[d]
  /\ faults < MaxFaults /\ faults' = faults + 1
  /\ current' = [current EXCEPT ![p] = @ + 1]
  /\ wire' = [wire EXCEPT ![p] = <<>>]
  /\ UNCHANGED <<tab, ended, joins, members, clients, visits>>

\* The next event for p is about the document shown, and listened to.
Heard(p, event) == tab[p].on # None /\ event.doc = tab[p].doc
NextEvent(p, is) == wire[p] # <<>> /\ Head(wire[p]).is \in is

\* The answer to doc:join: the provider is made and starts to listen.
ReceiveAnswer(p) ==
  /\ NextEvent(p, {"ok", "refused"})
  /\ wire' = [wire EXCEPT ![p] = Tail(@)]
  /\ tab' = IF /\ Head(wire[p]).is = "ok"
               /\ Head(wire[p]).visit = tab[p].visit
               /\ tab[p].at = "open"
            THEN [tab EXCEPT ![p].on = current[p]]
            ELSE tab
  /\ UNCHANGED <<current, ended, joins, members, clients, visits, faults>>

\* onPresence.
ReceivePresence(p) ==
  LET event == Head(wire[p])
  IN /\ NextEvent(p, {"joined", "left"})
     /\ wire' = [wire EXCEPT ![p] = Tail(@)]
     /\ tab' = IF ~Heard(p, event) THEN tab
               ELSE [tab EXCEPT ![p].roster =
                       IF event.is = "joined" THEN @ \cup {event.user}
                       ELSE @ \ {event.user}]
     /\ UNCHANGED <<current, ended, joins, members, clients, visits, faults>>

-----------------------------------------------------------------------------
(* The server.                                                             *)

\* Mutant: the answer is sent before the connection is in the room.
FinishJoinBare(j) ==
  /\ clients' = [clients EXCEPT ![j.doc] =
       IF Contains(@, j.conn) THEN @ ELSE Append(@, j.conn)]
  /\ UNCHANGED members

\* room.clients.add, which takes any id, and socket.join, which Socket.IO
\* makes a no-op when it has cleaned up after a connection that ended.
FinishJoin(j) ==
  /\ clients' = [clients EXCEPT ![j.doc] =
       IF Contains(@, j.conn) THEN @ ELSE Append(@, j.conn)]
  /\ members' = IF j.conn \in ended THEN members
                ELSE [members EXCEPT ![j.doc] = @ \cup {j.conn}]

\* The end of the doc:join handler, in one tick; the others are told also of
\* a connection that has ended meanwhile.
Join(j) ==
  LET c == j.conn
      told == Sent(j.doc, c, [is |-> "joined", doc |-> j.doc,
                              user |-> User(c)])
  IN /\ j \in joins /\ joins' = joins \ {j}
     /\ FinishJoin(j)
     /\ wire' = IF Live(c) THEN [told EXCEPT ![c[1]] =
                       Append(@, [is |-> "ok", visit |-> j.visit])]
                ELSE told
     /\ UNCHANGED <<tab, current, ended, visits, faults>>

\* A call of the handler rejects, or the permission is missing.
RefuseJoin(j) ==
  /\ j \in joins /\ joins' = joins \ {j}
  /\ faults < MaxFaults /\ faults' = faults + 1
  /\ wire' = IF ~Live(j.conn) THEN wire
             ELSE [wire EXCEPT ![j.conn[1]] =
                     Append(@, [is |-> "refused", visit |-> j.visit])]
  /\ UNCHANGED <<tab, current, ended, members, clients, visits>>

\* Mutant: nobody is told.
DepartedSilently(c, ds) == wire

\* What the other members are told, room by room; no tab shows more than one
\* document, so the order of the rooms cannot be seen.
Departed(c, ds) ==
  [p \in Pages |-> wire[p] \o SetToSeq(
     {[is |-> "left", doc |-> d, user |-> User(c)] :
        d \in {d \in ds : Hears(p, d, c)}})]

\* The "disconnecting" handler, when the server notices.
Disconnecting(c) ==
  LET ds == {d \in Docs : c \in members[d]}
  IN /\ ~Live(c) /\ c[2] <= current[c[1]] /\ c \notin ended
     /\ ended' = ended \cup {c}
     /\ members' = [d \in Docs |-> members[d] \ {c}]
     /\ clients' = [d \in Docs |-> IF d \in ds THEN RemoveFirst(clients[d], c)
                                   ELSE clients[d]]
     /\ wire' = Departed(c, ds)
     /\ UNCHANGED <<tab, current, joins, visits, faults>>

-----------------------------------------------------------------------------
PresenceNext ==
  \/ \E p \in Pages :
       \/ \E d \in Docs : Visit(p, d)
       \/ Leave(p) \/ Drop(p)
       \/ ReceiveAnswer(p) \/ ReceivePresence(p)
  \/ \E j \in joins : Join(j) \/ RefuseJoin(j)
  \/ \E c \in Conns : Disconnecting(c)

-----------------------------------------------------------------------------
(* Properties.                                                             *)

\* p shows a document on the connection it joined with, and has been told
\* everything.
Listening(p) ==
  tab[p].at = "open" /\ tab[p].on = current[p] /\ wire[p] = <<>>

\* Screens and server agree: whoever is shown has a connection in room.clients
\* of this document, however joins, losses and departures overlap.
OnlyClientsAreShown ==
  \A p \in Pages : Listening(p) =>
    \A u \in tab[p].roster :
      \E c \in ToSet(clients[tab[p].doc]) : User(c) = u

\* A user with one page and one connection, who came after p did, is shown
\* at p for as long as the connection lasts.
Single(q) ==
  /\ current[q] = 0
  /\ \A p \in Pages \ {q} : UserOf[p] # UserOf[q]
Before(d, b, c) ==
  \E i, j \in DOMAIN clients[d] :
    i < j /\ clients[d][i] = b /\ clients[d][j] = c
NewcomersAreShown ==
  \A p, q \in Pages :
    Listening(p) /\ tab[p].visit = 1 /\ Single(q)
      /\ Before(tab[p].doc, Conn(p), Conn(q))
        => UserOf[q] \in tab[p].roster
=============================================================================
