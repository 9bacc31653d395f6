-------------------------- MODULE FileServerProofs --------------------------
(***************************************************************************)
(* Every copy that is not being written is whole, for any number of nodes, *)
(* keys, connections and calls, while connections last and every step      *)
(* finds the network ready for it.                                         *)
(***************************************************************************)
EXTENDS FileServer, FiniteSetTheorems, SequenceTheorems, TLAPS

-----------------------------------------------------------------------------
(* Types.                                                                  *)

Announces(x) == x.is \in {"store", "get"}
Sent == {x \in Pieces : Announces(x) => x.key \in Keys /\ x.size = 2}
Message == [from : Nodes, is : {"store", "get"}, key : Keys, size : {2}]
Reading == {"none", "peek", "body", "marked", "parked", "garbled", "gone"}
Copy == [there : BOOLEAN, data : Seq(Sent)]
Work == [pc : {"idle", "store", "get"}, from : Nodes \cup {None},
         key : Keys \cup {None}, todo : Seq(Sent), want : Nat]
Calling == [pc : {"idle", "tell", "stream", "ask", "lost"},
            kind : {"store", "get"}, key : Keys \cup {None},
            to : SUBSET Nodes, at : Nodes \cup {None}, todo : Seq(Sent),
            want : Nat]

WorkOK(h) ==
  /\ h.pc # "idle" => h.from \in Nodes
  /\ h.pc = "store" => h.key \in Keys /\ h.want > 0
  /\ h.pc = "get" => h.todo # <<>>
CallOK(c) ==
  /\ c.pc # "idle" => c.key \in Keys
  /\ c.pc = "stream" => c.todo # <<>>

\* A WaitGroup counts the parked reader; a connection has a reader.
ReaderOK(r, o, joined) == (o = 1 => r = "parked") /\ (r # "none" <=> joined)
Joined(n, m) == {n, m} \in up \cup broken

NetTypes ==
  /\ up \subseteq Links /\ broken \subseteq Links /\ down \subseteq Nodes
  /\ calls \in 0..MaxCalls /\ drops \in 0..MaxDrops
WireTypes == wire \in [Nodes -> [Nodes -> Seq(Sent)]]
ReaderTypes ==
  /\ reader \in [Nodes -> [Nodes -> Reading]]
  /\ open \in [Nodes -> [Nodes -> 0..1]]
  /\ \A n, m \in Nodes :
       ReaderOK(reader[n][m], open[n][m], Joined(n, m))
QueueTypes == queue \in [Nodes -> Seq(Message)]
WorkTypes == handler \in [Nodes -> Work] /\ \A n \in Nodes : WorkOK(handler[n])
CallTypes == call \in [Nodes -> Calling] /\ \A n \in Nodes : CallOK(call[n])
DiskTypes == disk \in [Nodes -> [Files -> Copy]]
Types ==
  /\ NetTypes /\ WireTypes /\ ReaderTypes /\ QueueTypes /\ WorkTypes
  /\ CallTypes /\ DiskTypes

-----------------------------------------------------------------------------
(* What is between two nodes while connections last.  In what follows m     *)
(* sends to n: w is the wire from m to n, r and o the reader of n and its   *)
(* WaitGroup, c the call of m, q and h the queue and the handler of n.      *)

Resting(r, o) == r \in {"none", "peek"} \/ (r = "parked" /\ o = 0)
Parked(r, o) == r = "parked" /\ o = 1

\* The first piece of w is s[p], the next is s[p - 1], and so on.
Carries(w, p, s) == \A i \in DOMAIN w : w[i] = s[p - i + 1]

\* From the last: the announcement of b and its stream, and before them the
\* stream of a.
StoreTokens(a, b) ==
  <<Piece("data", b, 0), Piece("iv", b, 0), StreamMark, Piece("store", b, 2),
    MessageMark, Piece("data", a, 0), Piece("iv", a, 0), StreamMark>>

\* What the call has still to write to n: the announcement and the stream.  A
\* node that connects while the stream is sent is not in c.to.
Unwritten(n, c) ==
  CASE c.pc = "tell" /\ n \notin c.to -> 3
    [] c.pc = "tell" /\ n \in c.to /\ c.at = n -> 4
    [] c.pc = "tell" /\ n \in c.to /\ c.at # n -> 5
    [] c.pc = "stream" /\ n \in c.to -> Len(c.todo)
    [] OTHER -> 0

\* n was told that m will send b.
Expects(m, q, h, b) ==
  \/ \E i \in DOMAIN q : q[i].from = m /\ q[i].key = b
  \/ h.pc = "store" /\ h.from = m /\ h.key = b

\* Of l pieces, those that belong to a file n was already told of; the place
\* of the next piece.
Rest(l) == IF l < 5 THEN l ELSE l - 5
Place(l) == IF l <= 3 THEN l + 5 ELSE l

\* What is left of a file tells how far n has come with it.
Awaits(m, q, h, a, left) ==
  \A b \in Keys : Expects(m, q, h, b) <=> left \in 1..3 /\ b = a
Stage(m, r, o, h, left) ==
  /\ left = 0 => Resting(r, o)
  /\ left = 4 => r = "body"
  /\ left = 3 => r = "peek"
  /\ left = 2 => r = "marked" \/ Parked(r, o)
  /\ left = 1 => Parked(r, o) /\ h.pc = "store" /\ h.from = m /\ h.want = 1
  /\ left # 1 /\ h.pc = "store" /\ h.from = m => h.want = 2

Flow(m, w, r, o, c, x, q, h, a) ==
  LET l == Len(w) + x
  IN /\ l <= 8 /\ (c.pc # "tell" => l <= 3)
     /\ l <= 3 /\ x > 0 => a = c.key
     /\ Awaits(m, q, h, a, Rest(l))
     /\ Stage(m, r, o, h, Rest(l))
     /\ Carries(w, Place(l), StoreTokens(a, c.key))
FlowOK(m, n) == \E a \in Keys \cup {None} :
  Flow(m, wire[m][n], reader[n][m], open[n][m], call[m],
       Unwritten(n, call[m]), queue[n], handler[n], a)

\* The call of a node with the peers P, and its loop; d is its disk.
StoreCall(P, c) ==
  /\ c.kind = "store" /\ c.pc \in {"idle", "tell", "stream"}
  /\ c.pc = "tell" => c.to \subseteq P /\ (c.at = None \/ c.at \in c.to)
  /\ c.pc = "stream" =>
       /\ c.to \subseteq P /\ Len(c.todo) <= 3
       /\ Carries(c.todo, Len(c.todo) + 5, StoreTokens(c.key, c.key))
StoreLoop(P, q, h, d) ==
  /\ h.pc # "get"
  /\ \A i \in DOMAIN q :
       /\ q[i].is = "store" /\ q[i].from \in P
       /\ h.pc = "store" => q[i].from # h.from
       /\ \A j \in DOMAIN q : q[j].from = q[i].from => j = i
  /\ h.pc = "store" =>
       /\ h.from \in P /\ h.want \in {1, 2}
       /\ d[<<h.from, h.key>>].data =
            IF h.want = 2 THEN <<>> ELSE <<Piece("iv", h.key, 0)>>
StoreCalls == \A n \in Nodes : StoreCall(Peers(n), call[n])
StoreLoops ==
  \A n \in Nodes : StoreLoop(Peers(n), queue[n], handler[n], disk[n])
Flows == \A n \in Nodes : \A m \in Peers(n) : FlowOK(m, n)
StoreMode == StoreCalls /\ StoreLoops /\ Flows

-----------------------------------------------------------------------------
(* One Get: g asks m with w and r, o of m, and m answers with v and s, u of *)
(* g; c is the call, q and h the queue and the handler of m.                *)

AskTokens(k) == <<Piece("get", k, 2), MessageMark>>
ReplyTokens(k) ==
  <<Piece("data", k, 0), Piece("iv", k, 0), Piece("size", k, 2), StreamMark>>
Unasked(m, c) ==
  CASE c.pc = "tell" /\ m \in c.to /\ c.at = m -> 1
    [] c.pc = "tell" /\ m \in c.to /\ c.at # m -> 2
    [] OTHER -> 0
Unserved(h) == IF h.pc = "get" THEN Len(h.todo) ELSE 0
Waiting(m, c) == c.pc = "tell" \/ m \in c.to \/ (c.at = m /\ c.want = 0)

\* The request is on its way, and l pieces of it are not read; j says that m
\* still waits for its answer.
Ask(g, k, j, l, w, r, v, q, h) ==
  /\ l <= 2 /\ Carries(w, l, AskTokens(k))
  /\ r = IF l = 1 THEN "body" ELSE "peek"
  /\ l > 0 => q = <<>>
  /\ l > 0 \/ q # <<>> => h.pc = "idle" /\ v = <<>> /\ j
  /\ q # <<>> => Len(q) = 1 /\ q[1].from = g /\ q[1].is = "get" /\ q[1].key = k
\* The answer is, and l pieces of it are not read.
Reply(g, m, j, l, v, s, u, c, h, data) ==
  /\ l <= 4 /\ h.pc # "store"
  /\ h.pc = "get" =>
       h.from = g /\ Carries(h.todo, Len(h.todo), ReplyTokens(c.key))
  /\ Carries(v, l, ReplyTokens(c.key))
  /\ l = 4 => j /\ s = "peek"
  /\ l = 3 => j /\ (s = "marked" \/ Parked(s, u))
  /\ l \in {1, 2} => c.pc = "ask" /\ c.at = m /\ c.want = l /\ Parked(s, u)
  /\ l = 2 => data = <<>>
  /\ l = 1 => data = <<Piece("iv", c.key, 0)>>
  /\ l = 0 => IF j THEN s = "peek" ELSE Resting(s, u)
  /\ l \notin {1, 2} => ~(c.at = m /\ c.want > 0)
AskOK(g, m) ==
  Ask(g, call[g].key, Waiting(m, call[g]),
      Len(wire[g][m]) + Unasked(m, call[g]), wire[g][m], reader[m][g],
      wire[m][g], queue[m], handler[m])
ReplyOK(g, m) ==
  Reply(g, m, Waiting(m, call[g]), Len(wire[m][g]) + Unserved(handler[m]),
        wire[m][g], reader[g][m], open[g][m], call[g], handler[m],
        disk[g][<<g, call[g].key>>].data)

GetCall(P, c) ==
  /\ c.kind = "get" /\ c.pc \in {"tell", "ask"} /\ c.to \subseteq P
  /\ c.at = None \/ c.at \in P
  /\ c.pc = "tell" => (c.at = None \/ c.at \in c.to) /\ c.want = 0
  /\ c.pc = "ask" => c.at \notin c.to
  /\ c.at = None => c.want = 0
AtRest(m, n) == wire[m][n] = <<>> /\ Resting(reader[n][m], open[n][m])
\* Nobody else does anything.
Others(g) ==
  /\ queue[g] = <<>> /\ handler[g].pc = "idle"
  /\ \A n \in Nodes \ {g} :
       /\ call[n].pc = "idle" /\ call[n].kind = "store"
       /\ n \notin Peers(g) => queue[n] = <<>> /\ handler[n].pc = "idle"
       /\ \A m \in Peers(n) \ {g} : AtRest(m, n)
GetMode(g) ==
  /\ GetCall(Peers(g), call[g]) /\ Others(g)
  /\ \A m \in Peers(g) : AskOK(g, m) /\ ReplyOK(g, m)

\* A connection that is not there carries nothing.
Net ==
  /\ broken = {} /\ down = {}
  /\ \A n \in Nodes : \A m \in Nodes \ Peers(n) : wire[m][n] = <<>>
CopyWhole(n, f) ==
  disk[n][f].there /\ ~Writing(n, f) => disk[n][f].data = Encrypted(f[2])
Copies == \A n \in Nodes, f \in Files : CopyWhole(n, f)
WholeInv ==
  Undisturbed => /\ Net /\ Copies
                 /\ StoreMode \/ \E g \in Nodes : GetMode(g)
\* A step of an undisturbed network.
Timely == Undisturbed /\ Undisturbed'

-----------------------------------------------------------------------------
(* Proof of the types.                                                     *)

LEMMA SentPieces ==
  /\ StreamMark \in Sent /\ MessageMark \in Sent
  /\ \A k \in Keys : /\ Piece("iv", k, 0) \in Sent
                     /\ Piece("data", k, 0) \in Sent
                     /\ \A n \in Nat : Piece("size", k, n) \in Sent
                     /\ Piece("store", k, 2) \in Sent
                     /\ Piece("get", k, 2) \in Sent
  BY DEF Sent, Pieces, Piece, StreamMark, MessageMark, Announces

LEMMA EncryptedTypes ==
  ASSUME NEW k \in Keys
  PROVE /\ Encrypted(k) = <<Piece("iv", k, 0), Piece("data", k, 0)>>
        /\ Encrypted(k) \in Seq(Sent) /\ Len(Encrypted(k)) = 2
<1>1. Piece("iv", k, 0) \in Sent /\ Piece("data", k, 0) \in Sent
  BY SentPieces
<1> HIDE DEF Piece
<1> QED
  BY <1>1 DEF Encrypted

LEMMA LinkEnds ==
  ASSUME NEW n, NEW m, {n, m} \in Links
  PROVE n # m /\ n \in Nodes /\ m \in Nodes
<1>1. {n, m} \subseteq Nodes /\ Cardinality({n, m}) = 2
  BY LinksArePairs
<1>2. n = m => Cardinality({n, m}) = 1
  BY FS_Singleton
<1> QED
  BY <1>1, <1>2

LEMMA StartTypes ==
  ASSUME NEW S, NEW s \in Seq(S), NEW k \in 0..Len(s)
  PROVE SubSeq(s, 1, k) \in Seq(S)
<1>1. Len(s) \in Nat /\ \A i \in 1..k : s[i] \in S
  OBVIOUS
<1> QED
  BY <1>1, SubSeqProperties

LEMMA NestedExcept ==
  ASSUME NEW S, NEW f \in [Nodes -> [Nodes -> S]], NEW n \in Nodes,
         NEW m \in Nodes, NEW x \in S, NEW g, g = [f EXCEPT ![n][m] = x]
  PROVE /\ g \in [Nodes -> [Nodes -> S]]
        /\ \A a, b \in Nodes : g[a][b] = IF a = n /\ b = m THEN x ELSE f[a][b]
  OBVIOUS

LEMMA TailTypes ==
  ASSUME NEW S, NEW s \in Seq(S), NEW k \in 1..Len(s)
  PROVE /\ s # <<>> /\ s[1] \in S /\ Head(s) = s[1]
        /\ SubSeq(s, k + 1, Len(s)) \in Seq(S)
        /\ Len(SubSeq(s, k + 1, Len(s))) = Len(s) - k
        /\ \A i \in 1..(Len(s) - k) : SubSeq(s, k + 1, Len(s))[i] = s[i + k]
<1>1. /\ Len(s) \in Nat /\ k + 1 \in 1..(Len(s) + 1)
      /\ \A i \in (k + 1)..Len(s) : s[i] \in S
  OBVIOUS
<1>2. /\ SubSeq(s, k + 1, Len(s)) \in Seq(S)
      /\ Len(SubSeq(s, k + 1, Len(s))) =
           IF k + 1 <= Len(s) THEN Len(s) - (k + 1) + 1 ELSE 0
      /\ \A i \in 1..(Len(s) - (k + 1) + 1) :
           SubSeq(s, k + 1, Len(s))[i] = s[k + 1 + i - 1]
  BY <1>1, SubSeqProperties
<1>3. Len(s) - (k + 1) + 1 = Len(s) - k
  BY <1>1
<1>4. \A i \in 1..(Len(s) - k) : SubSeq(s, k + 1, Len(s))[i] = s[i + k]
  <2> SUFFICES ASSUME NEW i \in 1..(Len(s) - k)
               PROVE SubSeq(s, k + 1, Len(s))[i] = s[i + k]
    OBVIOUS
  <2>1. SubSeq(s, k + 1, Len(s))[i] = s[k + 1 + i - 1]
    BY <1>2, <1>3
  <2>2. k + 1 + i - 1 = i + k
    BY <1>1
  <2> QED
    BY <2>1, <2>2
<1>5. Len(SubSeq(s, k + 1, Len(s))) = Len(s) - k
  <2>1. PICK z : z = Len(SubSeq(s, k + 1, Len(s)))
    OBVIOUS
  <2>2. z = IF k + 1 <= Len(s) THEN Len(s) - (k + 1) + 1 ELSE 0
    BY <1>2, <2>1
  <2>3. z = Len(s) - k
    BY <1>1, <2>2
  <2> QED
    BY <2>1, <2>3
<1>6. s # <<>> /\ s[1] \in S /\ Head(s) = s[1]
  OBVIOUS
<1> QED
  BY <1>2, <1>4, <1>5, <1>6

\* What is read from a wire.
LEMMA Drained ==
  ASSUME Types, NEW n \in Nodes, NEW m \in Nodes,
         NEW k \in 1..Len(wire[m][n]), Drain(n, m, k)
  PROVE /\ WireTypes' /\ Next1(n, m) = wire[m][n][1] /\ Next1(n, m) \in Sent
        /\ wire'[m][n] \in Seq(Sent)
        /\ Len(wire'[m][n]) = Len(wire[m][n]) - k
        /\ \A i \in 1..Len(wire'[m][n]) : wire'[m][n][i] = wire[m][n][i + k]
        /\ \A a, b \in Nodes : a # m \/ b # n => wire'[a][b] = wire[a][b]
<1>1. PICK s, t : s = wire[m][n] /\ t = SubSeq(s, k + 1, Len(s))
  OBVIOUS
<1>2. s \in Seq(Sent)
  BY <1>1 DEF Types, WireTypes
<1>3. /\ s[1] \in Sent /\ Head(s) = s[1] /\ t \in Seq(Sent)
      /\ Len(t) = Len(s) - k
      /\ \A i \in 1..(Len(s) - k) : t[i] = s[i + k]
  <2>1. k \in 1..Len(s)
    BY <1>1
  <2>2. /\ s[1] \in Sent /\ Head(s) = s[1]
        /\ SubSeq(s, k + 1, Len(s)) \in Seq(Sent)
        /\ Len(SubSeq(s, k + 1, Len(s))) = Len(s) - k
        /\ \A i \in 1..(Len(s) - k) : SubSeq(s, k + 1, Len(s))[i] = s[i + k]
    BY <1>2, <2>1, TailTypes
  <2> QED
    BY <1>1, <2>2
<1>4. wire' = [wire EXCEPT ![m][n] = t]
  BY <1>1 DEF Drain
<1>5. /\ WireTypes'
      /\ \A a, b \in Nodes :
           wire'[a][b] = IF a = m /\ b = n THEN t ELSE wire[a][b]
  BY <1>3, <1>4, NestedExcept DEF Types, WireTypes
<1> QED
  BY <1>1, <1>3, <1>5 DEF Next1

LEMMA Arrival ==
  ASSUME Types, NEW n \in Nodes, NEW m \in Nodes, Arrived(n, m)
  PROVE 1 \in 1..Len(wire[m][n])
  BY DEF Types, WireTypes, Arrived

LEMMA Written ==
  ASSUME Types, NEW n \in Nodes, NEW m \in Nodes, NEW x \in Sent,
         Write(n, m, x)
  PROVE /\ WireTypes' /\ wire'[n][m] = Append(wire[n][m], x)
        /\ \A a, b \in Nodes : a # n \/ b # m => wire'[a][b] = wire[a][b]
<1>1. PICK t : t = Append(wire[n][m], x)
  OBVIOUS
<1>2. t \in Seq(Sent) /\ wire' = [wire EXCEPT ![n][m] = t]
  BY <1>1 DEF Types, WireTypes, Write
<1> QED
  BY <1>1, <1>2, NestedExcept DEF Types, WireTypes

LEMMA ReaderFields ==
  ASSUME Types, NEW n \in Nodes, NEW m \in Nodes
  PROVE /\ reader[n][m] \in Reading /\ open[n][m] \in 0..1
        /\ ReaderOK(reader[n][m], open[n][m], Joined(n, m))
  BY DEF Types, ReaderTypes

\* A reader goes on, or its WaitGroup changes.
LEMMA ReaderChanges ==
  ASSUME Types, NEW n \in Nodes, NEW m \in Nodes, NEW x \in Reading,
         NEW y \in 0..1, ReaderOK(x, y, Joined(n, m)),
         UNCHANGED <<up, broken>>,
         \/ reader' = reader /\ x = reader[n][m]
         \/ reader' = [reader EXCEPT ![n][m] = x],
         \/ open' = open /\ y = open[n][m]
         \/ open' = [open EXCEPT ![n][m] = y]
  PROVE /\ ReaderTypes'
        /\ \A a, b \in Nodes :
             /\ reader'[a][b] = IF a = n /\ b = m THEN x ELSE reader[a][b]
             /\ open'[a][b] = IF a = n /\ b = m THEN y ELSE open[a][b]
<1>1. /\ reader' \in [Nodes -> [Nodes -> Reading]]
      /\ \A a, b \in Nodes :
           reader'[a][b] = IF a = n /\ b = m THEN x ELSE reader[a][b]
  <2>1. reader \in [Nodes -> [Nodes -> Reading]]
    BY DEF Types, ReaderTypes
  <2>2. CASE reader' = [reader EXCEPT ![n][m] = x]
    BY <2>1, <2>2, NestedExcept
  <2> QED
    BY <2>1, <2>2
<1>2. /\ open' \in [Nodes -> [Nodes -> 0..1]]
      /\ \A a, b \in Nodes :
           open'[a][b] = IF a = n /\ b = m THEN y ELSE open[a][b]
  <2>1. open \in [Nodes -> [Nodes -> 0..1]]
    BY DEF Types, ReaderTypes
  <2>2. CASE open' = [open EXCEPT ![n][m] = y]
    BY <2>1, <2>2, NestedExcept
  <2> QED
    BY <2>1, <2>2
<1>3. ASSUME NEW a \in Nodes, NEW b \in Nodes
      PROVE ReaderOK(reader'[a][b], open'[a][b], Joined(a, b)')
  <2>1. Joined(a, b)' <=> Joined(a, b)
    BY DEF Joined
  <2>2. ReaderOK(reader[a][b], open[a][b], Joined(a, b))
    BY ReaderFields
  <2>3. CASE a = n /\ b = m
    BY <1>1, <1>2, <2>1, <2>3 DEF ReaderOK
  <2>4. CASE ~(a = n /\ b = m)
    <3>1. reader'[a][b] = reader[a][b] /\ open'[a][b] = open[a][b]
      BY <1>1, <1>2, <2>4
    <3> QED
      BY <2>1, <2>2, <3>1 DEF ReaderOK
  <2> QED
    BY <2>3, <2>4
<1> QED
  BY <1>1, <1>2, <1>3 DEF ReaderTypes

LEMMA StreamCloses ==
  ASSUME Types, NEW n \in Nodes, NEW m \in Nodes, CloseStream(n, m),
         UNCHANGED <<links, calls, reader>>
  PROVE NetTypes' /\ ReaderTypes'
<1>1. CASE open[n][m] > 0 /\ open' = [open EXCEPT ![n][m] = 0] /\ UNCHANGED down
  <2>1. PICK x, y : x = reader[n][m] /\ y = 0
    OBVIOUS
  <2>3. ReaderOK(x, y, Joined(n, m)) /\ x \in Reading /\ y \in 0..1
    BY <2>1, ReaderFields DEF ReaderOK
  <2>4. /\ reader' = reader /\ open' = [open EXCEPT ![n][m] = y]
        /\ UNCHANGED <<up, broken>>
    BY <1>1, <2>1 DEF links
  <2>2. ReaderTypes'
    BY <2>1, <2>3, <2>4, ReaderChanges
  <2> QED
    BY <1>1, <2>2 DEF links, Types, NetTypes
<1>2. CASE open[n][m] = 0 /\ down' = down \cup {n} /\ UNCHANGED open
  <2>1. NetTypes'
    BY <1>2 DEF links, Types, NetTypes
  <2>2. ReaderTypes'
    BY <1>2 DEF links, Types, ReaderTypes, Joined
  <2> QED
    BY <2>1, <2>2
<1> QED
  BY <1>1, <1>2 DEF CloseStream

LEMMA TypesInit == Init => Types
<1> SUFFICES ASSUME Init PROVE Types
  OBVIOUS
<1>1. NetTypes /\ WireTypes /\ ReaderTypes /\ QueueTypes
  BY BoundsAreNumbers
  DEF Init, NetTypes, WireTypes, ReaderTypes, Joined, QueueTypes, Reading,
      ReaderOK, Joined
<1>2. WorkTypes /\ CallTypes
  BY DEF Init, WorkTypes, CallTypes, NoWork, NoCall, Work, Calling, WorkOK,
         CallOK
<1>3. DiskTypes
  BY DEF Init, DiskTypes, Absent, Copy
<1> QED
  BY <1>1, <1>2, <1>3 DEF Types

LEMMA CallFields ==
  ASSUME Types, NEW n \in Nodes
  PROVE call[n] \in Calling /\ CallOK(call[n])
  BY DEF Types, CallTypes

LEMMA TypesConnect ==
  ASSUME Types, NEW n \in Nodes, NEW m \in Nodes, Connect(n, m) PROVE Types'
<1>1. /\ {n, m} \in Links \ (up \cup broken) /\ up' = up \cup {{n, m}}
      /\ reader' = [reader EXCEPT ![n][m] = "peek", ![m][n] = "peek"]
      /\ UNCHANGED <<broken, drops, calls, wire, open, queue, handler, disk>>
  BY DEF Connect
<1>2. NetTypes' /\ CallTypes'
  <2>1. PICK met \in SUBSET {n, m}, fallen \in SUBSET {n, m} :
          /\ call' = [x \in Nodes |-> IF x \notin met THEN call[x]
               ELSE [call[x] EXCEPT !.to = @ \cup ({n, m} \ {x})]]
          /\ down' = down \cup fallen
    BY DEF Connect
  <2>2. {n, m} \subseteq Nodes
    OBVIOUS
  <2>3. NetTypes'
    BY <1>1, <2>1, <2>2 DEF Types, NetTypes
  <2>4. ASSUME NEW a \in Nodes PROVE call'[a] \in Calling /\ CallOK(call'[a])
    <3>1. PICK b : b = call[a]
      OBVIOUS
    <3>2. b \in Calling /\ CallOK(b)
      BY <3>1, CallFields
    <3>3. PICK t : t = b.to \cup ({n, m} \ {a})
      OBVIOUS
    <3>4. t \in SUBSET Nodes
      BY <2>2, <3>2, <3>3 DEF Calling
    <3>5. call'[a] \in {b, [b EXCEPT !.to = t]}
      BY <2>1, <3>1, <3>3
    <3> QED
      BY <3>2, <3>4, <3>5 DEF Calling, CallOK
  <2>5. CallTypes'
    BY <2>1, <2>4 DEF CallTypes
  <2> QED
    BY <2>3, <2>5
<1>3. /\ reader' \in [Nodes -> [Nodes -> Reading]]
      /\ \A a, b \in Nodes :
           reader'[a][b] = IF (a = n /\ b = m) \/ (a = m /\ b = n)
                           THEN "peek" ELSE reader[a][b]
  <2>1. PICK f : f = [reader EXCEPT ![n][m] = "peek"]
    OBVIOUS
  <2>2. /\ f \in [Nodes -> [Nodes -> Reading]]
        /\ \A a, b \in Nodes :
             f[a][b] = IF a = n /\ b = m THEN "peek" ELSE reader[a][b]
    BY <2>1, NestedExcept DEF Types, ReaderTypes, Reading
  <2>3. reader' = [f EXCEPT ![m][n] = "peek"]
    BY <1>1, <2>1
  <2>4. /\ reader' \in [Nodes -> [Nodes -> Reading]]
        /\ \A a, b \in Nodes :
             reader'[a][b] = IF a = m /\ b = n THEN "peek" ELSE f[a][b]
    BY <2>2, <2>3, NestedExcept DEF Reading
  <2> QED
    BY <2>2, <2>4
<1>4. ReaderTypes'
  <2>1. open \in [Nodes -> [Nodes -> 0..1]]
    BY DEF Types, ReaderTypes
  <2>2. ASSUME NEW a \in Nodes, NEW b \in Nodes
        PROVE ReaderOK(reader'[a][b], open'[a][b], Joined(a, b)')
    <3>1. /\ ReaderOK(reader[a][b], open[a][b], Joined(a, b))
          /\ open'[a][b] = open[a][b]
      BY <1>1, ReaderFields
    <3>2. CASE (a = n /\ b = m) \/ (a = m /\ b = n)
      <4>1. {a, b} = {n, m}
        BY <3>2
      <4>2. ~Joined(a, b) /\ Joined(a, b)'
        BY <1>1, <4>1 DEF Joined
      <4>3. reader'[a][b] = "peek"
        BY <1>3, <3>2
      <4> QED
        BY <3>1, <4>2, <4>3 DEF ReaderOK
    <3>3. CASE ~((a = n /\ b = m) \/ (a = m /\ b = n))
      <4>1. {a, b} # {n, m}
        BY <3>3
      <4>2. Joined(a, b)' <=> Joined(a, b)
        BY <1>1, <4>1 DEF Joined
      <4>3. reader'[a][b] = reader[a][b]
        BY <1>3, <3>3
      <4> QED
        BY <3>1, <4>2, <4>3 DEF ReaderOK
    <3> QED
      BY <3>2, <3>3
  <2> QED
    BY <1>1, <1>3, <2>1, <2>2 DEF ReaderTypes
<1> QED
  BY <1>1, <1>2, <1>4
  DEF Types, WireTypes, QueueTypes, WorkTypes, DiskTypes

LEMMA TypesBreak ==
  ASSUME Types, NEW n \in Nodes, NEW m \in Nodes, Break(n, m) PROVE Types'
<1>1. NetTypes' /\ ReaderTypes'
  <2>1. NetTypes'
    <3>1. /\ drops < MaxDrops /\ drops' = drops + 1 /\ {n, m} \in up
          /\ up' = up \ {{n, m}} /\ broken' = broken \cup {{n, m}}
          /\ UNCHANGED <<down, calls>>
      BY DEF Break
    <3>2. drops' \in 0..MaxDrops
      BY <3>1, BoundsAreNumbers DEF Types, NetTypes
    <3> QED
      BY <3>1, <3>2 DEF Types, NetTypes
  <2>2. up' \cup broken' = up \cup broken
    BY DEF Break
  <2>3. ASSUME NEW a \in Nodes, NEW b \in Nodes
        PROVE ReaderOK(reader'[a][b], open'[a][b], Joined(a, b)')
    <3>1. Joined(a, b)' <=> Joined(a, b)
      BY <2>2 DEF Joined
    <3> QED
      BY <3>1, ReaderFields DEF Break, ReaderOK
  <2> QED
    BY <2>1, <2>3 DEF Break, Types, ReaderTypes
<1>2. WireTypes'
  <2>1. PICK i \in 0..Len(wire[n][m]), j \in 0..Len(wire[m][n]) :
          wire' = [wire EXCEPT ![n][m] = SubSeq(@, 1, i),
                               ![m][n] = SubSeq(@, 1, j)]
    BY DEF Break
  <2>2. PICK s, r : s = SubSeq(wire[n][m], 1, i) /\ r = SubSeq(wire[m][n], 1, j)
    OBVIOUS
  <2>3. s \in Seq(Sent) /\ r \in Seq(Sent)
    BY <2>1, <2>2, StartTypes DEF Types, WireTypes
  <2>4. PICK f : f = [wire EXCEPT ![n][m] = s]
    OBVIOUS
  <2>5. /\ f \in [Nodes -> [Nodes -> Seq(Sent)]]
        /\ \A a, b \in Nodes :
             f[a][b] = IF a = n /\ b = m THEN s ELSE wire[a][b]
    BY <2>3, <2>4, NestedExcept DEF Types, WireTypes
  <2>6. f[m][n] = wire[m][n]
    BY <2>5, LinkEnds DEF Break, Types, NetTypes
  <2>7. wire' = [f EXCEPT ![m][n] = r]
    BY <2>1, <2>2, <2>4, <2>6
  <2> QED
    BY <2>3, <2>5, <2>7, NestedExcept DEF WireTypes
<1> QED
  BY <1>1, <1>2
  DEF Break, Types, QueueTypes, WorkTypes, CallTypes, DiskTypes

LEMMA CallChanges ==
  ASSUME Types, NEW n \in Nodes, NEW c, c \in Calling, CallOK(c),
         call' = [call EXCEPT ![n] = c]
  PROVE CallTypes' /\ \A a \in Nodes : call'[a] = IF a = n THEN c ELSE call[a]
  BY DEF Types, CallTypes

LEMMA WorkChanges ==
  ASSUME Types, NEW n \in Nodes, NEW h, h \in Work, WorkOK(h),
         handler' = [handler EXCEPT ![n] = h]
  PROVE /\ WorkTypes'
        /\ \A a \in Nodes : handler'[a] = IF a = n THEN h ELSE handler[a]
  BY DEF Types, WorkTypes

LEMMA QueueChanges ==
  ASSUME Types, NEW n \in Nodes, NEW q, q \in Seq(Message),
         queue' = [queue EXCEPT ![n] = q]
  PROVE /\ QueueTypes'
        /\ \A a \in Nodes : queue'[a] = IF a = n THEN q ELSE queue[a]
  BY DEF Types, QueueTypes

LEMMA DiskChanges ==
  ASSUME Types, NEW n \in Nodes, NEW f \in Files, NEW x, x \in Copy,
         disk' = [disk EXCEPT ![n][f] = x]
  PROVE /\ DiskTypes'
        /\ \A a \in Nodes : \A e \in Files :
             disk'[a][e] = IF a = n /\ e = f THEN x ELSE disk[a][e]
  BY DEF Types, DiskTypes

LEMMA IdleTypes ==
  NoCall \in Calling /\ CallOK(NoCall) /\ NoWork \in Work /\ WorkOK(NoWork)
  BY DEF NoCall, NoWork, Calling, Work, CallOK, WorkOK

LEMMA WorkFields ==
  ASSUME Types, NEW n \in Nodes
  PROVE handler[n] \in Work /\ WorkOK(handler[n])
  BY DEF Types, WorkTypes

LEMMA CopyFields ==
  ASSUME Types, NEW n \in Nodes, NEW f \in Files PROVE disk[n][f] \in Copy
  BY DEF Types, DiskTypes

LEMMA TypesReader ==
  ASSUME Types, NEW n \in Nodes, NEW m \in Nodes, {n, m} \in Links,
         Peek(n, m) \/ Body(n, m) \/ Park(n, m) \/ Resume(n, m) \/ EndRead(n, m)
  PROVE Types'
<1>0. /\ reader[n][m] \in Reading /\ open[n][m] \in 0..1
      /\ ReaderOK(reader[n][m], open[n][m], Joined(n, m))
  BY ReaderFields
<1>1. CASE Peek(n, m)
  <2>1. PICK x : x = CASE Next1(n, m) = StreamMark -> "marked"
                       [] Next1(n, m) = MessageMark -> "body"
                       [] OTHER -> "garbled"
    OBVIOUS
  <2>2. x \in Reading /\ x # "none"
    BY <2>1 DEF Reading
  <2>3. /\ reader' = [reader EXCEPT ![n][m] = x] /\ reader[n][m] = "peek"
        /\ UNCHANGED <<up, broken, open>>
    BY <1>1, <2>1 DEF Peek, net, links
  <2>4. ReaderOK(x, open[n][m], Joined(n, m))
    BY <1>0, <2>2, <2>3 DEF ReaderOK
  <2>5. ReaderTypes'
    BY <1>0, <2>2, <2>3, <2>4, ReaderChanges
  <2>6. WireTypes'
    <3>1. 1 \in 1..Len(wire[m][n]) /\ Drain(n, m, 1)
      BY <1>1, Arrival DEF Peek
    <3> QED
      BY <3>1, Drained
  <2> QED
    BY <1>1, <2>5, <2>6
    DEF Peek, net, links, Types, NetTypes, QueueTypes, WorkTypes, CallTypes,
        DiskTypes
<1>2. CASE Body(n, m)
  <2>1. /\ reader' = [reader EXCEPT ![n][m] = "peek"] /\ reader[n][m] = "body"
        /\ UNCHANGED <<up, broken, open>>
    BY <1>2 DEF Body, net, links
  <2>2. ReaderOK("peek", open[n][m], Joined(n, m)) /\ "peek" \in Reading
    BY <1>0, <2>1 DEF ReaderOK, Reading
  <2>3. WireTypes' /\ Next1(n, m) \in Sent
    <3>1. PICK k \in 1..Len(wire[m][n]) : Drain(n, m, k)
      BY <1>2 DEF Body
    <3> QED
      BY <3>1, Drained
  <2>5. ReaderTypes'
    BY <1>0, <2>1, <2>2, ReaderChanges
  <2>6. QueueTypes'
    <3>1. PICK x, z : /\ x = Next1(n, m)
                      /\ z = [from |-> m, is |-> x.is, key |-> x.key,
                              size |-> x.size]
      OBVIOUS
    <3>2. CASE x.is \notin {"store", "get"}
      BY <1>2, <3>1, <3>2 DEF Body, Types, QueueTypes
    <3>3. CASE x.is \in {"store", "get"}
      <4>1. z \in Message
        BY <2>3, <3>1, <3>3 DEF Sent, Announces, Message
      <4>2. queue' = [queue EXCEPT ![n] = Append(queue[n], z)]
        BY <1>2, <3>1, <3>3 DEF Body
      <4>3. Append(queue[n], z) \in Seq(Message)
        BY <4>1 DEF Types, QueueTypes
      <4> QED
        BY <4>2, <4>3, QueueChanges
    <3> QED
      BY <3>2, <3>3
  <2> QED
    BY <1>2, <2>3, <2>5, <2>6
    DEF Body, net, links, Types, NetTypes, WorkTypes, CallTypes, DiskTypes
<1>3. CASE Park(n, m)
  <2>1. /\ reader[n][m] = "marked"
        /\ reader' = [reader EXCEPT ![n][m] = "parked"]
        /\ open' = [open EXCEPT ![n][m] = open[n][m] + 1]
        /\ UNCHANGED <<up, broken>>
    BY <1>3 DEF Park, net, links
  <2>2. open[n][m] + 1 = 1
    BY <1>0, <2>1 DEF ReaderOK
  <2>3. open' = [open EXCEPT ![n][m] = 1]
    BY <2>1, <2>2
  <2>4. /\ ReaderOK("parked", 1, Joined(n, m))
        /\ "parked" \in Reading /\ 1 \in 0..1
    BY <1>0, <2>1 DEF ReaderOK, Reading
  <2>5. ReaderTypes'
    BY <2>1, <2>3, <2>4, ReaderChanges
  <2> QED
    BY <1>3, <2>5
    DEF Park, net, links, Types, NetTypes, WireTypes, QueueTypes, WorkTypes,
        CallTypes,
        DiskTypes
<1>4. CASE Resume(n, m)
  <2>1. /\ reader[n][m] = "parked" /\ reader' = [reader EXCEPT ![n][m] = "peek"]
        /\ open[n][m] = 0 /\ UNCHANGED <<up, broken, open>>
    BY <1>4 DEF Resume, net, links
  <2>2. ReaderOK("peek", open[n][m], Joined(n, m)) /\ "peek" \in Reading
    BY <1>0, <2>1 DEF ReaderOK, Reading
  <2>3. ReaderTypes'
    BY <1>0, <2>1, <2>2, ReaderChanges
  <2> QED
    BY <1>4, <2>3
    DEF Resume, net, links, Types, NetTypes, WireTypes, QueueTypes, WorkTypes,
        CallTypes, DiskTypes
<1>5. CASE EndRead(n, m)
  <2>1. /\ reader[n][m] \in {"peek", "body"}
        /\ reader' = [reader EXCEPT ![n][m] = "gone"]
        /\ UNCHANGED <<up, broken, open>>
    BY <1>5 DEF EndRead, net, links
  <2>2. ReaderOK("gone", open[n][m], Joined(n, m)) /\ "gone" \in Reading
    BY <1>0, <2>1 DEF ReaderOK, Reading
  <2>3. ReaderTypes'
    BY <1>0, <2>1, <2>2, ReaderChanges
  <2> QED
    BY <1>5, <2>3
    DEF EndRead, net, links, Types, NetTypes, WireTypes, QueueTypes, WorkTypes,
        CallTypes, DiskTypes
<1> QED
  BY <1>1, <1>2, <1>3, <1>4, <1>5

\* A step that changes the call of n alone.
LEMMA TypesCallOnly ==
  ASSUME Types, NEW n \in Nodes, NEW c, c \in Calling, CallOK(c),
         call' = [call EXCEPT ![n] = c],
         UNCHANGED <<links, down>>,
         UNCHANGED <<wire, reader, open, queue, handler, disk, calls>>
  PROVE Types'
  BY CallChanges
  DEF net, links, Types, NetTypes, WireTypes, ReaderTypes, Joined, QueueTypes,
      WorkTypes, DiskTypes

LEMMA TypesBegin ==
  ASSUME Types, NEW n \in Nodes, NEW kind \in {"store", "get"}, NEW k \in Keys,
         Begin(n, kind, k), UNCHANGED <<links, down>>
  PROVE /\ CallTypes' /\ NetTypes' /\ call[n].pc = "idle"
        /\ \A a \in Nodes : a # n => call'[a] = call[a]
        /\ call'[n].pc = "tell" /\ call'[n].kind = kind /\ call'[n].key = k
        /\ call'[n].to = Peers(n) /\ call'[n].at = None /\ call'[n].want = 0
<1>1. PICK c : c = [NoCall EXCEPT !.pc = "tell", !.kind = kind, !.key = k,
                                  !.to = Peers(n)]
  OBVIOUS
<1>2. /\ c \in Calling /\ CallOK(c)
      /\ c.pc = "tell" /\ c.kind = kind /\ c.key = k
      /\ c.to = Peers(n) /\ c.at = None /\ c.want = 0
  <2>1. c = [pc |-> "tell", kind |-> kind, key |-> k, to |-> Peers(n),
             at |-> None, todo |-> <<>>, want |-> 0]
    BY <1>1 DEF NoCall
  <2>2. Peers(n) \in SUBSET Nodes /\ <<>> \in Seq(Sent) /\ 0 \in Nat
    BY DEF Peers
  <2>3. c \in Calling
    BY <2>1, <2>2 DEF Calling
  <2> QED
    BY <2>1, <2>3 DEF CallOK
<1>3. call' = [call EXCEPT ![n] = c] /\ call[n].pc = "idle"
      /\ calls < MaxCalls /\ calls' = calls + 1
  BY <1>1 DEF Begin
<1>4. NetTypes'
  BY <1>3, BoundsAreNumbers DEF net, links, Types, NetTypes
<1>5. CallTypes' /\ \A a \in Nodes : call'[a] = IF a = n THEN c ELSE call[a]
  BY <1>2, <1>3, CallChanges
<1> QED
  BY <1>2, <1>3, <1>4, <1>5

LEMMA TypesStarts ==
  ASSUME Types, NEW n \in Nodes, NEW k \in Keys,
         StoreStarts(n, k) \/ GetStarts(n, k) \/ FileLost(n, k)
  PROVE Types'
<1>0. <<n, k>> \in Files
  BY DEF Files
<1>1. CASE StoreStarts(n, k)
  <2>1. CallTypes' /\ NetTypes'
    BY <1>1, TypesBegin DEF StoreStarts
  <2>2. DiskTypes'
    <3>1. PICK x : x = File(Encrypted(k))
      OBVIOUS
    <3>2. x \in Copy
      BY <3>1, EncryptedTypes DEF File, Copy
    <3> QED
      BY <1>0, <1>1, <3>1, <3>2, DiskChanges DEF StoreStarts
  <2> QED
    BY <1>1, <2>1, <2>2
    DEF StoreStarts, net, links, Types, WireTypes, ReaderTypes, Joined,
        QueueTypes,
        WorkTypes
<1>2. CASE GetStarts(n, k)
  <2>1. CallTypes' /\ NetTypes'
    BY <1>2, TypesBegin DEF GetStarts
  <2> QED
    BY <1>2, <2>1
    DEF GetStarts, net, links, Types, WireTypes, ReaderTypes, Joined,
        QueueTypes,
        WorkTypes, DiskTypes
<1>3. CASE FileLost(n, k)
  <2>1. Absent \in Copy
    BY DEF Absent, Copy
  <2>2. DiskTypes'
    BY <1>0, <1>3, <2>1, DiskChanges DEF FileLost
  <2> QED
    BY <1>3, <2>2
    DEF FileLost, net, links, Types, NetTypes, WireTypes, ReaderTypes, Joined,
        QueueTypes, WorkTypes, CallTypes
<1> QED
  BY <1>1, <1>2, <1>3

LEMMA AnnouncementTypes ==
  ASSUME Types, NEW n \in Nodes, call[n].pc = "tell"
  PROVE /\ call[n].key \in Keys
        /\ Piece(call[n].kind, call[n].key, Len(Encrypted(call[n].key))) =
             Piece(call[n].kind, call[n].key, 2)
        /\ Piece(call[n].kind, call[n].key, 2) \in Sent
<1>1. call[n].key \in Keys /\ call[n].kind \in {"store", "get"}
  BY CallFields DEF CallOK, Calling
<1> QED
  BY <1>1, EncryptedTypes, SentPieces

LEMMA TypesTell ==
  ASSUME Types, NEW n \in Nodes, NEW m \in Nodes, Tell(n, m) PROVE Types'
<1>1. call[n] \in Calling /\ CallOK(call[n]) /\ call[n].pc = "tell"
  BY CallFields DEF Tell
<1>2. CallTypes'
  <2>1. PICK c : /\ c \in {NoCall, [call[n] EXCEPT !.at = m],
                           [call[n] EXCEPT !.at = None, !.to = @ \ {m}]}
                 /\ call' = [call EXCEPT ![n] = c]
    <3>1. \/ call' = [call EXCEPT ![n] = NoCall]
          \/ call' = [call EXCEPT ![n].at = m]
          \/ call' = [call EXCEPT ![n].at = None, ![n].to = @ \ {m}]
      BY DEF Tell
    <3>2. [call EXCEPT ![n].at = m] =
            [call EXCEPT ![n] = [call[n] EXCEPT !.at = m]]
      BY DEF Types, CallTypes
    <3>3. [call EXCEPT ![n].at = None, ![n].to = @ \ {m}] =
            [call EXCEPT ![n] = [call[n] EXCEPT !.at = None, !.to = @ \ {m}]]
      BY DEF Types, CallTypes
    <3> QED
      BY <3>1, <3>2, <3>3
  <2>2. c \in Calling /\ CallOK(c)
    BY <1>1, <2>1, IdleTypes DEF Calling, CallOK
  <2> QED
    BY <2>1, <2>2, CallChanges
<1>3. WireTypes'
  <2>1. CASE UNCHANGED wire
    BY <2>1 DEF Types, WireTypes
  <2>2. CASE Write(n, m, MessageMark)
    BY <2>2, SentPieces, Written
  <2>3. CASE Write(n, m, Piece(call[n].kind, call[n].key, 2))
    BY <1>1, <2>3, AnnouncementTypes, Written
  <2> QED
    BY <1>1, <2>1, <2>2, <2>3, AnnouncementTypes DEF Tell
<1> QED
  BY <1>2, <1>3
  DEF Tell, net, links, Types, NetTypes, ReaderTypes, Joined, QueueTypes,
      WorkTypes,
      DiskTypes

LEMMA StreamTypes ==
  ASSUME NEW k \in Keys, NEW s, s = <<StreamMark>> \o Encrypted(k)
  PROVE /\ s \in Seq(Sent) /\ Len(s) = 3
        /\ s[1] = StreamMark /\ s[2] = Piece("iv", k, 0)
        /\ s[3] = Piece("data", k, 0)
<1>1. PICK x, y, z : /\ x = StreamMark /\ y = Piece("iv", k, 0)
                     /\ z = Piece("data", k, 0)
  OBVIOUS
<1>2. x \in Sent /\ y \in Sent /\ z \in Sent
  BY <1>1, SentPieces
<1>3. s = <<x>> \o <<y, z>>
  BY <1>1, EncryptedTypes
<1>4. PICK u, v : u = <<x>> /\ v = <<y, z>>
  OBVIOUS
<1>5. /\ u \in Seq(Sent) /\ Len(u) = 1 /\ u[1] = x
      /\ v \in Seq(Sent) /\ Len(v) = 2 /\ v[1] = y /\ v[2] = z
  BY <1>2, <1>4
<1>6. /\ u \o v \in Seq(Sent) /\ Len(u \o v) = Len(u) + Len(v)
      /\ \A i \in 1..(Len(u) + Len(v)) :
           (u \o v)[i] = IF i <= Len(u) THEN u[i] ELSE v[i - Len(u)]
  BY <1>5, ConcatProperties
<1>7. (u \o v)[1] = u[1] /\ (u \o v)[2] = v[1] /\ (u \o v)[3] = v[2]
  BY <1>5, <1>6
<1>8. s = u \o v
  BY <1>3, <1>4
<1>9. s \in Seq(Sent) /\ Len(s) = 3
  <2>1. Len(u) + Len(v) = 3
    BY <1>5
  <2>2. u \o v \in Seq(Sent) /\ Len(u \o v) = 3
    BY <1>6, <2>1
  <2> QED
    BY <1>8, <2>2
<1>10. s[1] = x /\ s[2] = y /\ s[3] = z
  BY <1>5, <1>7, <1>8
<1> QED
  BY <1>1, <1>9, <1>10

LEMMA TypesSendFile ==
  ASSUME Types, NEW n \in Nodes, SendFile(n) PROVE Types'
<1>1. call[n] \in Calling /\ CallOK(call[n]) /\ call[n].pc = "tell"
  BY CallFields DEF SendFile, Told
<1>2. PICK s : s = <<StreamMark>> \o Encrypted(call[n].key)
  OBVIOUS
<1>3. s \in Seq(Sent) /\ s # <<>>
  <2>1. call[n].key \in Keys
    BY <1>1 DEF CallOK
  <2>2. s \in Seq(Sent) /\ Len(s) = 3
    BY <1>2, <2>1, StreamTypes
  <2> QED
    BY <2>2, EmptySeq
<1>4. PICK c : c = IF Peers(n) = {} THEN NoCall
                   ELSE [call[n] EXCEPT !.pc = "stream", !.to = Peers(n),
                                        !.todo = s]
  OBVIOUS
<1>5. c \in Calling /\ CallOK(c)
  BY <1>1, <1>3, <1>4, IdleTypes DEF Calling, CallOK, Peers
<1>6. call' = [call EXCEPT ![n] = c]
  BY <1>2, <1>4 DEF SendFile
<1> QED
  BY <1>5, <1>6, TypesCallOnly DEF SendFile

\* One write to some of the nodes.
LEMMA WrittenToAll ==
  ASSUME Types, NEW n \in Nodes, NEW x \in Sent, NEW peers,
         wire' = [wire EXCEPT ![n] =
           [m \in Nodes |-> IF m \in peers THEN Append(wire[n][m], x)
                            ELSE wire[n][m]]]
  PROVE /\ WireTypes'
        /\ \A a, b \in Nodes : wire'[a][b] =
             IF a = n /\ b \in peers THEN Append(wire[a][b], x) ELSE wire[a][b]
<1>1. \A a, b \in Nodes :
        wire[a][b] \in Seq(Sent) /\ Append(wire[a][b], x) \in Seq(Sent)
  BY DEF Types, WireTypes
<1>2. PICK f : f = [m \in Nodes |-> IF m \in peers THEN Append(wire[n][m], x)
                                    ELSE wire[n][m]]
  OBVIOUS
<1>3. f \in [Nodes -> Seq(Sent)]
  BY <1>1, <1>2
<1>4. /\ wire' \in [Nodes -> [Nodes -> Seq(Sent)]]
      /\ \A a \in Nodes : wire'[a] = IF a = n THEN f ELSE wire[a]
  BY <1>2, <1>3 DEF Types, WireTypes
<1> QED
  BY <1>2, <1>4 DEF WireTypes

LEMMA StreamTodo ==
  ASSUME Types, NEW n \in Nodes, call[n].pc = "stream"
  PROVE /\ call[n].todo \in Seq(Sent) /\ call[n].todo # <<>>
        /\ Head(call[n].todo) \in Sent /\ Tail(call[n].todo) \in Seq(Sent)
<1>1. call[n].todo \in Seq(Sent) /\ call[n].todo # <<>>
  BY CallFields DEF Calling, CallOK
<1> QED
  BY <1>1

LEMMA TypesStreamPiece ==
  ASSUME Types, NEW n \in Nodes, StreamPiece(n) PROVE Types'
<1>1. call[n] \in Calling /\ CallOK(call[n]) /\ call[n].pc = "stream"
  BY CallFields DEF StreamPiece
<1>2. PICK x, rest : x = Head(call[n].todo) /\ rest = Tail(call[n].todo)
  OBVIOUS
<1>3. x \in Sent /\ rest \in Seq(Sent)
  BY <1>1, <1>2, StreamTodo
<1>4. CallTypes'
  <2>1. PICK c : c \in {NoCall, [call[n] EXCEPT !.todo = rest]}
                 /\ (c # NoCall => rest # <<>>)
                 /\ call' = [call EXCEPT ![n] = c]
    <3>1. call' = [call EXCEPT ![n] = IF rest = <<>> THEN NoCall
                     ELSE [call[n] EXCEPT !.todo = rest]]
          \/ call' = [call EXCEPT ![n] = NoCall]
      BY <1>2 DEF StreamPiece
    <3> QED
      BY <3>1
  <2>2. c \in Calling /\ CallOK(c)
    BY <1>1, <1>3, <2>1, IdleTypes DEF Calling, CallOK
  <2> QED
    BY <2>1, <2>2, CallChanges
<1>5. WireTypes'
  <2> DEFINE to(peers) ==
        wire' = [wire EXCEPT ![n] =
          [m \in Nodes |-> IF m \in peers THEN Append(wire[n][m], x)
                           ELSE wire[n][m]]]
  <2>1. PICK peers : to(peers)
    <3>1. to({m \in call[n].to : Alive(n, m)})
          \/ \E peers \in SUBSET {m \in call[n].to : Alive(n, m)} : to(peers)
      BY <1>2 DEF StreamPiece
    <3> HIDE DEF to
    <3> QED
      BY <3>1
  <2> QED
    BY <1>3, <2>1, WrittenToAll
<1> QED
  BY <1>4, <1>5
  DEF StreamPiece, net, links, Types, NetTypes, ReaderTypes, Joined, QueueTypes,
      WorkTypes, DiskTypes

LEMMA TypesAsks ==
  ASSUME Types, NEW n \in Nodes,
         AskPeers(n) \/ GetEnds(n) \/ \E m \in Nodes : Choose(n, m)
  PROVE Types'
<1>1. call[n] \in Calling /\ CallOK(call[n])
  BY CallFields
<1>2. CASE AskPeers(n)
  <2>1. PICK c : c = [call[n] EXCEPT !.pc = "ask", !.to = Peers(n)]
    OBVIOUS
  <2>2. c \in Calling /\ CallOK(c)
    BY <1>1, <1>2, <2>1 DEF Calling, CallOK, Peers, AskPeers, Told
  <2>3. call' = [call EXCEPT ![n] = c]
    BY <1>2, <2>1 DEF AskPeers, Types, CallTypes
  <2> QED
    BY <1>2, <2>2, <2>3, TypesCallOnly DEF AskPeers, net
<1>3. CASE GetEnds(n)
  BY <1>3, IdleTypes, TypesCallOnly DEF GetEnds, net
<1>4. ASSUME NEW m \in Nodes, Choose(n, m) PROVE Types'
  <2>1. PICK c : c = [call[n] EXCEPT !.at = m, !.to = @ \ {m}]
    OBVIOUS
  <2>2. c \in Calling /\ CallOK(c)
    BY <1>1, <1>4, <2>1 DEF Calling, CallOK
  <2>3. call' = [call EXCEPT ![n] = c]
    BY <1>4, <2>1 DEF Choose, Types, CallTypes
  <2> QED
    BY <1>4, <2>2, <2>3, TypesCallOnly DEF Choose, net
<1> QED
  BY <1>2, <1>3, <1>4

\* The next piece that has arrived.
LEMMA Read1 ==
  ASSUME Types, NEW n \in Nodes, NEW m \in Nodes, Arrived(n, m), Drain(n, m, 1)
  PROVE /\ WireTypes' /\ Next1(n, m) = wire[m][n][1] /\ Next1(n, m) \in Sent
        /\ wire[m][n] \in Seq(Sent) /\ Len(wire[m][n]) > 0
        /\ wire'[m][n] \in Seq(Sent)
        /\ Len(wire'[m][n]) = Len(wire[m][n]) - 1
        /\ \A i \in 1..Len(wire'[m][n]) : wire'[m][n][i] = wire[m][n][i + 1]
        /\ \A a, b \in Nodes : a # m \/ b # n => wire'[a][b] = wire[a][b]
<1>1. 1 \in 1..Len(wire[m][n])
  BY Arrival
<1>2. wire[m][n] \in Seq(Sent)
  BY DEF Types, WireTypes
<1>3. /\ WireTypes' /\ Next1(n, m) = wire[m][n][1] /\ Next1(n, m) \in Sent
      /\ wire'[m][n] \in Seq(Sent)
      /\ Len(wire'[m][n]) = Len(wire[m][n]) - 1
      /\ \A i \in 1..Len(wire'[m][n]) : wire'[m][n][i] = wire[m][n][i + 1]
      /\ \A a, b \in Nodes : a # m \/ b # n => wire'[a][b] = wire[a][b]
  BY <1>1, Drained
<1>4. Len(wire[m][n]) > 0
  BY <1>1, <1>2
<1> QED
  BY <1>2, <1>3, <1>4

\* A piece is added to a copy.
Grows(n, f, x) == disk' = [disk EXCEPT ![n][f].data = Append(@, x)]
LEMMA CopyGrows ==
  ASSUME Types, NEW n \in Nodes, NEW f \in Files, NEW x \in Sent,
         Grows(n, f, x)
  PROVE /\ DiskTypes'
        /\ disk'[n][f].there = disk[n][f].there
        /\ disk'[n][f].data = Append(disk[n][f].data, x)
        /\ \A a \in Nodes : \A e \in Files :
             a # n \/ e # f => disk'[a][e] = disk[a][e]
<1>1. PICK d : d = disk[n][f]
  OBVIOUS
<1>2. d \in Copy
  BY <1>1, CopyFields
<1>3. PICK y : y = [d EXCEPT !.data = Append(d.data, x)]
  OBVIOUS
<1>4. y \in Copy /\ y.there = d.there /\ y.data = Append(d.data, x)
  <2>1. d = [there |-> d.there, data |-> d.data] /\ d.there \in BOOLEAN
        /\ d.data \in Seq(Sent)
    BY <1>2 DEF Copy
  <2>2. y = [there |-> d.there, data |-> Append(d.data, x)]
    BY <1>3, <2>1
  <2>3. Append(d.data, x) \in Seq(Sent)
    BY <2>1
  <2> QED
    BY <2>1, <2>2, <2>3 DEF Copy
<1>5. disk' = [disk EXCEPT ![n][f] = y]
  BY <1>1, <1>3 DEF Grows
<1>6. /\ DiskTypes'
      /\ \A a \in Nodes : \A e \in Files :
           disk'[a][e] = IF a = n /\ e = f THEN y ELSE disk[a][e]
  BY <1>4, <1>5 DEF Types, DiskTypes
<1> QED
  BY <1>1, <1>4, <1>6

LEMMA AskFields ==
  ASSUME Types, NEW n \in Nodes, call[n].pc # "idle"
  PROVE <<n, call[n].key>> \in Files
  BY CallFields DEF CallOK, Files

LEMMA TypesReadSize ==
  ASSUME Types, NEW n \in Nodes, NEW m \in Nodes, ReadSize(n, m) PROVE Types'
<1>1. /\ call[n] \in Calling /\ CallOK(call[n]) /\ call[n].pc = "ask"
      /\ <<n, call[n].key>> \in Files
  BY CallFields, AskFields DEF ReadSize, Asking
<1>2. PICK x : x = Next1(n, m)
  OBVIOUS
<1>3. CASE Arrived(n, m) /\ Drain(n, m, 1)
  <2>1. WireTypes' /\ x \in Sent
    BY <1>2, <1>3, Read1
  <2>2. x.size \in Nat
    BY <2>1 DEF Sent, Pieces
  <2>3. PICK c : /\ c \in {NoCall, [call[n] EXCEPT !.want = x.size],
                           [call[n] EXCEPT !.pc = "lost"]}
                 /\ call' = [call EXCEPT ![n] = c]
    <3>1. \/ call' = [call EXCEPT ![n] = NoCall]
          \/ call' = [call EXCEPT ![n] = [call[n] EXCEPT !.want = x.size]]
          \/ call' = [call EXCEPT ![n].pc = "lost"]
          \/ call' = [call EXCEPT ![n].at = None]
             /\ Ended(n, m)
      BY <1>2 DEF ReadSize
    <3>2. ~Ended(n, m)
      BY <1>3 DEF Ended, Arrived
    <3>3. [call EXCEPT ![n].pc = "lost"] =
            [call EXCEPT ![n] = [call[n] EXCEPT !.pc = "lost"]]
      BY DEF Types, CallTypes
    <3> QED
      BY <3>1, <3>2, <3>3
  <2>4. c \in Calling /\ CallOK(c)
    BY <1>1, <2>2, <2>3, IdleTypes DEF Calling, CallOK
  <2>5. CallTypes'
    BY <2>3, <2>4, CallChanges
  <2>6. DiskTypes'
    <3>1. CASE UNCHANGED disk
      BY <3>1 DEF Types, DiskTypes
    <3>2. CASE disk' = [disk EXCEPT ![n][<<n, call[n].key>>] = File(<<>>)]
      <4>1. File(<<>>) \in Copy
        BY DEF File, Copy
      <4> QED
        BY <1>1, <3>2, <4>1, DiskChanges
    <3> QED
      BY <3>1, <3>2 DEF ReadSize
  <2> QED
    BY <2>1, <2>5, <2>6
    DEF ReadSize, net, links, Types, NetTypes, ReaderTypes, Joined, QueueTypes,
        WorkTypes
<1>4. CASE call' = [call EXCEPT ![n].at = None] /\ UNCHANGED <<wire, disk>>
  <2>1. PICK c : c = [call[n] EXCEPT !.at = None]
    OBVIOUS
  <2>2. c \in Calling /\ CallOK(c)
    BY <1>1, <2>1 DEF Calling, CallOK
  <2>3. call' = [call EXCEPT ![n] = c]
    BY <1>4, <2>1 DEF Types, CallTypes
  <2> QED
    BY <1>4, <2>2, <2>3, TypesCallOnly DEF ReadSize
<1> QED
  BY <1>3, <1>4 DEF ReadSize

\* The WaitGroup is closed or left alone.
LEMMA StreamMayClose ==
  ASSUME Types, NEW n \in Nodes, NEW m \in Nodes,
         CloseStream(n, m) \/ KeepStream,
         UNCHANGED <<links, reader, calls>>
  PROVE NetTypes' /\ ReaderTypes'
<1>1. CASE KeepStream
  BY <1>1 DEF KeepStream, links, Types, NetTypes, ReaderTypes, Joined
<1> QED
  BY <1>1, StreamCloses

\* Get goes on with a peer.
LEMMA CallGoesOn ==
  ASSUME Types, NEW n \in Nodes, call[n].pc # "stream",
         NEW z \in Nat, NEW y \in Nodes \cup {None},
         call' = [call EXCEPT ![n].want = z, ![n].at = y]
  PROVE /\ CallTypes' /\ call'[n] = [call[n] EXCEPT !.want = z, !.at = y]
        /\ \A a \in Nodes : a # n => call'[a] = call[a]
<1>1. PICK c : c = [call[n] EXCEPT !.want = z, !.at = y]
  OBVIOUS
<1>2. c \in Calling /\ CallOK(c)
  <2>1. PICK b : b = call[n]
    OBVIOUS
  <2>2. b \in Calling /\ CallOK(b) /\ b.pc # "stream"
    BY <2>1, CallFields
  <2>3. c = [b EXCEPT !.want = z, !.at = y]
    BY <1>1, <2>1
  <2>4. c \in Calling
    BY <2>2, <2>3 DEF Calling
  <2>5. c.pc = b.pc /\ c.key = b.key
    BY <2>2, <2>3 DEF Calling
  <2> QED
    BY <2>2, <2>4, <2>5 DEF CallOK
<1>3. call' = [call EXCEPT ![n] = c]
  BY <1>1 DEF Types, CallTypes
<1>4. CallTypes' /\ \A a \in Nodes : call'[a] = IF a = n THEN c ELSE call[a]
  BY <1>2, <1>3, CallChanges
<1> QED
  BY <1>1, <1>4

LEMMA TypesReadData ==
  ASSUME Types, NEW n \in Nodes, NEW m \in Nodes, ReadData(n, m) PROVE Types'
<1>1. /\ call[n] \in Calling /\ CallOK(call[n]) /\ call[n].pc = "ask"
      /\ <<n, call[n].key>> \in Files /\ call[n].want > 0
  BY CallFields, AskFields DEF ReadData, Asking
<1>2. NetTypes' /\ ReaderTypes'
  <2>1. CloseStream(n, m) \/ KeepStream
    BY DEF ReadData
  <2>2. UNCHANGED <<links, reader, calls>>
    BY DEF ReadData
  <2> QED
    BY <2>1, <2>2, StreamMayClose
<1>3. CallTypes'
  <2>1. \/ call' = [call EXCEPT ![n] = NoCall]
        \/ call' = [call EXCEPT ![n].want = 0, ![n].at = None]
        \/ call' = [call EXCEPT ![n].want = @ - 1, ![n].at = None]
        \/ call' = [call EXCEPT ![n].want = @ - 1, ![n].at = m]
    BY DEF ReadData
  <2>2. PICK z : z = call[n].want - 1
    OBVIOUS
  <2>3. z \in Nat /\ 0 \in Nat /\ call[n].pc # "stream"
    BY <1>1, <2>2 DEF Calling
  <2>4. CASE call' = [call EXCEPT ![n] = NoCall]
    BY <2>4, IdleTypes, CallChanges
  <2>5. CASE call' = [call EXCEPT ![n].want = 0, ![n].at = None]
    BY <2>3, <2>5, CallGoesOn
  <2>6. CASE call' = [call EXCEPT ![n].want = @ - 1, ![n].at = None]
    <3>1. call' = [call EXCEPT ![n].want = z, ![n].at = None]
      BY <2>2, <2>6
    <3> QED
      BY <2>3, <3>1, CallGoesOn
  <2>7. CASE call' = [call EXCEPT ![n].want = @ - 1, ![n].at = m]
    <3>1. call' = [call EXCEPT ![n].want = z, ![n].at = m]
      BY <2>2, <2>7
    <3> QED
      BY <2>3, <3>1, CallGoesOn
  <2> QED
    BY <2>1, <2>4, <2>5, <2>6, <2>7
<1>4. WireTypes' /\ DiskTypes'
  <2>1. CASE UNCHANGED <<wire, disk>>
    BY <2>1 DEF Types, WireTypes, DiskTypes
  <2>2. CASE /\ Arrived(n, m) /\ Drain(n, m, 1)
             /\ Grows(n, <<n, call[n].key>>, Next1(n, m))
    BY <1>1, <2>2, Read1, CopyGrows
  <2> QED
    BY <2>1, <2>2 DEF ReadData, Grows
<1> QED
  BY <1>2, <1>3, <1>4 DEF ReadData, Types, QueueTypes, WorkTypes

\* The message that the loop takes.
LEMMA QueueFields ==
  ASSUME Types, NEW n \in Nodes, queue[n] # <<>>
  PROVE /\ queue[n] \in Seq(Message) /\ Head(queue[n]) \in Message
        /\ Head(queue[n]) = queue[n][1] /\ Len(queue[n]) > 0
        /\ Tail(queue[n]) \in Seq(Message)
        /\ <<Head(queue[n]).from, Head(queue[n]).key>> \in Files
<1>1. queue[n] \in Seq(Message)
  BY DEF Types, QueueTypes
<1>2. Head(queue[n]) \in Message
  BY <1>1
<1> QED
  BY <1>1, <1>2 DEF Message, Files

LEMMA ServedTypes ==
  ASSUME NEW k \in Keys, NEW d \in Seq(Sent)
  PROVE /\ Served(k, d) \in Seq(Sent) /\ Len(Served(k, d)) = Len(d) + 2
        /\ Served(k, d)[1] = StreamMark
        /\ Served(k, d)[2] = Piece("size", k, Len(d))
        /\ \A i \in 1..Len(d) : Served(k, d)[i + 2] = d[i]
<1>1. PICK x, y : x = StreamMark /\ y = Piece("size", k, Len(d))
  OBVIOUS
<1>2. x \in Sent /\ y \in Sent
  BY <1>1, SentPieces
<1>3. Served(k, d) = <<x, y>> \o d
  BY <1>1 DEF Served
<1> QED
  BY <1>1, <1>2, <1>3

LEMMA TypesDispatch ==
  ASSUME Types, NEW n \in Nodes, Dispatch(n) PROVE Types'
<1>1. PICK x, f : x = Head(queue[n]) /\ f = <<x.from, x.key>>
  OBVIOUS
<1>2. /\ x \in Message /\ f \in Files /\ Tail(queue[n]) \in Seq(Message)
      /\ queue' = [queue EXCEPT ![n] = Tail(queue[n])]
  BY <1>1, QueueFields DEF Dispatch
<1>3. QueueTypes'
  BY <1>2, QueueChanges
<1>4. CASE /\ disk' = [disk EXCEPT ![n][f] = Opened(disk[n][f])]
           /\ handler' = [handler EXCEPT ![n] =
                [NoWork EXCEPT !.pc = "store", !.from = x.from, !.key = x.key,
                               !.want = x.size]]
  <2>1. Opened(disk[n][f]) \in Copy
    BY DEF Opened, File, Copy
  <2>2. DiskTypes'
    BY <1>2, <1>4, <2>1, DiskChanges
  <2>3. PICK h : h = [NoWork EXCEPT !.pc = "store", !.from = x.from,
                                    !.key = x.key, !.want = x.size]
    OBVIOUS
  <2>4. h \in Work /\ WorkOK(h)
    <3>1. h = [pc |-> "store", from |-> x.from, key |-> x.key, todo |-> <<>>,
               want |-> x.size]
      BY <2>3 DEF NoWork
    <3>2. x.from \in Nodes /\ x.key \in Keys /\ x.size = 2
      BY <1>2 DEF Message
    <3>3. h \in Work
      BY <3>1, <3>2 DEF Work
    <3> QED
      BY <3>1, <3>2, <3>3 DEF WorkOK
  <2>5. WorkTypes'
    <3>1. handler' = [handler EXCEPT ![n] = h]
      BY <1>4, <2>3
    <3> QED
      BY <2>4, <3>1, WorkChanges
  <2> QED
    BY <1>3, <2>2, <2>5
    DEF Dispatch, net, links, Types, NetTypes, WireTypes, ReaderTypes, Joined,
        CallTypes
<1>5. CASE /\ UNCHANGED disk
           /\ handler' = [handler EXCEPT ![n] =
                IF ~disk[n][f].there THEN NoWork
                ELSE [NoWork EXCEPT !.pc = "get", !.from = x.from,
                                    !.todo = Served(x.key, disk[n][f].data)]]
  <2>1. PICK h : h = IF ~disk[n][f].there THEN NoWork
                     ELSE [NoWork EXCEPT !.pc = "get", !.from = x.from,
                             !.todo = Served(x.key, disk[n][f].data)]
    OBVIOUS
  <2>2. disk[n][f].data \in Seq(Sent) /\ x.key \in Keys /\ x.from \in Nodes
    BY <1>2, CopyFields DEF Copy, Message
  <2>3. PICK s : s = Served(x.key, disk[n][f].data)
    OBVIOUS
  <2>4. s \in Seq(Sent) /\ s # <<>>
    <3>1. s \in Seq(Sent) /\ Len(s) = Len(disk[n][f].data) + 2
      BY <2>2, <2>3, ServedTypes
    <3>2. Len(disk[n][f].data) \in Nat
      BY <2>2
    <3> QED
      BY <3>1, <3>2
  <2>5. h \in Work /\ WorkOK(h)
    <3>1. CASE h = NoWork
      BY <3>1, IdleTypes
    <3>2. CASE h = [pc |-> "get", from |-> x.from, key |-> None, todo |-> s,
                    want |-> 0]
      BY <2>2, <2>4, <3>2 DEF Work, WorkOK
    <3> QED
      BY <2>1, <2>3, <3>1, <3>2 DEF NoWork
  <2>6. WorkTypes'
    <3>1. handler' = [handler EXCEPT ![n] = h]
      BY <1>5, <2>1
    <3> QED
      BY <2>5, <3>1, WorkChanges
  <2> QED
    BY <1>3, <1>5, <2>6
    DEF Dispatch, net, links, Types, NetTypes, WireTypes, ReaderTypes, Joined,
        CallTypes, DiskTypes
<1> QED
  BY <1>1, <1>4, <1>5 DEF Dispatch

LEMMA TypesStoreData ==
  ASSUME Types, NEW n \in Nodes, StoreData(n) PROVE Types'
<1>1. PICK m, f : m = handler[n].from /\ f = <<m, handler[n].key>>
  OBVIOUS
<1>2. /\ handler[n] \in Work /\ WorkOK(handler[n]) /\ handler[n].pc = "store"
      /\ m \in Nodes /\ f \in Files
  BY <1>1, WorkFields DEF StoreData, WorkOK, Files
<1>3. NetTypes' /\ ReaderTypes'
  <2>1. CloseStream(n, m) \/ KeepStream
    BY <1>1 DEF StoreData
  <2>2. UNCHANGED <<links, reader, calls>>
    BY DEF StoreData
  <2> QED
    BY <1>2, <2>1, <2>2, StreamMayClose
<1>4. WorkTypes'
  <2>1. PICK h : /\ h \in {NoWork, [handler[n] EXCEPT !.want = @ - 1]}
                 /\ (h # NoWork => handler[n].want # 1)
                 /\ handler' = [handler EXCEPT ![n] = h]
    <3>1. \/ handler' = [handler EXCEPT ![n] = NoWork]
          \/ /\ handler[n].want # 1
             /\ handler' = [handler EXCEPT ![n] =
                  [handler[n] EXCEPT !.want = @ - 1]]
      BY DEF StoreData
    <3> QED
      BY <3>1
  <2>2. h \in Work /\ WorkOK(h)
    BY <1>2, <2>1, IdleTypes DEF Work, WorkOK
  <2> QED
    BY <2>1, <2>2, WorkChanges
<1>5. WireTypes' /\ DiskTypes'
  <2>1. CASE UNCHANGED <<wire, disk>>
    BY <2>1 DEF Types, WireTypes, DiskTypes
  <2>2. CASE /\ Arrived(n, m) /\ Drain(n, m, 1)
             /\ Grows(n, f, Next1(n, m))
    BY <1>2, <2>2, Read1, CopyGrows
  <2> QED
    BY <1>1, <2>1, <2>2 DEF StoreData, Grows
<1> QED
  BY <1>3, <1>4, <1>5 DEF StoreData, Types, QueueTypes, CallTypes

LEMMA TypesServePiece ==
  ASSUME Types, NEW n \in Nodes, ServePiece(n) PROVE Types'
<1>1. PICK m, s : m = handler[n].from /\ s = handler[n].todo
  OBVIOUS
<1>2. /\ handler[n] \in Work /\ WorkOK(handler[n]) /\ handler[n].pc = "get"
      /\ m \in Nodes /\ s \in Seq(Sent) /\ s # <<>>
  BY <1>1, WorkFields DEF ServePiece, WorkOK, Work
<1>3. Head(s) \in Sent /\ Tail(s) \in Seq(Sent)
  BY <1>2
<1>4. WorkTypes'
  <2>1. PICK h : /\ h \in {NoWork, [handler[n] EXCEPT !.todo = Tail(s)]}
                 /\ (h # NoWork => Tail(s) # <<>>)
                 /\ handler' = [handler EXCEPT ![n] = h]
    <3>1. handler' = [handler EXCEPT ![n] = IF Tail(s) = <<>> THEN NoWork
                        ELSE [handler[n] EXCEPT !.todo = Tail(s)]]
          \/ handler' = [handler EXCEPT ![n] = NoWork]
      BY <1>1 DEF ServePiece
    <3> QED
      BY <3>1
  <2>2. h \in Work /\ WorkOK(h)
    BY <1>2, <1>3, <2>1, IdleTypes DEF Work, WorkOK
  <2> QED
    BY <2>1, <2>2, WorkChanges
<1>5. WireTypes'
  <2>1. CASE UNCHANGED wire
    BY <2>1 DEF Types, WireTypes
  <2>2. CASE Write(n, m, Head(s))
    BY <1>2, <1>3, <2>2, Written
  <2> QED
    BY <1>1, <2>1, <2>2 DEF ServePiece
<1> QED
  BY <1>4, <1>5
  DEF ServePiece, net, links, Types, NetTypes, ReaderTypes, Joined, QueueTypes,
      CallTypes, DiskTypes

LEMMA ConnEnds ==
  ASSUME NEW c \in Conns
  PROVE c[1] \in Nodes /\ c[2] \in Nodes /\ {c[1], c[2]} \in Links
  BY DEF Conns

\* Every step is one of these, between nodes that may connect where two are
\* concerned.
LEMMA Steps ==
  ASSUME Next
  PROVE \/ \E n, m \in Nodes :
             /\ {n, m} \in Links
             /\ \/ Peek(n, m) \/ Body(n, m) \/ Park(n, m) \/ Resume(n, m)
                   \/ EndRead(n, m)
                \/ Connect(n, m)
                \/ Break(n, m)
        \/ \E n \in Nodes :
             \/ SendFile(n)
             \/ StreamPiece(n)
             \/ AskPeers(n) \/ GetEnds(n) \/ \E m \in Nodes : Choose(n, m)
             \/ Dispatch(n)
             \/ StoreData(n)
             \/ ServePiece(n)
        \/ \E n, m \in Nodes : Tell(n, m) \/ ReadSize(n, m) \/ ReadData(n, m)
        \/ \E n \in Nodes, k \in Keys :
             StoreStarts(n, k) \/ GetStarts(n, k) \/ FileLost(n, k)
<1>1. ASSUME NEW c \in Conns, ReaderStep(c[1], c[2])
      PROVE \E n, m \in Nodes :
              /\ {n, m} \in Links
              /\ \/ Peek(n, m) \/ Body(n, m) \/ Park(n, m) \/ Resume(n, m)
                 \/ EndRead(n, m)
  BY <1>1, ConnEnds DEF ReaderStep
<1>2. ASSUME NEW c \in Conns, Connect(c[1], c[2]) \/ Break(c[1], c[2])
      PROVE \E n, m \in Nodes :
              {n, m} \in Links /\ (Connect(n, m) \/ Break(n, m))
  BY <1>2, ConnEnds
<1> QED
  BY <1>1, <1>2 DEF Next, SystemStep, CallStep, LoopStep

\* A step breaks no connection or one, and comes too early or not.
MayCount == /\ drops' = drops \/ drops' = drops + 1
            /\ \/ hurries' = hurries
               \/ hurries < MaxHurries /\ hurries' = hurries + 1
LEMMA StepsCount ==
  ASSUME Next PROVE MayCount
<1>1. ASSUME NEW n \in Nodes, NEW m \in Nodes,
             \/ Peek(n, m) \/ Body(n, m) \/ Park(n, m) \/ Resume(n, m)
                \/ EndRead(n, m)
             \/ Connect(n, m)
             \/ Break(n, m)
      PROVE MayCount
  BY <1>1 DEF Peek, Body, Park, Resume, EndRead, Connect, Break, InTime,
              MayCount, net, links
<1>2. ASSUME NEW n \in Nodes,
             \/ SendFile(n)
             \/ StreamPiece(n)
             \/ AskPeers(n) \/ GetEnds(n) \/ \E m \in Nodes : Choose(n, m)
             \/ Dispatch(n)
             \/ StoreData(n)
             \/ ServePiece(n)
      PROVE MayCount
  BY <1>2 DEF SendFile, StreamPiece, AskPeers, GetEnds, Choose, Dispatch,
              StoreData, ServePiece, Turn, InTime, MayCount, net, links
<1>3. ASSUME NEW n \in Nodes, NEW m \in Nodes,
             Tell(n, m) \/ ReadSize(n, m) \/ ReadData(n, m)
      PROVE MayCount
  BY <1>3 DEF Tell, ReadSize, ReadData, Turn, InTime, MayCount, net, links
<1>4. ASSUME NEW n \in Nodes, NEW k \in Keys,
             StoreStarts(n, k) \/ GetStarts(n, k) \/ FileLost(n, k)
      PROVE MayCount
  BY <1>4 DEF StoreStarts, GetStarts, FileLost, InTime, MayCount, net, links
<1> QED
  BY <1>1, <1>2, <1>3, <1>4, Steps

Hurries == hurries \in 0..MaxHurries
LEMMA HurriesCounted == Spec => []Hurries
<1>1. Init => Hurries
  BY BoundsAreNumbers DEF Init, Hurries
<1>2. Hurries /\ [Next]_vars => Hurries'
  BY StepsCount, BoundsAreNumbers DEF MayCount, Hurries, vars, net
<1> QED
  BY <1>1, <1>2, PTL DEF Spec

LEMMA TypesStep == Types /\ [Next]_vars => Types'
<1> SUFFICES ASSUME Types, [Next]_vars PROVE Types'
  OBVIOUS
<1>1. CASE UNCHANGED vars
  BY <1>1
  DEF vars, net, links, Types, NetTypes, WireTypes, ReaderTypes, Joined,
      QueueTypes,
      WorkTypes, CallTypes, DiskTypes
<1>2. ASSUME NEW n \in Nodes, NEW m \in Nodes, {n, m} \in Links,
             \/ Peek(n, m) \/ Body(n, m) \/ Park(n, m) \/ Resume(n, m)
                \/ EndRead(n, m)
             \/ Connect(n, m)
             \/ Break(n, m)
      PROVE Types'
  BY <1>2, TypesReader, TypesConnect, TypesBreak
<1>3. ASSUME NEW n \in Nodes,
             \/ SendFile(n)
             \/ StreamPiece(n)
             \/ AskPeers(n) \/ GetEnds(n) \/ \E m \in Nodes : Choose(n, m)
             \/ Dispatch(n)
             \/ StoreData(n)
             \/ ServePiece(n)
      PROVE Types'
  BY <1>3, TypesSendFile, TypesStreamPiece, TypesAsks, TypesDispatch,
     TypesStoreData, TypesServePiece
<1>4. ASSUME NEW n \in Nodes, NEW m \in Nodes,
             Tell(n, m) \/ ReadSize(n, m) \/ ReadData(n, m)
      PROVE Types'
  BY <1>4, TypesTell, TypesReadSize, TypesReadData
<1>5. ASSUME NEW n \in Nodes, NEW k \in Keys,
             StoreStarts(n, k) \/ GetStarts(n, k) \/ FileLost(n, k)
      PROVE Types'
  BY <1>5, TypesStarts
<1> QED
  BY <1>1, <1>2, <1>3, <1>4, <1>5, Steps

LEMMA TypesAlways == Spec => []Types
<1> QED
  BY TypesInit, TypesStep, PTL DEF Spec


LEMMA SentSequences == ASSUME NEW s \in Seq(Sent) PROVE s \in Seq(Pieces)
<1>1. PICK n \in Nat : s \in [1..n -> Sent]
  BY SeqDef
<1>2. s \in [1..n -> Pieces]
  BY <1>1 DEF Sent
<1> QED
  BY <1>2, SeqDef

\* TypeOK is the part of Types that a run checks: the bounds, the connections,
\* what is on the wires and on the disks, and what every goroutine is doing.
THEOREM TypeCorrect == Spec => []TypeOK
<1>1. Types /\ Hurries => TypeOK
  <2> SUFFICES ASSUME Types, Hurries PROVE TypeOK
    OBVIOUS
  <2>1. wire \in [Nodes -> [Nodes -> Seq(Pieces)]]
    BY SentSequences DEF Types, WireTypes
  <2>2. ASSUME NEW n \in Nodes
        PROVE /\ \A i \in DOMAIN queue[n] : queue[n][i] \in
                   [from : Nodes, is : {"store", "get"}, key : Keys, size : Nat]
              /\ handler[n].pc \in {"idle", "store", "get"}
              /\ call[n].pc \in {"idle", "tell", "stream", "ask", "lost"}
              /\ \A f \in Files : disk[n][f].data \in Seq(Pieces)
    <3>1. queue[n] \in Seq(Message)
      BY DEF Types, QueueTypes
    <3>2. ASSUME NEW i \in DOMAIN queue[n]
          PROVE queue[n][i] \in
                  [from : Nodes, is : {"store", "get"}, key : Keys, size : Nat]
      <4>1. queue[n][i] \in Message
        BY <3>1, <3>2
      <4> QED
        BY <4>1 DEF Message
    <3>3. handler[n].pc \in {"idle", "store", "get"}
      BY WorkFields DEF Work
    <3>4. call[n].pc \in {"idle", "tell", "stream", "ask", "lost"}
      BY CallFields DEF Calling
    <3>5. ASSUME NEW f \in Files PROVE disk[n][f].data \in Seq(Pieces)
      BY CopyFields, SentSequences DEF Copy
    <3> QED
      BY <3>2, <3>3, <3>4, <3>5
  <2> QED
    BY <2>1, <2>2 DEF TypeOK, Types, NetTypes, ReaderTypes, Reading, Hurries
<1> QED
  BY <1>1, TypesAlways, HurriesCounted, PTL

-----------------------------------------------------------------------------
(* The pieces on a wire, and what is left of them.                          *)

LEMMA CarriesNothing == ASSUME NEW p, NEW s PROVE Carries(<<>>, p, s)
<1>1. DOMAIN <<>> = {}
  OBVIOUS
<1> QED
  BY <1>1 DEF Carries

LEMMA CarriesFirst ==
  ASSUME NEW w \in Seq(Sent), w # <<>>, NEW p \in Int, NEW s, Carries(w, p, s)
  PROVE w[1] = s[p]
<1>1. 1 \in DOMAIN w
  OBVIOUS
<1>2. w[1] = s[p - 1 + 1]
  BY <1>1 DEF Carries
<1>3. p - 1 + 1 = p
  OBVIOUS
<1> QED
  BY <1>2, <1>3

LEMMA CarriesRest ==
  ASSUME NEW w \in Seq(Sent), NEW v \in Seq(Sent), Len(v) = Len(w) - 1,
         \A i \in 1..Len(v) : v[i] = w[i + 1],
         NEW p \in Int, NEW s, Carries(w, p, s)
  PROVE Carries(v, p - 1, s)
<1> SUFFICES ASSUME NEW i \in DOMAIN v PROVE v[i] = s[p - 1 - i + 1]
  BY DEF Carries
<1>1. i \in 1..Len(v) /\ i + 1 \in DOMAIN w /\ i \in Int
  OBVIOUS
<1>2. v[i] = w[i + 1]
  BY <1>1
<1>3. w[i + 1] = s[p - (i + 1) + 1]
  BY <1>1 DEF Carries
<1>4. p - (i + 1) + 1 = p - 1 - i + 1
  BY <1>1
<1> QED
  BY <1>2, <1>3, <1>4

LEMMA CarriesMore ==
  ASSUME NEW w \in Seq(Sent), NEW x \in Sent, NEW p \in Int, NEW s,
         Carries(w, p, s), x = s[p - Len(w)]
  PROVE Carries(Append(w, x), p, s)
<1>1. PICK v : v = Append(w, x)
  OBVIOUS
<1>2. /\ v \in Seq(Sent) /\ DOMAIN v = 1..(Len(w) + 1) /\ Len(w) \in Nat
      /\ v[Len(w) + 1] = x /\ \A i \in 1..Len(w) : v[i] = w[i]
  BY <1>1
<1>3. ASSUME NEW i \in DOMAIN v PROVE v[i] = s[p - i + 1]
  <2>1. CASE i = Len(w) + 1
    <3>1. p - i + 1 = p - Len(w)
      BY <1>2, <2>1
    <3> QED
      BY <1>2, <2>1, <3>1
  <2>2. CASE i \in 1..Len(w)
    <3>1. i \in DOMAIN w
      BY <2>2
    <3> QED
      BY <1>2, <2>2, <3>1 DEF Carries
  <2> QED
    BY <1>2, <2>1, <2>2
<1> QED
  BY <1>1, <1>3 DEF Carries

\* What is not on the wire does not matter.
LEMMA CarriesAlso ==
  ASSUME NEW w \in Seq(Sent), NEW p \in Int, NEW s, Carries(w, p, s), NEW z,
         \A i \in (p - Len(w) + 1)..p : z[i] = s[i]
  PROVE Carries(w, p, z)
<1> SUFFICES ASSUME NEW i \in DOMAIN w PROVE w[i] = z[p - i + 1]
  BY DEF Carries
<1>1. i \in 1..Len(w) /\ Len(w) \in Nat
  OBVIOUS
<1>2. p - i + 1 \in (p - Len(w) + 1)..p
  BY <1>1
<1> QED
  BY <1>2 DEF Carries

LEMMA Tokens ==
  ASSUME NEW a, NEW b, NEW s, s = StoreTokens(a, b)
  PROVE /\ s[8] = StreamMark /\ s[7] = Piece("iv", a, 0)
        /\ s[6] = Piece("data", a, 0) /\ s[5] = MessageMark
        /\ s[4] = Piece("store", b, 2) /\ s[3] = StreamMark
        /\ s[2] = Piece("iv", b, 0) /\ s[1] = Piece("data", b, 0)
<1> HIDE DEF Piece, StreamMark, MessageMark
<1> QED
  BY DEF StoreTokens

LEMMA GetTokens ==
  ASSUME NEW k
  PROVE /\ AskTokens(k)[2] = MessageMark /\ AskTokens(k)[1] = Piece("get", k, 2)
        /\ ReplyTokens(k)[4] = StreamMark
        /\ ReplyTokens(k)[3] = Piece("size", k, 2)
        /\ ReplyTokens(k)[2] = Piece("iv", k, 0)
        /\ ReplyTokens(k)[1] = Piece("data", k, 0)
<1> HIDE DEF Piece, StreamMark, MessageMark
<1> QED
  BY DEF AskTokens, ReplyTokens

LEMMA Marks ==
  /\ StreamMark # MessageMark
  /\ \A is \in {"store", "get", "size", "iv", "data"} : \A k, z :
       Piece(is, k, z) # StreamMark /\ Piece(is, k, z) # MessageMark
  BY DEF StreamMark, MessageMark, Piece

-----------------------------------------------------------------------------
(* Peers.                                                                   *)

LEMMA PeersKnown ==
  ASSUME Types, NEW n \in Nodes, NEW m \in Nodes
  PROVE /\ m \in Peers(n) <=> Joined(n, m)
        /\ m \in Peers(n) <=> n \in Peers(m)
        /\ n \notin Peers(n)
        /\ Peers(n) \subseteq Nodes
        /\ m \notin Peers(n) => reader[n][m] = "none" /\ open[n][m] = 0
        /\ m \in Peers(n) => reader[n][m] # "none"
        /\ open[n][m] = 1 => reader[n][m] = "parked"
<1>1. m \in Peers(n) <=> Joined(n, m)
  BY DEF Peers, Joined
<1>2. m \in Peers(n) <=> n \in Peers(m)
  <2>1. {n, m} = {m, n}
    OBVIOUS
  <2> QED
    BY <2>1 DEF Peers
<1>3. n \notin Peers(n)
  <2>1. Joined(n, n) => {n, n} \in Links
    BY DEF Joined, Types, NetTypes
  <2>2. n \in Peers(n) => Joined(n, n)
    BY DEF Peers, Joined
  <2> QED
    BY <2>1, <2>2, LinkEnds
<1>4. /\ reader[n][m] \in Reading /\ open[n][m] \in 0..1
      /\ ReaderOK(reader[n][m], open[n][m], Joined(n, m))
  BY ReaderFields
<1>5. Peers(n) \subseteq Nodes
  BY DEF Peers
<1> QED
  BY <1>1, <1>2, <1>3, <1>4, <1>5 DEF ReaderOK

\* While connections last, nobody sees an end.
LEMMA NoEnds ==
  ASSUME Types, Net, NEW n \in Nodes, NEW m \in Peers(n)
  PROVE m \in Nodes /\ m # n /\ Alive(n, m) /\ ~Ended(n, m)
<1>1. m \in Nodes /\ {n, m} \in up
  BY DEF Peers, Net
<1>2. Alive(n, m)
  BY <1>1 DEF Net, Alive
<1> QED
  BY <1>1, <1>2, PeersKnown DEF Ended

LEMMA PeersStay ==
  ASSUME UNCHANGED <<up, broken>>
  PROVE \A n \in Nodes : Peers(n)' = Peers(n)
  BY DEF Peers

LEMMA CallsStay ==
  ASSUME StoreCalls, UNCHANGED <<up, broken, call>> PROVE StoreCalls'
  BY PeersStay DEF StoreCalls

LEMMA LoopsStay ==
  ASSUME StoreLoops, UNCHANGED <<up, broken, queue, handler, disk>>
  PROVE StoreLoops'
  BY PeersStay DEF StoreLoops

LEMMA CopiesStay ==
  ASSUME Copies, UNCHANGED disk,
         \A n \in Nodes, f \in Files : Writing(n, f) => Writing(n, f)'
  PROVE Copies'
  BY DEF Copies, CopyWhole

\* Nothing is written on a connection that is not there.
LEMMA NetStays ==
  ASSUME Types, Net, UNCHANGED <<up, broken, down>>,
         NEW n \in Nodes, NEW m \in Peers(n),
         \A a, b \in Nodes : a # m \/ b # n => wire'[a][b] = wire[a][b]
  PROVE Net'
  BY PeersStay, PeersKnown DEF Net

-----------------------------------------------------------------------------
(* Stores.  The flow of a file from m to n.                                 *)

FlowTypes(w, r, o, c, x, q, h) ==
  /\ w \in Seq(Sent) /\ r \in Reading /\ o \in 0..1 /\ (o = 1 => r = "parked")
  /\ c \in Calling /\ x \in Nat /\ q \in Seq(Message)
  /\ h \in Work /\ WorkOK(h)
  /\ CASE c.pc = "tell" -> x \in 3..5
       [] c.pc = "stream" -> x = 0 \/ (x = Len(c.todo) /\ x > 0)
       [] OTHER -> x = 0

LEMMA FlowFields ==
  ASSUME Types, NEW n \in Nodes, NEW m \in Nodes
  PROVE /\ FlowTypes(wire[m][n], reader[n][m], open[n][m], call[m],
                     Unwritten(n, call[m]), queue[n], handler[n])
        /\ CallOK(call[m])
<1>1. call[m] \in Calling /\ CallOK(call[m])
  BY CallFields
<1>2. PICK c, x : c = call[m] /\ x = Unwritten(n, call[m])
  OBVIOUS
<1>3. /\ x \in Nat
      /\ CASE c.pc = "tell" -> x \in 3..5
           [] c.pc = "stream" -> x = 0 \/ (x = Len(c.todo) /\ x > 0)
           [] OTHER -> x = 0
  <2>1. c.pc = "stream" => Len(c.todo) \in Nat /\ Len(c.todo) > 0
    BY <1>1, <1>2, EmptySeq DEF Calling, CallOK
  <2>2. CASE c.pc = "tell"
    BY <1>2, <2>2 DEF Unwritten
  <2>3. CASE c.pc = "stream"
    <3>1. x = Len(c.todo) \/ x = 0
      BY <1>2, <2>3 DEF Unwritten
    <3> QED
      BY <2>1, <2>3, <3>1
  <2>4. CASE c.pc \notin {"tell", "stream"}
    BY <1>2, <2>4 DEF Unwritten
  <2> QED
    BY <2>2, <2>3, <2>4
<1>4. wire[m][n] \in Seq(Sent) /\ queue[n] \in Seq(Message)
  BY DEF Types, WireTypes, QueueTypes
<1> QED
  BY <1>1, <1>2, <1>3, <1>4, ReaderFields, WorkFields DEF FlowTypes, ReaderOK

LEMMA FlowNumbers ==
  ASSUME NEW w, NEW r, NEW o, NEW c, NEW x, NEW q, NEW h, NEW l,
         FlowTypes(w, r, o, c, x, q, h), l = Len(w) + x
  PROVE Len(w) \in Nat /\ l \in Nat /\ Place(l) \in Nat /\ Rest(l) \in Nat
  BY DEF FlowTypes, Place, Rest

\* The reader takes a marker.
LEMMA FlowPeek ==
  ASSUME NEW m, NEW w, NEW r, NEW o, NEW c, NEW x, NEW q, NEW h, NEW a,
         FlowTypes(w, r, o, c, x, q, h), Flow(m, w, r, o, c, x, q, h, a),
         w # <<>>, r = "peek", NEW v \in Seq(Sent), Len(v) = Len(w) - 1,
         \A i \in 1..Len(v) : v[i] = w[i + 1], NEW s,
         s = CASE w[1] = StreamMark -> "marked"
               [] w[1] = MessageMark -> "body"
               [] OTHER -> "garbled"
  PROVE Flow(m, v, s, o, c, x, q, h, a)
<1>1. PICK l, z : l = Len(w) + x /\ z = StoreTokens(a, c.key)
  OBVIOUS
<1>2. /\ l \in Nat /\ Len(w) \in Nat /\ Len(w) > 0 /\ x \in Nat
      /\ Place(l) \in Int
  <2>1. Len(w) \in Nat /\ l \in Nat /\ Place(l) \in Nat
    BY <1>1, FlowNumbers
  <2>2. x \in Nat /\ Len(w) > 0
    BY EmptySeq DEF FlowTypes
  <2> QED
    BY <2>1, <2>2
<1>3. /\ l <= 8 /\ (c.pc # "tell" => l <= 3) /\ (l <= 3 /\ x > 0 => a = c.key)
      /\ Awaits(m, q, h, a, Rest(l)) /\ Stage(m, r, o, h, Rest(l))
      /\ Carries(w, Place(l), z)
  BY <1>1 DEF Flow
<1>4. l \in {3, 5, 8}
  <2>1. l \in 1..8
    BY <1>1, <1>2, <1>3
  <2>2. Rest(l) \notin {1, 2, 4}
    BY <1>3 DEF Stage, Parked
  <2>3. l = 1 \/ l = 2 \/ l = 3 \/ l = 4 \/ l = 5 \/ l = 6 \/ l = 7 \/ l = 8
    BY <2>1
  <2> QED
    BY <2>2, <2>3 DEF Rest
<1>5. w[1] = z[Place(l)]
  BY <1>2, <1>3, CarriesFirst DEF FlowTypes
<1>6. Carries(v, Place(l) - 1, z)
  BY <1>2, <1>3, CarriesRest DEF FlowTypes
<1>7. Len(v) + x = l - 1
  BY <1>1, <1>2
<1>8. l - 1 <= 8 /\ (c.pc # "tell" => l - 1 <= 3)
      /\ (l - 1 <= 3 /\ x > 0 => a = c.key)
  BY <1>2, <1>3, <1>4
<1>9. Place(l - 1) = Place(l) - 1
  BY <1>4 DEF Place
<1>10. Awaits(m, q, h, a, Rest(l - 1)) /\ Stage(m, s, o, h, Rest(l - 1))
  <2>1. CASE l = 3 \/ l = 8
    <3>1. Place(l) = 8 /\ Rest(l) = 3 /\ Rest(l - 1) = 2
      BY <2>1 DEF Place, Rest
    <3>2. s = "marked"
      <4>1. z[8] = StreamMark
        BY <1>1, Tokens
      <4>2. w[1] = StreamMark
        BY <1>5, <3>1, <4>1
      <4> QED
        BY <4>2, Marks
    <3> QED
      BY <1>3, <3>1, <3>2 DEF Awaits, Stage
  <2>2. CASE l = 5
    <3>1. Place(l) = 5 /\ Rest(l) = 0 /\ Rest(l - 1) = 4
      BY <2>2 DEF Place, Rest
    <3>2. s = "body"
      BY <1>1, <1>5, <3>1, Tokens, Marks
    <3> QED
      BY <1>3, <3>1, <3>2 DEF Awaits, Stage
  <2> QED
    BY <1>4, <2>1, <2>2
<1> QED
  BY <1>1, <1>6, <1>7, <1>8, <1>9, <1>10 DEF Flow

\* One read takes the message: nothing can have arrived behind it.
LEMMA FlowBody ==
  ASSUME NEW m \in Nodes, NEW w, NEW r, NEW o, NEW c, NEW x, NEW q, NEW h,
         NEW a, FlowTypes(w, r, o, c, x, q, h), CallOK(c),
         Flow(m, w, r, o, c, x, q, h, a), w # <<>>, r = "body",
         NEW e, e = [from |-> m, is |-> "store", key |-> c.key, size |-> 2]
  PROVE /\ Len(w) = 1 /\ w[1] = Piece("store", c.key, 2) /\ c.key \in Keys
        /\ e \in Message
        /\ \A i \in DOMAIN q : q[i].from # m
        /\ ~(h.pc = "store" /\ h.from = m)
        /\ Flow(m, <<>>, "peek", o, c, x, Append(q, e), h, c.key)
<1>1. PICK l, z : l = Len(w) + x /\ z = StoreTokens(a, c.key)
  OBVIOUS
<1>2. /\ l \in Nat /\ Len(w) \in Nat /\ Len(w) > 0 /\ x \in Nat
      /\ Place(l) \in Int
  <2>1. Len(w) \in Nat /\ l \in Nat /\ Place(l) \in Nat
    BY <1>1, FlowNumbers
  <2>2. x \in Nat /\ Len(w) > 0
    BY EmptySeq DEF FlowTypes
  <2> QED
    BY <2>1, <2>2
<1>3. /\ l <= 8 /\ (c.pc # "tell" => l <= 3) /\ (l <= 3 /\ x > 0 => a = c.key)
      /\ Awaits(m, q, h, a, Rest(l)) /\ Stage(m, r, o, h, Rest(l))
      /\ Carries(w, Place(l), z)
  BY <1>1 DEF Flow
<1>4. l = 4
  <2>1. l \in 1..8
    BY <1>1, <1>2, <1>3
  <2>2. Rest(l) \notin {0, 1, 2, 3}
    BY <1>3 DEF Stage, Parked, Resting
  <2>3. l = 1 \/ l = 2 \/ l = 3 \/ l = 4 \/ l = 5 \/ l = 6 \/ l = 7 \/ l = 8
    BY <2>1
  <2> QED
    BY <2>2, <2>3 DEF Rest
<1>5. c.pc = "tell" /\ x = 3 /\ Len(w) = 1
  <2>1. c.pc = "tell"
    BY <1>3, <1>4
  <2>2. x \in 3..5
    BY <2>1 DEF FlowTypes
  <2>3. PICK n : n = Len(w)
    OBVIOUS
  <2>4. n \in Nat /\ n > 0 /\ n + x = 4
    BY <1>1, <1>2, <1>4, <2>3
  <2>5. n = 1 /\ x = 3
    BY <2>2, <2>4
  <2> QED
    BY <2>1, <2>3, <2>5
<1>6. w[1] = Piece("store", c.key, 2)
  <2>1. w[1] = z[Place(l)]
    BY <1>2, <1>3, CarriesFirst DEF FlowTypes
  <2>2. Place(l) = 4
    BY <1>4 DEF Place
  <2> QED
    BY <1>1, <2>1, <2>2, Tokens
<1>7. c.key \in Keys /\ e \in Message
  BY <1>5 DEF CallOK, Message
<1>8. \A b \in Keys : ~Expects(m, q, h, b)
  BY <1>3, <1>4 DEF Awaits, Rest
<1>9. \A i \in DOMAIN q : q[i].from # m
  <2> SUFFICES ASSUME NEW i \in DOMAIN q, q[i].from = m PROVE FALSE
    OBVIOUS
  <2>1. q[i] \in Message
    BY DEF FlowTypes
  <2>2. q[i].key \in Keys
    BY <2>1 DEF Message
  <2> QED
    BY <1>8, <2>2 DEF Expects
<1>10. ~(h.pc = "store" /\ h.from = m)
  <2> SUFFICES ASSUME h.pc = "store", h.from = m PROVE FALSE
    OBVIOUS
  <2>1. h.key \in Keys
    BY DEF FlowTypes, WorkOK
  <2> QED
    BY <1>8, <2>1 DEF Expects
<1>11. Awaits(m, Append(q, e), h, c.key, 3)
  <2> SUFFICES ASSUME NEW b \in Keys
               PROVE Expects(m, Append(q, e), h, b) <=> b = c.key
    BY DEF Awaits
  <2>1. PICK t : t = Append(q, e)
    OBVIOUS
  <2>2. /\ Len(q) \in Nat /\ DOMAIN t = 1..(Len(q) + 1) /\ t[Len(q) + 1] = e
        /\ DOMAIN q = 1..Len(q) /\ \A i \in 1..Len(q) : t[i] = q[i]
    BY <1>7, <2>1 DEF FlowTypes
  <2>3. b = c.key => Expects(m, t, h, b)
    <3>1. Len(q) + 1 \in DOMAIN t
      BY <2>2
    <3> QED
      BY <2>2, <3>1 DEF Expects
  <2>4. ASSUME NEW i \in DOMAIN t, t[i].from = m, t[i].key = b
        PROVE b = c.key
    BY <1>9, <2>2, <2>4
  <2> QED
    BY <1>10, <2>1, <2>3, <2>4 DEF Expects
<1>12. Stage(m, "peek", o, h, 3)
  BY <1>10 DEF Stage
<1>13. Carries(<<>>, Place(3), StoreTokens(c.key, c.key))
  BY CarriesNothing
<1>14. Len(<<>>) + x = 3 /\ Rest(3) = 3
  BY <1>5 DEF Rest
<1>15. Flow(m, <<>>, "peek", o, c, x, Append(q, e), h, c.key)
  BY <1>11, <1>12, <1>13, <1>14 DEF Flow
<1> QED
  BY <1>5, <1>6, <1>7, <1>9, <1>10, <1>15

\* The reader waits at the marker, and goes on after the stream.
LEMMA FlowWaits ==
  ASSUME NEW m, NEW w, NEW r, NEW o, NEW c, NEW x, NEW q, NEW h, NEW a,
         FlowTypes(w, r, o, c, x, q, h), Flow(m, w, r, o, c, x, q, h, a)
  PROVE /\ r = "marked" => Flow(m, w, "parked", 1, c, x, q, h, a)
        /\ r = "parked" /\ o = 0 => Flow(m, w, "peek", o, c, x, q, h, a)
<1>1. PICK l : l = Len(w) + x
  OBVIOUS
<1>2. l \in Nat
  BY <1>1, FlowNumbers
<1>3. /\ l <= 8 /\ (c.pc # "tell" => l <= 3) /\ (l <= 3 /\ x > 0 => a = c.key)
      /\ Awaits(m, q, h, a, Rest(l)) /\ Stage(m, r, o, h, Rest(l))
      /\ Carries(w, Place(l), StoreTokens(a, c.key))
  BY <1>1 DEF Flow
<1>4. Rest(l) \in {0, 1, 2, 3, 4}
  <2>1. l \in 0..8
    BY <1>2, <1>3
  <2>2. \/ l = 0 \/ l = 1 \/ l = 2 \/ l = 3 \/ l = 4 \/ l = 5 \/ l = 6 \/ l = 7
        \/ l = 8
    BY <2>1
  <2> QED
    BY <2>2 DEF Rest
<1>5. r = "marked" => Stage(m, "parked", 1, h, Rest(l))
  BY <1>3, <1>4 DEF Stage, Resting, Parked
<1>6. r = "parked" /\ o = 0 => Stage(m, "peek", o, h, Rest(l))
  BY <1>3, <1>4 DEF Stage, Resting, Parked
<1> QED
  BY <1>1, <1>3, <1>5, <1>6 DEF Flow

\* A Store begins when no more than the stream of the last one is left.
LEMMA FlowBegins ==
  ASSUME NEW m, NEW w, NEW r, NEW o, NEW c, NEW x, NEW q, NEW h, NEW a,
         FlowTypes(w, r, o, c, x, q, h), Flow(m, w, r, o, c, x, q, h, a),
         c.pc = "idle", NEW d, d.pc = "tell"
  PROVE Flow(m, w, r, o, d, 5, q, h, a)
<1>1. PICK l, z, y : /\ l = Len(w) + x /\ z = StoreTokens(a, c.key)
                     /\ y = StoreTokens(a, d.key)
  OBVIOUS
<1>2. x = 0 /\ l = Len(w) /\ l \in Nat
  BY <1>1, FlowNumbers DEF FlowTypes
<1>3. /\ l <= 3
      /\ Awaits(m, q, h, a, Rest(l)) /\ Stage(m, r, o, h, Rest(l))
      /\ Carries(w, Place(l), z)
  BY <1>1 DEF Flow
<1>4. Rest(l + 5) = Rest(l) /\ Place(l + 5) = Place(l) /\ Place(l) = l + 5
  BY <1>2, <1>3 DEF Rest, Place
<1>5. Carries(w, Place(l), y)
  <2>1. ASSUME NEW i \in (Place(l) - Len(w) + 1)..Place(l) PROVE y[i] = z[i]
    <3>1. i \in 6..8
      BY <1>2, <1>3, <1>4
    <3>2. i = 6 \/ i = 7 \/ i = 8
      BY <3>1
    <3> QED
      BY <1>1, <3>2, Tokens
  <2> QED
    BY <1>2, <1>3, <1>4, <2>1, CarriesAlso DEF FlowTypes
<1>6. Len(w) + 5 = l + 5 /\ l + 5 <= 8 /\ ~(l + 5 <= 3)
  BY <1>2, <1>3
<1> QED
  BY <1>1, <1>3, <1>4, <1>5, <1>6 DEF Flow

\* The call writes its next piece.
LEMMA FlowWrites ==
  ASSUME NEW m, NEW w, NEW r, NEW o, NEW c, NEW x, NEW q, NEW h, NEW a,
         FlowTypes(w, r, o, c, x, q, h), Flow(m, w, r, o, c, x, q, h, a),
         x > 0, NEW l, l = Len(w) + x, NEW d, d.pc = "tell" \/ l <= 3,
         d.key = c.key \/ (x = 1 /\ l <= 3),
         NEW e \in Sent, e = StoreTokens(a, c.key)[Place(l) - Len(w)]
  PROVE Flow(m, Append(w, e), r, o, d, x - 1, q, h, a)
<1>1. PICK z, y, v : /\ z = StoreTokens(a, c.key) /\ y = StoreTokens(a, d.key)
                     /\ v = Append(w, e)
  OBVIOUS
<1>2. l \in Nat /\ Len(w) \in Nat /\ Place(l) \in Int /\ x \in Nat
  <2>1. l \in Nat /\ Len(w) \in Nat /\ Place(l) \in Nat
    BY FlowNumbers
  <2> QED
    BY <2>1 DEF FlowTypes
<1>3. /\ l <= 8 /\ (l <= 3 /\ x > 0 => a = c.key)
      /\ Awaits(m, q, h, a, Rest(l)) /\ Stage(m, r, o, h, Rest(l))
      /\ Carries(w, Place(l), z)
  BY <1>1 DEF Flow
<1>4. v \in Seq(Sent) /\ Len(v) = Len(w) + 1
  BY <1>1 DEF FlowTypes
<1>5. Carries(v, Place(l), z)
  BY <1>1, <1>2, <1>3, CarriesMore DEF FlowTypes
<1>6. Carries(v, Place(l), y)
  <2>1. CASE d.key = c.key
    BY <1>1, <1>5, <2>1
  <2>2. CASE x = 1 /\ l <= 3
    <3>1. Place(l) = l + 5 /\ Len(v) = l
      BY <1>2, <1>4, <2>2 DEF Place
    <3>2. ASSUME NEW i \in (Place(l) - Len(v) + 1)..Place(l) PROVE y[i] = z[i]
      <4>1. i \in 6..8
        BY <1>2, <2>2, <3>1
      <4>2. i = 6 \/ i = 7 \/ i = 8
        BY <4>1
      <4> QED
        BY <1>1, <4>2, Tokens
    <3> QED
      BY <1>2, <1>4, <1>5, <3>2, CarriesAlso
  <2> QED
    BY <2>1, <2>2
<1>7. Len(v) + (x - 1) = l
  BY <1>2, <1>4
<1>8. l <= 3 /\ x - 1 > 0 => a = d.key
  BY <1>2, <1>3
<1> QED
  BY <1>1, <1>3, <1>6, <1>7, <1>8 DEF Flow

LEMMA FlowTells ==
  ASSUME NEW m, NEW w, NEW r, NEW o, NEW c, NEW x, NEW q, NEW h, NEW a,
         FlowTypes(w, r, o, c, x, q, h), Flow(m, w, r, o, c, x, q, h, a),
         c.pc = "tell", x \in {4, 5}, NEW d, d.pc = "tell", d.key = c.key,
         NEW e \in Sent,
         e = IF x = 5 THEN MessageMark ELSE Piece("store", c.key, 2)
  PROVE Flow(m, Append(w, e), r, o, d, x - 1, q, h, a)
<1>1. PICK l, z : l = Len(w) + x /\ z = StoreTokens(a, c.key)
  OBVIOUS
<1>2. l \in Nat /\ Len(w) \in Nat /\ x \in Nat
  <2>1. l \in Nat /\ Len(w) \in Nat
    BY <1>1, FlowNumbers
  <2> QED
    BY <2>1
<1>3. Place(l) - Len(w) = x
  <2>1. ~(l <= 3) /\ l - Len(w) = x
    BY <1>1, <1>2
  <2> QED
    BY <2>1 DEF Place
<1>4. e = z[Place(l) - Len(w)]
  BY <1>1, <1>3, Tokens
<1>5. x > 0
  OBVIOUS
<1> QED
  BY <1>1, <1>4, <1>5, FlowWrites

\* The stream begins when n has read the announcement.
LEMMA FlowStreams ==
  ASSUME NEW m, NEW w, NEW r, NEW o, NEW c, NEW x, NEW q, NEW h, NEW a,
         FlowTypes(w, r, o, c, x, q, h), Flow(m, w, r, o, c, x, q, h, a),
         x = 3, w = <<>>, NEW d, d.key = c.key
  PROVE Flow(m, w, r, o, d, 3, q, h, a)
<1>1. Len(w) + x = 3 /\ Len(w) + 3 = 3
  BY EmptySeq
<1>2. /\ Awaits(m, q, h, a, Rest(3)) /\ Stage(m, r, o, h, Rest(3))
      /\ Carries(w, Place(3), StoreTokens(a, c.key)) /\ a = c.key
  BY <1>1 DEF Flow
<1> QED
  BY <1>1, <1>2 DEF Flow

LEMMA FlowPieces ==
  ASSUME NEW m, NEW w, NEW r, NEW o, NEW c, NEW x, NEW q, NEW h, NEW a,
         FlowTypes(w, r, o, c, x, q, h), Flow(m, w, r, o, c, x, q, h, a),
         c.pc = "stream", x > 0,
         Carries(c.todo, x + 5, StoreTokens(c.key, c.key)),
         NEW d, d.key = c.key \/ x = 1
  PROVE Flow(m, Append(w, Head(c.todo)), r, o, d, x - 1, q, h, a)
<1>1. PICK l, s : l = Len(w) + x /\ s = c.todo
  OBVIOUS
<1>2. /\ x > 0 /\ x \in Nat /\ Len(w) \in Nat /\ l \in Nat
      /\ s \in Seq(Sent) /\ Len(s) = x
  <2>1. l \in Nat /\ Len(w) \in Nat
    BY <1>1, FlowNumbers
  <2>2. x > 0 /\ x \in Nat /\ Len(s) = x /\ c \in Calling
    BY <1>1 DEF FlowTypes
  <2>3. s \in Seq(Sent)
    BY <1>1, <2>2 DEF Calling
  <2> QED
    BY <2>1, <2>2, <2>3
<1>3. l <= 3 /\ a = c.key
  BY <1>1, <1>2 DEF Flow
<1>4. Place(l) - Len(w) = x + 5
  BY <1>1, <1>2, <1>3 DEF Place
<1>5. s # <<>>
  BY <1>2, EmptySeq
<1>6. Head(s) = s[1] /\ s[1] \in Sent /\ x + 5 \in Int
  BY <1>2, <1>5
<1>7. s[1] = StoreTokens(c.key, c.key)[x + 5]
  BY <1>1, <1>2, <1>5, <1>6, CarriesFirst
<1>8. Head(s) = StoreTokens(a, c.key)[Place(l) - Len(w)]
  BY <1>3, <1>4, <1>6, <1>7
<1> QED
  BY <1>1, <1>2, <1>3, <1>6, <1>8, FlowWrites

\* A node the call does not send to.
LEMMA FlowSpared ==
  ASSUME NEW m, NEW w, NEW r, NEW o, NEW c, NEW x, NEW q, NEW h, NEW a,
         FlowTypes(w, r, o, c, x, q, h), Flow(m, w, r, o, c, x, q, h, a),
         c.pc = "stream", x = 0, NEW d
  PROVE Flow(m, w, r, o, d, 0, q, h, a)
<1>1. PICK l, z, y : /\ l = Len(w) + x /\ z = StoreTokens(a, c.key)
                     /\ y = StoreTokens(a, d.key)
  OBVIOUS
<1>2. l = Len(w) /\ l \in Nat
  BY <1>1, FlowNumbers DEF FlowTypes
<1>3. /\ l <= 3
      /\ Awaits(m, q, h, a, Rest(l)) /\ Stage(m, r, o, h, Rest(l))
      /\ Carries(w, Place(l), z)
  BY <1>1 DEF Flow
<1>4. Place(l) = l + 5
  BY <1>3 DEF Place
<1>5. Carries(w, Place(l), y)
  <2>1. ASSUME NEW i \in (Place(l) - Len(w) + 1)..Place(l) PROVE y[i] = z[i]
    <3>1. i \in 6..8
      BY <1>2, <1>3, <1>4
    <3>2. i = 6 \/ i = 7 \/ i = 8
      BY <3>1
    <3> QED
      BY <1>1, <3>2, Tokens
  <2> QED
    BY <1>2, <1>3, <1>4, <2>1, CarriesAlso DEF FlowTypes
<1>6. Len(w) + 0 = l /\ l <= 8 /\ ~(0 > 0)
  BY <1>2, <1>3
<1> QED
  BY <1>1, <1>3, <1>5, <1>6 DEF Flow

\* The loop of n takes a message of m, or of another node.
LEMMA FlowTaken ==
  ASSUME NEW m, NEW w, NEW r, NEW o, NEW c, NEW x, NEW q, NEW h, NEW a,
         FlowTypes(w, r, o, c, x, q, h), Flow(m, w, r, o, c, x, q, h, a),
         h.pc = "idle", q # <<>>, NEW g, g.pc = "store", g.from = q[1].from,
         g.key = q[1].key, g.want = 2
  PROVE Flow(m, w, r, o, c, x, Tail(q), g, a)
<1>1. PICK l, p : l = Len(w) + x /\ p = Tail(q)
  OBVIOUS
<1>2. /\ l <= 8 /\ (c.pc # "tell" => l <= 3) /\ (l <= 3 /\ x > 0 => a = c.key)
      /\ Awaits(m, q, h, a, Rest(l)) /\ Stage(m, r, o, h, Rest(l))
      /\ Carries(w, Place(l), StoreTokens(a, c.key))
  BY <1>1 DEF Flow
<1>3. /\ q \in Seq(Message) /\ DOMAIN q = 1..Len(q) /\ Len(q) \in Nat
      /\ DOMAIN p = 1..(Len(q) - 1) /\ Len(q) > 0
      /\ \A i \in 1..(Len(q) - 1) : p[i] = q[i + 1]
  BY <1>1, EmptySeq DEF FlowTypes
<1>4. ASSUME NEW b PROVE Expects(m, p, g, b) <=> Expects(m, q, h, b)
  <2>1. ASSUME NEW i \in DOMAIN p, p[i].from = m, p[i].key = b
        PROVE Expects(m, q, h, b)
    <3>1. i + 1 \in DOMAIN q /\ q[i + 1] = p[i]
      BY <1>3, <2>1
    <3> QED
      BY <2>1, <3>1 DEF Expects
  <2>2. ASSUME NEW i \in DOMAIN q, q[i].from = m, q[i].key = b
        PROVE Expects(m, p, g, b)
    <3>1. CASE i = 1
      BY <2>2, <3>1 DEF Expects
    <3>2. CASE i # 1
      <4>1. i - 1 \in DOMAIN p /\ i - 1 + 1 = i
        BY <1>3, <2>2, <3>2
      <4>2. p[i - 1] = q[i]
        BY <1>3, <4>1
      <4> QED
        BY <2>2, <4>1, <4>2 DEF Expects
    <3> QED
      BY <3>1, <3>2
  <2>3. g.from = m /\ g.key = b => Expects(m, q, h, b)
    <3>1. 1 \in DOMAIN q
      BY <1>3
    <3> QED
      BY <3>1 DEF Expects
  <2> QED
    BY <2>1, <2>2, <2>3 DEF Expects
<1>5. Awaits(m, p, g, a, Rest(l))
  BY <1>2, <1>4 DEF Awaits
<1>6. Stage(m, r, o, g, Rest(l))
  BY <1>2 DEF Stage
<1> QED
  BY <1>1, <1>2, <1>5, <1>6 DEF Flow

\* The loop of n copies a piece of the file of m, and v is left of w.
Copied(m, w, v, r, o, c, x, q, h, a) ==
  /\ o = 1 /\ h.want \in {1, 2}
  /\ h.want = 2 => /\ w[1] = Piece("iv", h.key, 0)
                   /\ \A g : /\ g.pc = "store" /\ g.from = m
                             /\ g.key = h.key /\ g.want = 1
                             => Flow(m, v, r, o, c, x, q, g, a)
  /\ h.want = 1 => /\ w[1] = Piece("data", h.key, 0)
                   /\ \A g : g.pc = "idle" => Flow(m, v, r, 0, c, x, q, g, a)
LEMMA FlowCopied ==
  ASSUME NEW m, NEW w, NEW r, NEW o, NEW c, NEW x, NEW q, NEW h, NEW a,
         FlowTypes(w, r, o, c, x, q, h), Flow(m, w, r, o, c, x, q, h, a),
         h.pc = "store", h.from = m, r = "parked", w # <<>>,
         NEW v \in Seq(Sent), Len(v) = Len(w) - 1,
         \A i \in 1..Len(v) : v[i] = w[i + 1],
         \A i \in DOMAIN q : q[i].from # m
  PROVE Copied(m, w, v, r, o, c, x, q, h, a)
<1>1. PICK l, z : l = Len(w) + x /\ z = StoreTokens(a, c.key)
  OBVIOUS
<1>2. /\ l \in Nat /\ Len(w) \in Nat /\ Len(w) > 0 /\ x \in Nat
      /\ Place(l) \in Int
  <2>1. Len(w) \in Nat /\ l \in Nat /\ Place(l) \in Nat
    BY <1>1, FlowNumbers
  <2>2. x \in Nat /\ Len(w) > 0
    BY EmptySeq DEF FlowTypes
  <2> QED
    BY <2>1, <2>2
<1>3. /\ l <= 8 /\ (c.pc # "tell" => l <= 3) /\ (l <= 3 /\ x > 0 => a = c.key)
      /\ Awaits(m, q, h, a, Rest(l)) /\ Stage(m, r, o, h, Rest(l))
      /\ Carries(w, Place(l), z)
  BY <1>1 DEF Flow
<1>4. Rest(l) \in 1..3 /\ h.key = a
  <2>1. h.key \in Keys
    BY DEF FlowTypes, WorkOK
  <2>2. Expects(m, q, h, h.key)
    BY DEF Expects
  <2> QED
    BY <1>3, <2>1, <2>2 DEF Awaits
<1>5. \/ l \in {2, 7} /\ Rest(l) = 2 /\ Place(l) = 7
      \/ l \in {1, 6} /\ Rest(l) = 1 /\ Place(l) = 6
  <2>1. l \in 1..8
    BY <1>1, <1>2, <1>3
  <2>2. Rest(l) # 3
    BY <1>3 DEF Stage
  <2>3. l = 1 \/ l = 2 \/ l = 3 \/ l = 4 \/ l = 5 \/ l = 6 \/ l = 7 \/ l = 8
    BY <2>1
  <2> QED
    BY <1>4, <2>2, <2>3 DEF Rest, Place
<1>6. w[1] = z[Place(l)] /\ Carries(v, Place(l) - 1, z)
  BY <1>2, <1>3, CarriesFirst, CarriesRest DEF FlowTypes
<1>7. /\ Len(v) + x = l - 1 /\ l - 1 <= 8 /\ (c.pc # "tell" => l - 1 <= 3)
      /\ (l - 1 <= 3 /\ x > 0 => a = c.key)
  <2>1. l - 1 <= 3 => l <= 3
    BY <1>5
  <2> QED
    BY <1>1, <1>2, <1>3, <2>1
<1>8. CASE Rest(l) = 2
  <2>1. Rest(l - 1) = 1 /\ Place(l - 1) = 6 /\ Place(l) = 7
    BY <1>5, <1>8 DEF Rest, Place
  <2>2. o = 1 /\ h.want = 2
    BY <1>3, <1>8 DEF Stage, Parked
  <2>3. w[1] = Piece("iv", h.key, 0)
    BY <1>1, <1>4, <1>6, <2>1, Tokens
  <2>4. ASSUME NEW g, g.pc = "store", g.from = m, g.key = h.key, g.want = 1
        PROVE Flow(m, v, r, o, c, x, q, g, a)
    <3>1. Awaits(m, q, g, a, 1)
      BY <1>3, <1>8, <2>4 DEF Awaits, Expects
    <3>2. Stage(m, r, o, g, 1)
      BY <2>2, <2>4 DEF Stage, Parked
    <3>3. Carries(v, 6, z)
      BY <1>6, <2>1
    <3> QED
      BY <1>1, <1>7, <2>1, <3>1, <3>2, <3>3 DEF Flow
  <2> QED
    BY <2>2, <2>3, <2>4 DEF Copied
<1>9. CASE Rest(l) = 1
  <2>1. Rest(l - 1) = 0 /\ Place(l - 1) = 5 /\ Place(l) = 6
    BY <1>5, <1>9 DEF Rest, Place
  <2>2. o = 1 /\ h.want = 1
    BY <1>3, <1>9 DEF Stage, Parked
  <2>3. w[1] = Piece("data", h.key, 0)
    BY <1>1, <1>4, <1>6, <2>1, Tokens
  <2>4. ASSUME NEW g, g.pc = "idle" PROVE Flow(m, v, r, 0, c, x, q, g, a)
    <3>1. Awaits(m, q, g, a, 0)
      BY <2>4 DEF Awaits, Expects
    <3>2. Stage(m, r, 0, g, 0)
      BY <2>4 DEF Stage, Resting
    <3>3. Carries(v, 5, z)
      BY <1>6, <2>1
    <3> QED
      BY <1>1, <1>7, <2>1, <3>1, <3>2, <3>3 DEF Flow
  <2> QED
    BY <2>2, <2>3, <2>4 DEF Copied
<1> QED
  BY <1>5, <1>8, <1>9

\* A message of m does not concern the flow from b.
LEMMA FlowOther ==
  ASSUME NEW m, NEW w, NEW r, NEW o, NEW c, NEW x, NEW q \in Seq(Message),
         NEW h, NEW a, Flow(m, w, r, o, c, x, q, h, a), NEW e \in Message,
         e.from # m
  PROVE Flow(m, w, r, o, c, x, Append(q, e), h, a)
<1>1. PICK t : t = Append(q, e)
  OBVIOUS
<1>2. /\ Len(q) \in Nat /\ DOMAIN t = 1..(Len(q) + 1) /\ t[Len(q) + 1] = e
      /\ DOMAIN q = 1..Len(q) /\ \A i \in 1..Len(q) : t[i] = q[i]
  BY <1>1
<1>3. ASSUME NEW b PROVE Expects(m, t, h, b) <=> Expects(m, q, h, b)
  <2>1. ASSUME NEW i \in DOMAIN q, q[i].from = m, q[i].key = b
        PROVE Expects(m, t, h, b)
    <3>1. i \in DOMAIN t /\ t[i] = q[i]
      BY <1>2, <2>1
    <3> QED
      BY <2>1, <3>1 DEF Expects
  <2>2. ASSUME NEW i \in DOMAIN t, t[i].from = m, t[i].key = b
        PROVE Expects(m, q, h, b)
    <3>1. i \in DOMAIN q /\ t[i] = q[i]
      BY <1>2, <2>2
    <3> QED
      BY <2>2, <3>1 DEF Expects
  <2> QED
    BY <2>1, <2>2 DEF Expects
<1>4. ASSUME NEW left
      PROVE Awaits(m, t, h, a, left) <=> Awaits(m, q, h, a, left)
  BY <1>3 DEF Awaits
<1> QED
  BY <1>1, <1>4 DEF Flow

\* The loop of a node with one more message.
LEMMA LoopHears ==
  ASSUME NEW P, NEW q \in Seq(Message), NEW h, NEW d, StoreLoop(P, q, h, d),
         NEW e \in Message, e.is = "store", e.from \in P,
         \A i \in DOMAIN q : q[i].from # e.from,
         ~(h.pc = "store" /\ h.from = e.from)
  PROVE StoreLoop(P, Append(q, e), h, d)
<1>1. PICK t : t = Append(q, e)
  OBVIOUS
<1>2. /\ Len(q) \in Nat /\ DOMAIN t = 1..(Len(q) + 1) /\ t[Len(q) + 1] = e
      /\ DOMAIN q = 1..Len(q) /\ \A i \in 1..Len(q) : t[i] = q[i]
  BY <1>1
<1>3. ASSUME NEW i \in DOMAIN t
      PROVE /\ t[i].is = "store" /\ t[i].from \in P
            /\ h.pc = "store" => t[i].from # h.from
            /\ \A j \in DOMAIN t : t[j].from = t[i].from => j = i
  <2>1. CASE i = Len(q) + 1
    <3>1. ASSUME NEW j \in DOMAIN t, t[j].from = e.from PROVE j = i
      BY <1>2, <2>1, <3>1
    <3> QED
      BY <1>2, <2>1, <3>1
  <2>2. CASE i \in DOMAIN q
    <3>1. /\ t[i] = q[i] /\ q[i].is = "store" /\ q[i].from \in P
          /\ h.pc = "store" => q[i].from # h.from
          /\ \A j \in DOMAIN q : q[j].from = q[i].from => j = i
      BY <1>2, <2>2 DEF StoreLoop
    <3>2. ASSUME NEW j \in DOMAIN t, t[j].from = q[i].from PROVE j = i
      BY <1>2, <2>2, <3>1, <3>2
    <3> QED
      BY <3>1, <3>2
  <2> QED
    BY <1>2, <2>1, <2>2
<1> QED
  BY <1>1, <1>3 DEF StoreLoop

-----------------------------------------------------------------------------
(* The steps while files are stored.                                        *)

StoreState == Types /\ Net /\ Copies /\ StoreMode

LEMMA FlowStays ==
  ASSUME NEW m \in Nodes, NEW n \in Nodes, FlowOK(m, n),
         wire'[m][n] = wire[m][n], reader'[n][m] = reader[n][m],
         open'[n][m] = open[n][m], call'[m] = call[m],
         queue'[n] = queue[n], handler'[n] = handler[n]
  PROVE FlowOK(m, n)'
  BY DEF FlowOK

\* Only the flow from m to n changes.
LEMMA OneFlow ==
  ASSUME Types, Flows, NEW n \in Nodes, NEW m \in Nodes,
         UNCHANGED <<up, broken, call, queue, handler>>,
         \A a, b \in Nodes : a # m \/ b # n =>
           /\ wire'[a][b] = wire[a][b] /\ reader'[b][a] = reader[b][a]
           /\ open'[b][a] = open[b][a],
         FlowOK(m, n)'
  PROVE Flows'
<1> SUFFICES ASSUME NEW b \in Nodes, NEW a \in Peers(b) PROVE FlowOK(a, b)'
  BY PeersStay DEF Flows
<1>1. a \in Nodes /\ FlowOK(a, b)
  BY DEF Peers, Flows
<1>2. CASE a = m /\ b = n
  BY <1>2
<1>3. CASE a # m \/ b # n
  <2>1. /\ wire'[a][b] = wire[a][b] /\ reader'[b][a] = reader[b][a]
        /\ open'[b][a] = open[b][a]
    BY <1>1, <1>3
  <2>2. call'[a] = call[a] /\ queue'[b] = queue[b] /\ handler'[b] = handler[b]
    OBVIOUS
  <2> QED
    BY <1>1, <2>1, <2>2, FlowStays
<1> QED
  BY <1>2, <1>3

\* Only a peer sends.
LEMMA OnlyPeersSend ==
  ASSUME Types, Net, NEW n \in Nodes, NEW m \in Nodes, wire[m][n] # <<>>
  PROVE m \in Peers(n)
  BY DEF Net

LEMMA StorePeek ==
  ASSUME StoreState, NEW n \in Nodes, NEW m \in Nodes, Peek(n, m)
  PROVE Net' /\ Copies' /\ StoreMode'
<1>1. /\ Types /\ Net /\ Copies /\ StoreCalls /\ StoreLoops /\ Flows
      /\ reader[n][m] = "peek" /\ Arrived(n, m) /\ Drain(n, m, 1)
      /\ UNCHANGED <<up, broken, down, open, queue, handler, call, disk>>
  BY DEF StoreState, StoreMode, Peek, net, links
<1>2. m \in Peers(n)
  BY <1>1, OnlyPeersSend DEF Arrived
<1>3. PICK w, r, o, c, x, q, h :
        /\ w = wire[m][n] /\ r = reader[n][m] /\ o = open[n][m] /\ c = call[m]
        /\ x = Unwritten(n, call[m]) /\ q = queue[n] /\ h = handler[n]
  OBVIOUS
<1>4. PICK a \in Keys \cup {None} : Flow(m, w, r, o, c, x, q, h, a)
  BY <1>1, <1>2, <1>3 DEF Flows, FlowOK
<1>5. FlowTypes(w, r, o, c, x, q, h)
  BY <1>1, <1>3, FlowFields
<1>6. PICK v, s : /\ v = wire'[m][n]
                  /\ s = CASE w[1] = StreamMark -> "marked"
                           [] w[1] = MessageMark -> "body"
                           [] OTHER -> "garbled"
  OBVIOUS
<1>7. /\ Next1(n, m) = w[1] /\ w # <<>>
      /\ v \in Seq(Sent) /\ Len(v) = Len(w) - 1
      /\ \A i \in 1..Len(v) : v[i] = w[i + 1]
      /\ \A b, d \in Nodes : b # m \/ d # n => wire'[b][d] = wire[b][d]
  BY <1>1, <1>3, <1>6, Read1 DEF Arrived
<1>8. reader' = [reader EXCEPT ![n][m] = s]
  BY <1>6, <1>7 DEF Peek
<1>9. \A b, d \in Nodes :
        reader'[b][d] = IF b = n /\ d = m THEN s ELSE reader[b][d]
  <2>1. Types
    BY <1>1
  <2> QED
    BY <1>8, <2>1 DEF Types, ReaderTypes
<1>10. Flow(m, v, s, o, c, x, q, h, a)
  <2>1. w # <<>> /\ v \in Seq(Sent) /\ Len(v) = Len(w) - 1
    BY <1>7
  <2>2. \A i \in 1..Len(v) : v[i] = w[i + 1]
    BY <1>7
  <2>3. r = "peek"
    BY <1>1, <1>3
  <2>4. s = CASE w[1] = StreamMark -> "marked"
              [] w[1] = MessageMark -> "body"
              [] OTHER -> "garbled"
    BY <1>6
  <2> QED
    BY <1>4, <1>5, <2>1, <2>2, <2>3, <2>4, FlowPeek
<1>11. FlowOK(m, n)'
  <2>1. /\ wire'[m][n] = v /\ reader'[n][m] = s /\ open'[n][m] = o
        /\ call'[m] = c /\ queue'[n] = q /\ handler'[n] = h
    BY <1>1, <1>3, <1>6, <1>9
  <2>2. Unwritten(n, call'[m]) = x
    BY <1>3, <2>1
  <2> QED
    BY <1>10, <2>1, <2>2 DEF FlowOK
<1>12. Flows'
  BY <1>1, <1>7, <1>9, <1>11, OneFlow
<1>13. Net'
  BY <1>1, <1>2, <1>7, NetStays
<1>14. Copies'
  BY <1>1, CopiesStay DEF Writing
<1> QED
  BY <1>1, <1>12, <1>13, <1>14, CallsStay, LoopsStay DEF StoreMode

LEMMA StoreBody ==
  ASSUME StoreState, NEW n \in Nodes, NEW m \in Nodes, Body(n, m)
  PROVE Net' /\ Copies' /\ StoreMode'
<1>1. /\ Types /\ Net /\ Copies /\ StoreCalls /\ StoreLoops /\ Flows
      /\ reader[n][m] = "body" /\ Arrived(n, m)
      /\ reader' = [reader EXCEPT ![n][m] = "peek"]
      /\ UNCHANGED <<up, broken, down, open, handler, call, disk>>
  BY DEF StoreState, StoreMode, Body, net, links
<1>2. m \in Peers(n)
  BY <1>1, OnlyPeersSend DEF Arrived
<1>3. PICK w, r, o, c, x, q, h :
        /\ w = wire[m][n] /\ r = reader[n][m] /\ o = open[n][m] /\ c = call[m]
        /\ x = Unwritten(n, call[m]) /\ q = queue[n] /\ h = handler[n]
  OBVIOUS
<1>4. PICK a \in Keys \cup {None} : Flow(m, w, r, o, c, x, q, h, a)
  BY <1>1, <1>2, <1>3 DEF Flows, FlowOK
<1>5. FlowTypes(w, r, o, c, x, q, h) /\ CallOK(c)
  BY <1>1, <1>3, FlowFields
<1>6. PICK e : e = [from |-> m, is |-> "store", key |-> c.key, size |-> 2]
  OBVIOUS
<1>7. /\ Len(w) = 1 /\ w[1] = Piece("store", c.key, 2) /\ c.key \in Keys
      /\ e \in Message
      /\ \A i \in DOMAIN q : q[i].from # m
      /\ ~(h.pc = "store" /\ h.from = m)
      /\ Flow(m, <<>>, "peek", o, c, x, Append(q, e), h, c.key)
  BY <1>1, <1>3, <1>4, <1>5, <1>6, FlowBody DEF Arrived
<1>8. Drain(n, m, 1) /\ Next1(n, m) = w[1]
  <2>1. PICK k \in 1..Len(wire[m][n]) : Drain(n, m, k)
    BY DEF Body
  <2>2. k = 1
    BY <1>3, <1>7, <2>1
  <2> QED
    BY <1>1, <1>3, <2>1, <2>2, Read1
<1>9. /\ wire'[m][n] = <<>>
      /\ \A b, d \in Nodes : b # m \/ d # n => wire'[b][d] = wire[b][d]
  <2>1. wire'[m][n] \in Seq(Sent) /\ Len(wire'[m][n]) = Len(wire[m][n]) - 1
    BY <1>1, <1>8, Read1
  <2>2. Len(wire'[m][n]) = 0
    BY <1>3, <1>7, <2>1
  <2> QED
    BY <1>1, <1>8, <2>1, <2>2, EmptySeq, Read1
<1>10. \A b, d \in Nodes :
         reader'[b][d] = IF b = n /\ d = m THEN "peek" ELSE reader[b][d]
  BY <1>1 DEF Types, ReaderTypes
<1>11. queue' = [queue EXCEPT ![n] = Append(q, e)]
  <2>1. /\ w[1].is = "store" /\ w[1].key = c.key /\ w[1].size = 2
    BY <1>7 DEF Piece
  <2> QED
    BY <1>3, <1>6, <1>8, <2>1 DEF Body
<1>12. /\ queue'[n] = Append(q, e)
       /\ \A b \in Nodes : b # n => queue'[b] = queue[b]
  BY <1>1, <1>11 DEF Types, QueueTypes
<1>13. FlowOK(m, n)'
  <2>1. /\ wire'[m][n] = <<>> /\ reader'[n][m] = "peek" /\ open'[n][m] = o
        /\ call'[m] = c /\ queue'[n] = Append(q, e) /\ handler'[n] = h
    BY <1>1, <1>3, <1>9, <1>10, <1>12
  <2>2. Unwritten(n, call'[m]) = x /\ c.key \in Keys \cup {None}
    BY <1>3, <1>7, <2>1
  <2> QED
    BY <1>7, <2>1, <2>2 DEF FlowOK
<1>14. Flows'
  <2> SUFFICES ASSUME NEW d \in Nodes, NEW b \in Peers(d) PROVE FlowOK(b, d)'
    BY <1>1, PeersStay DEF Flows
  <2>1. b \in Nodes /\ FlowOK(b, d)
    BY <1>1 DEF Peers, Flows
  <2>2. CASE b = m /\ d = n
    BY <1>13, <2>2
  <2>3. CASE d # n
    <3>1. /\ wire'[b][d] = wire[b][d] /\ reader'[d][b] = reader[d][b]
          /\ open'[d][b] = open[d][b] /\ call'[b] = call[b]
          /\ queue'[d] = queue[d] /\ handler'[d] = handler[d]
      BY <1>1, <1>9, <1>10, <1>12, <2>1, <2>3
    <3> QED
      BY <2>1, <3>1, FlowStays
  <2>4. CASE b # m /\ d = n
    <3>1. /\ wire'[b][n] = wire[b][n] /\ reader'[n][b] = reader[n][b]
          /\ open'[n][b] = open[n][b] /\ call'[b] = call[b]
          /\ queue'[n] = Append(q, e) /\ handler'[n] = h
      BY <1>1, <1>3, <1>9, <1>10, <1>12, <2>1, <2>4
    <3>2. PICK y \in Keys \cup {None} :
            Flow(b, wire[b][n], reader[n][b], open[n][b], call[b],
                 Unwritten(n, call[b]), q, h, y)
      BY <1>3, <2>1, <2>4 DEF FlowOK
    <3>3. e.from # b /\ q \in Seq(Message)
      BY <1>5, <1>6, <2>4 DEF FlowTypes
    <3>4. Flow(b, wire[b][n], reader[n][b], open[n][b], call[b],
               Unwritten(n, call[b]), Append(q, e), h, y)
      BY <1>7, <3>2, <3>3, FlowOther
    <3> QED
      BY <2>4, <3>1, <3>4 DEF FlowOK
  <2> QED
    BY <2>2, <2>3, <2>4
<1>15. StoreLoops'
  <2> SUFFICES ASSUME NEW b \in Nodes
               PROVE StoreLoop(Peers(b), queue'[b], handler[b], disk[b])
    BY <1>1, PeersStay DEF StoreLoops
  <2>1. StoreLoop(Peers(b), queue[b], handler[b], disk[b])
    BY <1>1 DEF StoreLoops
  <2>2. CASE b # n
    BY <1>12, <2>1, <2>2
  <2>3. CASE b = n
    <3>1. q \in Seq(Message) /\ e.is = "store" /\ e.from = m
      BY <1>5, <1>6 DEF FlowTypes
    <3>2. StoreLoop(Peers(n), q, h, disk[n])
      BY <1>3, <2>1, <2>3
    <3>3. StoreLoop(Peers(n), Append(q, e), h, disk[n])
      BY <1>2, <1>7, <3>1, <3>2, LoopHears
    <3> QED
      BY <1>3, <1>12, <2>3, <3>3
  <2> QED
    BY <2>2, <2>3
<1>16. Net'
  BY <1>1, <1>2, <1>9, NetStays
<1>17. Copies'
  BY <1>1, CopiesStay DEF Writing
<1> QED
  BY <1>1, <1>14, <1>15, <1>16, <1>17, CallsStay DEF StoreMode

LEMMA StoreWaits ==
  ASSUME StoreState, NEW n \in Nodes, NEW m \in Nodes,
         Park(n, m) \/ Resume(n, m)
  PROVE Net' /\ Copies' /\ StoreMode'
<1>1. /\ Types /\ Net /\ Copies /\ StoreCalls /\ StoreLoops /\ Flows
      /\ reader[n][m] \in {"marked", "parked"}
      /\ UNCHANGED <<up, broken, down, wire, queue, handler, call, disk>>
  BY DEF StoreState, StoreMode, Park, Resume, net, links
<1>2. m \in Peers(n)
  <2>1. reader[n][m] # "none"
    BY <1>1
  <2> QED
    BY <1>1, <2>1, PeersKnown
<1>3. PICK w, r, o, c, x, q, h :
        /\ w = wire[m][n] /\ r = reader[n][m] /\ o = open[n][m] /\ c = call[m]
        /\ x = Unwritten(n, call[m]) /\ q = queue[n] /\ h = handler[n]
  OBVIOUS
<1>4. PICK a \in Keys \cup {None} : Flow(m, w, r, o, c, x, q, h, a)
  BY <1>1, <1>2, <1>3 DEF Flows, FlowOK
<1>5. FlowTypes(w, r, o, c, x, q, h)
  BY <1>1, <1>3, FlowFields
<1>6. /\ r = "marked" => Flow(m, w, "parked", 1, c, x, q, h, a)
      /\ r = "parked" /\ o = 0 => Flow(m, w, "peek", o, c, x, q, h, a)
  BY <1>4, <1>5, FlowWaits
<1>7. PICK s, u : /\ Flow(m, w, s, u, c, x, q, h, a)
                  /\ s \in {"parked", "peek"} /\ u \in {0, 1}
                  /\ reader' = [reader EXCEPT ![n][m] = s]
                  /\ \/ open' = [open EXCEPT ![n][m] = u]
                     \/ open' = open /\ u = o
  <2>1. CASE Park(n, m)
    <3>1. r = "marked" /\ o \in {0, 1} /\ (o = 1 => r = "parked")
      BY <1>3, <1>5, <2>1 DEF Park, FlowTypes
    <3>2. o + 1 = 1
      BY <3>1
    <3>3. /\ reader' = [reader EXCEPT ![n][m] = "parked"]
          /\ open' = [open EXCEPT ![n][m] = 1]
      BY <1>3, <2>1, <3>2 DEF Park
    <3> QED
      BY <1>6, <3>1, <3>3
  <2>2. CASE Resume(n, m)
    <3>1. r = "parked" /\ o = 0
      BY <1>3, <2>2 DEF Resume
    <3>2. reader' = [reader EXCEPT ![n][m] = "peek"] /\ open' = open
      BY <2>2 DEF Resume
    <3> QED
      BY <1>6, <3>1, <3>2
  <2> QED
    BY <2>1, <2>2
<1>8. \A b, d \in Nodes :
        /\ reader'[b][d] = IF b = n /\ d = m THEN s ELSE reader[b][d]
        /\ open'[b][d] = IF b = n /\ d = m THEN u ELSE open[b][d]
  BY <1>1, <1>3, <1>7 DEF Types, ReaderTypes
<1>9. FlowOK(m, n)'
  <2>1. /\ wire'[m][n] = w /\ reader'[n][m] = s /\ open'[n][m] = u
        /\ call'[m] = c /\ queue'[n] = q /\ handler'[n] = h
    BY <1>1, <1>3, <1>8
  <2>2. Unwritten(n, call'[m]) = x
    BY <1>3, <2>1
  <2> QED
    BY <1>7, <2>1, <2>2 DEF FlowOK
<1>10. Flows'
  BY <1>1, <1>8, <1>9, OneFlow
<1>11. Net'
  BY <1>1, PeersStay DEF Net
<1>12. Copies'
  BY <1>1, CopiesStay DEF Writing
<1> QED
  BY <1>1, <1>10, <1>11, <1>12, CallsStay, LoopsStay DEF StoreMode

\* Nothing happens and nothing is on its way.
AllAtRest ==
  \A n \in Nodes :
    /\ call[n].pc = "idle" /\ call[n].kind = "store"
    /\ queue[n] = <<>> /\ handler[n].pc = "idle"
    /\ \A m \in Nodes : AtRest(m, n)

LEMMA FlowRests ==
  ASSUME NEW m, NEW n, NEW r, NEW o, Resting(r, o), NEW c, NEW q, NEW h,
         \A i \in DOMAIN q : q[i].from # m, h.pc = "store" => h.from # m
  PROVE Flow(m, <<>>, r, o, c, 0, q, h, None)
<1>1. Len(<<>>) + 0 = 0 /\ Rest(0) = 0
  BY DEF Rest
<1>2. Awaits(m, q, h, None, 0)
  BY DEF Awaits, Expects
<1>3. Stage(m, r, o, h, 0)
  BY DEF Stage
<1> QED
  BY <1>1, <1>2, <1>3, CarriesNothing DEF Flow

LEMMA RestStores == AllAtRest => StoreMode
<1> SUFFICES ASSUME AllAtRest PROVE StoreMode
  OBVIOUS
<1>1. ASSUME NEW n \in Nodes
      PROVE /\ call[n].pc = "idle" /\ call[n].kind = "store"
            /\ queue[n] = <<>> /\ handler[n].pc = "idle"
            /\ \A m \in Nodes : /\ wire[m][n] = <<>>
                                /\ Resting(reader[n][m], open[n][m])
  BY DEF AllAtRest, AtRest
<1>2. StoreCalls
  BY <1>1 DEF StoreCalls, StoreCall
<1>3. StoreLoops
  BY <1>1 DEF StoreLoops, StoreLoop
<1>4. ASSUME NEW n \in Nodes, NEW m \in Peers(n) PROVE FlowOK(m, n)
  <2>1. m \in Nodes
    BY DEF Peers
  <2>2. PICK r, o, c, q, h : /\ r = reader[n][m] /\ o = open[n][m]
                             /\ c = call[m] /\ q = queue[n] /\ h = handler[n]
    OBVIOUS
  <2>3. /\ Resting(r, o) /\ h.pc # "store" /\ wire[m][n] = <<>>
        /\ \A i \in DOMAIN q : q[i].from # m
    BY <1>1, <2>1, <2>2
  <2>4. Flow(m, <<>>, r, o, c, 0, q, h, None)
    BY <2>3, FlowRests
  <2>5. Unwritten(n, c) = 0
    BY <1>1, <2>1, <2>2 DEF Unwritten
  <2> QED
    BY <2>2, <2>3, <2>4, <2>5 DEF FlowOK
<1> QED
  BY <1>2, <1>3, <1>4 DEF StoreMode, Flows

\* Two nodes connect: nothing was sent from one to the other.
LEMMA StoreConnect ==
  ASSUME StoreState, NEW n \in Nodes, NEW m \in Nodes, Connect(n, m), Timely
  PROVE Net' /\ Copies' /\ StoreMode'
<1>1. /\ Types /\ Net /\ Copies /\ StoreCalls /\ StoreLoops /\ Flows
      /\ {n, m} \in Links \ (up \cup broken)
      /\ up' = up \cup {{n, m}}
      /\ reader' = [reader EXCEPT ![n][m] = "peek", ![m][n] = "peek"]
      /\ UNCHANGED <<broken, wire, open, queue, handler, disk>>
  BY DEF StoreState, StoreMode, Connect
<1>2. /\ UNCHANGED <<call, down>>
      /\ \A x \in {n, m} : call[x].pc \notin {"tell", "ask"}
  <2> DEFINE walking == {x \in {n, m} : call[x].pc \in {"tell", "ask"}}
  <2>1. PICK met \in SUBSET walking, fallen \in SUBSET {n, m} :
          /\ call' = [x \in Nodes |-> IF x \notin met THEN call[x]
               ELSE [call[x] EXCEPT !.to = @ \cup ({n, m} \ {x})]]
          /\ down' = down \cup fallen
          /\ InTime(walking = {} /\ fallen = {})
    BY DEF Connect
  <2>2. walking = {} /\ fallen = {}
    BY <2>1 DEF InTime, Timely, Undisturbed
  <2>3. met = {}
    BY <2>2
  <2>4. call' = [x \in Nodes |-> call[x]] /\ down' = down
    BY <2>1, <2>2, <2>3
  <2> QED
    BY <1>1, <2>2, <2>4 DEF Types, CallTypes
<1>3. \A a, b \in Nodes :
        reader'[a][b] = IF {a, b} = {n, m} THEN "peek" ELSE reader[a][b]
  <2>1. reader \in [Nodes -> [Nodes -> Reading]] /\ n # m
    BY <1>1, LinkEnds DEF Types, ReaderTypes
  <2>2. \A a, b \in Nodes :
          {a, b} = {n, m} <=> (a = n /\ b = m) \/ (a = m /\ b = n)
    BY <2>1
  <2>3. \A a, b \in Nodes :
          reader'[a][b] = IF (a = n /\ b = m) \/ (a = m /\ b = n)
                          THEN "peek" ELSE reader[a][b]
    BY <1>1, <2>1
  <2> QED
    BY <2>2, <2>3
<1>4. ASSUME NEW a \in Nodes, NEW b \in Nodes
      PROVE /\ b \in Peers(a)' <=> b \in Peers(a) \/ {a, b} = {n, m}
            /\ b \in Peers(a) => {a, b} # {n, m}
  BY <1>1 DEF Peers
<1>5. \A a \in Nodes : Peers(a) \subseteq Peers(a)'
  BY <1>1 DEF Peers
<1>6. StoreCalls'
  BY <1>1, <1>2, <1>5 DEF StoreCalls, StoreCall
<1>7. StoreLoops'
  BY <1>1, <1>5 DEF StoreLoops, StoreLoop
<1>8. ASSUME NEW b \in Nodes, NEW a \in Peers(b)' PROVE FlowOK(a, b)'
  <2>1. a \in Nodes
    BY DEF Peers
  <2>2. CASE a \in Peers(b)
    <3>1. reader'[b][a] = reader[b][a] /\ FlowOK(a, b)
      <4>1. {b, a} # {n, m}
        BY <1>4, <2>1, <2>2
      <4> QED
        BY <1>1, <1>3, <2>1, <2>2, <4>1 DEF Flows
    <3> QED
      BY <1>1, <1>2, <2>1, <3>1, FlowStays
  <2>3. CASE a \notin Peers(b)
    <3>1. PICK r, o, c, q, h :
            /\ r = reader'[b][a] /\ o = open'[b][a] /\ c = call'[a]
            /\ q = queue'[b] /\ h = handler'[b]
      OBVIOUS
    <3>2. {b, a} = {n, m} /\ a \in {n, m}
      BY <1>4, <2>1, <2>3
    <3>3. Resting(r, o) /\ wire'[a][b] = <<>>
      <4>1. r = "peek"
        BY <1>3, <2>1, <3>1, <3>2
      <4>2. wire[a][b] = <<>>
        BY <1>1, <2>1, <2>3 DEF Net
      <4> QED
        BY <1>1, <4>1, <4>2 DEF Resting
    <3>4. /\ \A i \in DOMAIN q : q[i].from # a
          /\ h.pc = "store" => h.from # a
      <4>1. StoreLoop(Peers(b), q, h, disk[b])
        BY <1>1, <3>1 DEF StoreLoops
      <4> QED
        BY <2>3, <4>1 DEF StoreLoop
    <3>5. Unwritten(b, c) = 0
      <4>1. c = call[a] /\ c.pc # "tell" /\ b \notin Peers(a)
        BY <1>1, <1>2, <2>1, <2>3, <3>1, <3>2, PeersKnown
      <4>2. c.pc = "stream" => b \notin c.to
        BY <1>1, <2>1, <4>1 DEF StoreCalls, StoreCall
      <4> QED
        BY <4>1, <4>2 DEF Unwritten
    <3>6. Flow(a, <<>>, r, o, c, 0, q, h, None)
      BY <3>3, <3>4, FlowRests
    <3> QED
      BY <3>1, <3>3, <3>5, <3>6 DEF FlowOK
  <2> QED
    BY <2>2, <2>3
<1>9. Net'
  BY <1>1, <1>2, <1>5 DEF Net
<1>10. Copies'
  BY <1>1, <1>2, CopiesStay DEF Writing
<1> QED
  BY <1>6, <1>7, <1>8, <1>9, <1>10 DEF StoreMode, Flows

\* A Store begins.
LEMMA StoreBegins ==
  ASSUME StoreState, NEW n \in Nodes, NEW k \in Keys, StoreStarts(n, k)
  PROVE Net' /\ Copies' /\ StoreMode'
<1>1. /\ Types /\ Net /\ Copies /\ StoreCalls /\ StoreLoops /\ Flows
      /\ call[n].pc = "idle"
      /\ UNCHANGED <<up, broken, down, wire, reader, open, queue, handler>>
  BY DEF StoreState, StoreMode, StoreStarts, Begin, net, links
<1>2. PICK d : d = [NoCall EXCEPT !.pc = "tell", !.kind = "store", !.key = k,
                                  !.to = Peers(n)]
  OBVIOUS
<1>3. /\ d.pc = "tell" /\ d.kind = "store" /\ d.key = k /\ d.to = Peers(n)
      /\ d.at = None
  BY <1>2 DEF NoCall
<1>4. /\ call'[n] = d
      /\ \A b \in Nodes : b # n => call'[b] = call[b]
  BY <1>1, <1>2 DEF StoreStarts, Begin, Types, CallTypes
<1>5. /\ <<n, k>> \in Files
      /\ disk'[n][<<n, k>>].data = Encrypted(k)
      /\ \A b \in Nodes, f \in Files :
           b # n \/ f # <<n, k>> => disk'[b][f] = disk[b][f]
  BY <1>1 DEF StoreStarts, Types, DiskTypes, Files, File
<1>6. StoreCalls'
  <2> SUFFICES ASSUME NEW b \in Nodes PROVE StoreCall(Peers(b), call'[b])
    BY <1>1, PeersStay DEF StoreCalls
  <2>1. CASE b = n
    BY <1>3, <1>4, <2>1 DEF StoreCall
  <2>2. CASE b # n
    BY <1>1, <1>4, <2>2 DEF StoreCalls
  <2> QED
    BY <2>1, <2>2
<1>7. StoreLoops'
  <2> SUFFICES ASSUME NEW b \in Nodes
               PROVE StoreLoop(Peers(b), queue[b], handler[b], disk'[b])
    BY <1>1, PeersStay DEF StoreLoops
  <2>1. StoreLoop(Peers(b), queue[b], handler[b], disk[b])
    BY <1>1 DEF StoreLoops
  <2>2. ASSUME handler[b].pc = "store"
        PROVE disk'[b][<<handler[b].from, handler[b].key>>]
              = disk[b][<<handler[b].from, handler[b].key>>]
    <3>1. /\ handler[b].from \in Peers(b) /\ handler[b].from \in Nodes
          /\ handler[b].key \in Keys
      BY <1>1, <2>1, <2>2, WorkFields DEF StoreLoop, WorkOK
    <3>2. handler[b].from # b
      BY <1>1, <3>1, PeersKnown
    <3>3. <<handler[b].from, handler[b].key>> \in Files
      BY <3>1 DEF Files
    <3> QED
      BY <1>5, <3>2, <3>3
  <2> QED
    BY <2>1, <2>2 DEF StoreLoop
<1>8. Flows'
  <2> SUFFICES ASSUME NEW b \in Nodes, NEW m \in Peers(b) PROVE FlowOK(m, b)'
    BY <1>1, PeersStay DEF Flows
  <2>1. m \in Nodes /\ FlowOK(m, b)
    BY <1>1 DEF Peers, Flows
  <2>2. CASE m # n
    BY <1>1, <1>4, <2>1, <2>2, FlowStays
  <2>3. CASE m = n
    <3>1. PICK w, r, o, c, x, q, h :
            /\ w = wire[m][b] /\ r = reader[b][m] /\ o = open[b][m]
            /\ c = call[m] /\ x = Unwritten(b, call[m]) /\ q = queue[b]
            /\ h = handler[b]
      OBVIOUS
    <3>2. PICK a \in Keys \cup {None} : Flow(m, w, r, o, c, x, q, h, a)
      BY <2>1, <3>1 DEF FlowOK
    <3>3. FlowTypes(w, r, o, c, x, q, h) /\ c.pc = "idle"
      BY <1>1, <2>1, <2>3, <3>1, FlowFields
    <3>4. Flow(m, w, r, o, d, 5, q, h, a)
      BY <1>3, <3>2, <3>3, FlowBegins
    <3>5. Unwritten(b, d) = 5
      <4>1. b \in Peers(n) /\ b # None
        BY <1>1, <2>3, PeersKnown, NoneIsNothing
      <4> QED
        BY <1>3, <4>1 DEF Unwritten
    <3>6. /\ wire'[m][b] = w /\ reader'[b][m] = r /\ open'[b][m] = o
          /\ call'[m] = d /\ queue'[b] = q /\ handler'[b] = h
      BY <1>1, <1>4, <2>3, <3>1
    <3> QED
      BY <3>4, <3>5, <3>6 DEF FlowOK
  <2> QED
    BY <2>2, <2>3
<1>9. Net'
  BY <1>1, PeersStay DEF Net
<1>10. Copies'
  <2> SUFFICES ASSUME NEW b \in Nodes, NEW f \in Files PROVE CopyWhole(b, f)'
    BY DEF Copies
  <2>1. CASE b = n /\ f = <<n, k>>
    BY <1>5, <2>1 DEF CopyWhole
  <2>2. CASE b # n \/ f # <<n, k>>
    <3>1. CopyWhole(b, f) /\ disk'[b][f] = disk[b][f]
      BY <1>1, <1>5, <2>2 DEF Copies
    <3>2. Writing(b, f) => Writing(b, f)'
      BY <1>1, <1>3, <1>4 DEF Writing
    <3> QED
      BY <3>1, <3>2 DEF CopyWhole
  <2> QED
    BY <2>1, <2>2
<1> QED
  BY <1>6, <1>7, <1>8, <1>9, <1>10 DEF StoreMode

\* The call of n goes on: only the flows from n change.
LEMMA FlowsFrom ==
  ASSUME Types, Flows, NEW n \in Nodes,
         UNCHANGED <<up, broken, reader, open, queue, handler>>,
         \A b \in Nodes : b # n => call'[b] = call[b],
         \A a, b \in Nodes : a # n => wire'[a][b] = wire[a][b],
         \A b \in Peers(n) : FlowOK(n, b)'
  PROVE Flows'
<1> SUFFICES ASSUME NEW b \in Nodes, NEW m \in Peers(b) PROVE FlowOK(m, b)'
  BY PeersStay DEF Flows
<1>1. m \in Nodes /\ FlowOK(m, b)
  BY DEF Peers, Flows
<1>2. CASE m # n
  BY <1>1, <1>2, FlowStays
<1>3. CASE m = n
  <2>1. b \in Peers(n)
    BY <1>3, PeersKnown
  <2> QED
    BY <1>3, <2>1
<1> QED
  BY <1>2, <1>3

LEMMA CallsFrom ==
  ASSUME StoreCalls, NEW n \in Nodes, UNCHANGED <<up, broken>>,
         \A b \in Nodes : b # n => call'[b] = call[b],
         StoreCall(Peers(n), call'[n])
  PROVE StoreCalls'
  BY PeersStay DEF StoreCalls

\* Of the call, a flow shows what it is doing and the file.
LEMMA FlowSame ==
  ASSUME NEW m, NEW w, NEW r, NEW o, NEW c, NEW x, NEW q, NEW h, NEW a,
         Flow(m, w, r, o, c, x, q, h, a), NEW d, d.pc = c.pc, d.key = c.key
  PROVE Flow(m, w, r, o, d, x, q, h, a)
  BY DEF Flow

\* The call of n while it tells the peers.
LEMMA TellsFields ==
  ASSUME Types, Net, StoreCalls, NEW n \in Nodes, NEW m \in Nodes, Tell(n, m)
  PROVE /\ call[n].pc = "tell" /\ call[n].kind = "store" /\ m \in call[n].to
        /\ call[n].key \in Keys /\ call[n].to \subseteq Peers(n)
        /\ \/ /\ call[n].at = None
              /\ call' = [call EXCEPT ![n] = [call[n] EXCEPT !.at = m]]
              /\ Write(n, m, MessageMark)
           \/ /\ call[n].at = m
              /\ call' = [call EXCEPT ![n] =
                   [call[n] EXCEPT !.at = None, !.to = call[n].to \ {m}]]
              /\ Write(n, m, Piece("store", call[n].key, 2))
<1>1. /\ call[n].pc = "tell" /\ m \in call[n].to /\ CallOK(call[n])
      /\ StoreCall(Peers(n), call[n]) /\ call[n] \in Calling
  BY CallFields DEF Tell, StoreCalls
<1>2. /\ call[n].kind = "store" /\ call[n].key \in Keys
      /\ call[n].to \subseteq Peers(n)
  BY <1>1 DEF StoreCall, CallOK
<1>3. Alive(n, m)
  BY <1>1, <1>2, NoEnds
<1>4. Len(Encrypted(call[n].key)) = 2
  BY <1>2, EncryptedTypes
<1>5. \/ /\ call[n].at = None
         /\ call' = [call EXCEPT ![n] = [call[n] EXCEPT !.at = m]]
         /\ Write(n, m, MessageMark)
      \/ /\ call[n].at = m
         /\ call' = [call EXCEPT ![n] =
              [call[n] EXCEPT !.at = None, !.to = call[n].to \ {m}]]
         /\ Write(n, m, Piece(call[n].kind, call[n].key,
                              Len(Encrypted(call[n].key))))
  BY <1>3 DEF Tell
<1> QED
  BY <1>1, <1>2, <1>4, <1>5

LEMMA StoreTells ==
  ASSUME StoreState, NEW n \in Nodes, NEW m \in Nodes, Tell(n, m)
  PROVE Net' /\ Copies' /\ StoreMode'
<1>1. /\ Types /\ Net /\ Copies /\ StoreCalls /\ StoreLoops /\ Flows
      /\ UNCHANGED <<up, broken, down, reader, open, queue, handler, disk>>
  BY DEF StoreState, StoreMode, Tell, net, links
<1>2. PICK c : c = call[n]
  OBVIOUS
<1>3. /\ c.pc = "tell" /\ c.kind = "store" /\ m \in c.to /\ c.key \in Keys
      /\ c.to \subseteq Peers(n) /\ c \in Calling /\ c.to \subseteq Nodes
  <2>1. c \in Calling
    BY <1>1, <1>2, CallFields
  <2> QED
    BY <1>1, <1>2, <2>1, TellsFields DEF Calling
<1>4. PICK d, e :
        /\ \/ c.at = None /\ d = [c EXCEPT !.at = m] /\ e = MessageMark
           \/ /\ c.at = m /\ d = [c EXCEPT !.at = None, !.to = c.to \ {m}]
              /\ e = Piece("store", c.key, 2)
        /\ call' = [call EXCEPT ![n] = d] /\ Write(n, m, e)
  BY <1>1, <1>2, TellsFields
<1>5. /\ d.pc = "tell" /\ d.kind = "store" /\ d.key = c.key
      /\ \/ c.at = None /\ d.at = m /\ d.to = c.to
         \/ c.at = m /\ d.at = None /\ d.to = c.to \ {m}
  BY <1>3, <1>4 DEF Calling
<1>6. e \in Sent
  BY <1>3, <1>4, SentPieces
<1>7. /\ wire'[n][m] = Append(wire[n][m], e)
      /\ \A a, b \in Nodes : a # n \/ b # m => wire'[a][b] = wire[a][b]
  BY <1>1, <1>4, <1>6, Written
<1>8. call'[n] = d /\ \A b \in Nodes : b # n => call'[b] = call[b]
  BY <1>1, <1>4 DEF Types, CallTypes
<1>9. m # None /\ m \in Peers(n) /\ None \notin Nodes
  BY <1>3, NoneIsNothing
<1>10. ASSUME NEW b \in Peers(n) PROVE FlowOK(n, b)'
  <2>1. b \in Nodes /\ n \in Peers(b) /\ b # None
    BY <1>1, <1>9, PeersKnown DEF Peers
  <2>2. PICK w, r, o, x, q, h :
          /\ w = wire[n][b] /\ r = reader[b][n] /\ o = open[b][n]
          /\ x = Unwritten(b, c) /\ q = queue[b] /\ h = handler[b]
    OBVIOUS
  <2>3. PICK a \in Keys \cup {None} : Flow(n, w, r, o, c, x, q, h, a)
    BY <1>1, <1>2, <2>1, <2>2 DEF Flows, FlowOK
  <2>4. FlowTypes(w, r, o, c, x, q, h)
    BY <1>1, <1>2, <2>1, <2>2, FlowFields
  <2>5. CASE b = m
    <3>1. x \in {4, 5} /\ Unwritten(m, d) = x - 1
          /\ e = IF x = 5 THEN MessageMark ELSE Piece("store", c.key, 2)
      <4>1. CASE c.at = None
        <5>1. x = 5 /\ Unwritten(m, d) = 4
          BY <1>3, <1>5, <1>9, <2>2, <2>5, <4>1 DEF Unwritten
        <5> QED
          BY <1>4, <1>9, <4>1, <5>1
      <4>2. CASE c.at = m
        <5>1. x = 4 /\ Unwritten(m, d) = 3
          BY <1>3, <1>5, <1>9, <2>2, <2>5, <4>2 DEF Unwritten
        <5> QED
          BY <1>4, <1>9, <4>2, <5>1
      <4> QED
        BY <1>4, <4>1, <4>2
    <3>2. Flow(n, Append(w, e), r, o, d, x - 1, q, h, a)
      BY <1>3, <1>5, <1>6, <2>3, <2>4, <3>1, FlowTells
    <3>3. /\ wire'[n][b] = Append(w, e) /\ reader'[b][n] = r
          /\ open'[b][n] = o /\ call'[n] = d /\ queue'[b] = q /\ handler'[b] = h
      BY <1>1, <1>7, <1>8, <2>2, <2>5
    <3> QED
      BY <2>5, <3>1, <3>2, <3>3 DEF FlowOK
  <2>6. CASE b # m
    <3>1. Unwritten(b, d) = x
      BY <1>3, <1>5, <2>1, <2>2, <2>6 DEF Unwritten
    <3>2. Flow(n, w, r, o, d, x, q, h, a)
      BY <1>3, <1>5, <2>3, FlowSame
    <3>3. /\ wire'[n][b] = w /\ reader'[b][n] = r
          /\ open'[b][n] = o /\ call'[n] = d /\ queue'[b] = q /\ handler'[b] = h
      BY <1>1, <1>7, <1>8, <2>1, <2>2, <2>6
    <3> QED
      BY <3>1, <3>2, <3>3 DEF FlowOK
  <2> QED
    BY <2>5, <2>6
<1>11. Flows'
  <2>1. \A a, b \in Nodes : a # n => wire'[a][b] = wire[a][b]
    BY <1>7
  <2> QED
    BY <1>1, <1>8, <1>10, <2>1, FlowsFrom
<1>12. StoreCalls'
  <2>1. StoreCall(Peers(n), d)
    BY <1>3, <1>5 DEF StoreCall
  <2> QED
    BY <1>1, <1>8, <2>1, CallsFrom
<1>13. Net'
  <2>1. n \in Peers(m)
    BY <1>1, <1>9, PeersKnown
  <2> QED
    BY <1>1, <1>7, <2>1, NetStays
<1>14. Copies'
  BY <1>1, <1>2, <1>3, <1>5, <1>8, CopiesStay DEF Writing
<1> QED
  BY <1>1, <1>11, <1>12, <1>13, <1>14, LoopsStay DEF StoreMode

\* A Store without a peer ends here.
LEMMA StoreSendsFile ==
  ASSUME StoreState, NEW n \in Nodes, SendFile(n), Timely
  PROVE Net' /\ Copies' /\ StoreMode'
<1>1. /\ Types /\ Net /\ Copies /\ StoreCalls /\ StoreLoops /\ Flows
      /\ \A m \in Peers(n) : wire[n][m] = <<>>
      /\ UNCHANGED <<up, broken, down, wire, reader, open, queue, handler,
                     disk>>
  BY DEF StoreState, StoreMode, SendFile, InTime, Timely, Undisturbed, links
<1>2. PICK c, t : c = call[n] /\ t = <<StreamMark>> \o Encrypted(c.key)
  OBVIOUS
<1>3. /\ c.pc = "tell" /\ c.kind = "store" /\ c.to = {} /\ c.key \in Keys
      /\ c \in Calling
  BY <1>1, <1>2, CallFields DEF SendFile, Told, CallOK
<1>4. /\ t \in Seq(Sent) /\ Len(t) = 3 /\ t[1] = StreamMark
      /\ t[2] = Piece("iv", c.key, 0) /\ t[3] = Piece("data", c.key, 0)
  <2>1. PICK x, y, z : /\ x = StreamMark /\ y = Piece("iv", c.key, 0)
                       /\ z = Piece("data", c.key, 0)
    OBVIOUS
  <2>2. x \in Sent /\ y \in Sent /\ z \in Sent
    BY <1>3, <2>1, SentPieces
  <2>3. t = <<x>> \o <<y, z>>
    BY <1>2, <1>3, <2>1, EncryptedTypes
  <2> QED
    BY <2>1, <2>2, <2>3
<1>5. PICK d : /\ call' = [call EXCEPT ![n] = d]
               /\ \/ Peers(n) = {} /\ d = NoCall
                  \/ d = [c EXCEPT !.pc = "stream", !.to = Peers(n), !.todo = t]
  BY <1>2 DEF SendFile
<1>6. d.kind = "store" /\ (\/ Peers(n) = {} /\ d.pc = "idle"
                           \/ /\ d.pc = "stream" /\ d.to = Peers(n)
                              /\ d.todo = t /\ d.key = c.key)
  <2>1. CASE Peers(n) = {} /\ d = NoCall
    BY <2>1 DEF NoCall
  <2>2. CASE d = [c EXCEPT !.pc = "stream", !.to = Peers(n), !.todo = t]
    <3>1. PICK P : P = Peers(n)
      OBVIOUS
    <3>2. d = [c EXCEPT !.pc = "stream", !.to = P, !.todo = t]
      BY <2>2, <3>1
    <3>3. /\ d.kind = "store" /\ d.pc = "stream" /\ d.to = P /\ d.todo = t
          /\ d.key = c.key
      BY <1>3, <3>2 DEF Calling
    <3> QED
      BY <3>1, <3>3
  <2> QED
    BY <1>5, <2>1, <2>2
<1>7. call'[n] = d /\ \A b \in Nodes : b # n => call'[b] = call[b]
  BY <1>1, <1>5 DEF Types, CallTypes
<1>8. StoreCall(Peers(n), d)
  <2>1. Carries(t, 8, StoreTokens(c.key, c.key))
    <3>1. DOMAIN t = 1..3
      BY <1>4
    <3> QED
      BY <1>4, <3>1, Tokens DEF Carries
  <2>2. Len(t) + 5 = 8 /\ Len(t) <= 3
    BY <1>4
  <2>3. CASE d.pc = "idle"
    BY <1>6, <2>3 DEF StoreCall
  <2>4. CASE d.pc # "idle"
    <3>1. /\ d.pc = "stream" /\ d.to = Peers(n) /\ d.todo = t
          /\ d.key = c.key /\ d.kind = "store"
      BY <1>6, <2>4
    <3>2. Carries(d.todo, Len(d.todo) + 5, StoreTokens(d.key, d.key))
      BY <2>1, <2>2, <3>1
    <3>3. Len(d.todo) <= 3
      BY <2>2, <3>1
    <3> QED
      BY <3>1, <3>2, <3>3 DEF StoreCall
  <2> QED
    BY <2>3, <2>4
<1>9. ASSUME NEW b \in Peers(n) PROVE FlowOK(n, b)'
  <2>1. b \in Nodes /\ n \in Peers(b)
    BY <1>1, PeersKnown DEF Peers
  <2>2. PICK w, r, o, x, q, h :
          /\ w = wire[n][b] /\ r = reader[b][n] /\ o = open[b][n]
          /\ x = Unwritten(b, c) /\ q = queue[b] /\ h = handler[b]
    OBVIOUS
  <2>3. PICK a \in Keys \cup {None} : Flow(n, w, r, o, c, x, q, h, a)
    BY <1>1, <1>2, <2>1, <2>2 DEF Flows, FlowOK
  <2>4. FlowTypes(w, r, o, c, x, q, h)
    BY <1>1, <1>2, <2>1, <2>2, FlowFields
  <2>5. /\ x = 3 /\ w = <<>> /\ d.key = c.key /\ d.pc = "stream"
        /\ d.todo = t /\ b \in d.to
    BY <1>1, <1>3, <1>6, <2>2 DEF Unwritten
  <2>6. Flow(n, w, r, o, d, 3, q, h, a)
    BY <2>3, <2>4, <2>5, FlowStreams
  <2>7. Unwritten(b, d) = 3
    BY <1>4, <2>5 DEF Unwritten
  <2>8. /\ wire'[n][b] = w /\ reader'[b][n] = r
        /\ open'[b][n] = o /\ call'[n] = d /\ queue'[b] = q /\ handler'[b] = h
    BY <1>1, <1>7, <2>2
  <2> QED
    BY <2>6, <2>7, <2>8 DEF FlowOK
<1>10. Flows'
  BY <1>1, <1>7, <1>9, FlowsFrom
<1>11. StoreCalls'
  BY <1>1, <1>7, <1>8, CallsFrom
<1>12. Net'
  BY <1>1, PeersStay DEF Net
<1>13. Copies'
  BY <1>1, <1>2, <1>3, <1>6, <1>7, CopiesStay DEF Writing
<1> QED
  BY <1>1, <1>10, <1>11, <1>12, <1>13, LoopsStay DEF StoreMode

\* A piece of the file goes to every peer.
LEMMA StoreStreams ==
  ASSUME StoreState, NEW n \in Nodes, StreamPiece(n)
  PROVE Net' /\ Copies' /\ StoreMode'
<1>1. /\ Types /\ Net /\ Copies /\ StoreCalls /\ StoreLoops /\ Flows
      /\ UNCHANGED <<up, broken, down, reader, open, queue, handler, disk>>
  BY DEF StoreState, StoreMode, StreamPiece, net, links
<1>2. PICK c, s, e, t : /\ c = call[n] /\ s = c.todo /\ e = Head(s)
                        /\ t = Tail(s)
  OBVIOUS
<1>3. /\ c.pc = "stream" /\ c.kind = "store" /\ c.to \subseteq Peers(n)
      /\ c \in Calling /\ s \in Seq(Sent) /\ s # <<>>
      /\ Carries(s, Len(s) + 5, StoreTokens(c.key, c.key)) /\ Len(s) <= 3
  <2>1. c.pc = "stream" /\ StoreCall(Peers(n), c) /\ c \in Calling
    BY <1>1, <1>2, CallFields DEF StreamPiece, StoreCalls
  <2> QED
    BY <1>1, <1>2, <2>1, StreamTodo DEF StoreCall
<1>4. /\ e = s[1] /\ e \in Sent /\ t \in Seq(Sent) /\ Len(t) = Len(s) - 1
      /\ Len(s) \in Nat /\ Len(s) > 0 /\ \A i \in 1..Len(t) : t[i] = s[i + 1]
  BY <1>2, <1>3
<1>5. \A m \in c.to : Alive(n, m)
  BY <1>1, <1>3, NoEnds
<1>6. /\ call' = [call EXCEPT ![n] = IF t = <<>> THEN NoCall
                                     ELSE [c EXCEPT !.todo = t]]
      /\ wire' = [wire EXCEPT ![n] =
           [m \in Nodes |-> IF m \in c.to THEN Append(wire[n][m], e)
                            ELSE wire[n][m]]]
  <2>1. {m \in c.to : Alive(n, m)} = c.to
    BY <1>3, <1>5
  <2> QED
    BY <1>2, <1>3, <2>1 DEF StreamPiece
<1>7. PICK d : d = IF t = <<>> THEN NoCall ELSE [c EXCEPT !.todo = t]
  OBVIOUS
<1>8. d.kind = "store" /\ (\/ t = <<>> /\ d.pc = "idle"
                           \/ /\ t # <<>> /\ d.pc = "stream"
                              /\ d.to = c.to /\ d.todo = t
                              /\ d.key = c.key)
  BY <1>3, <1>7 DEF NoCall, Calling
<1>9. call'[n] = d /\ \A b \in Nodes : b # n => call'[b] = call[b]
  BY <1>1, <1>6, <1>7 DEF Types, CallTypes
<1>10. \A a, b \in Nodes : wire'[a][b] =
         IF a = n /\ b \in c.to THEN Append(wire[a][b], e) ELSE wire[a][b]
  <2>1. PICK P : P = c.to
    OBVIOUS
  <2>2. Types /\ e \in Sent
    BY <1>1, <1>4
  <2>3. wire' = [wire EXCEPT ![n] =
          [m \in Nodes |-> IF m \in P THEN Append(wire[n][m], e)
                           ELSE wire[n][m]]]
    BY <1>6, <2>1
  <2>4. \A a, b \in Nodes : wire'[a][b] =
          IF a = n /\ b \in P THEN Append(wire[a][b], e) ELSE wire[a][b]
    BY <2>2, <2>3, WrittenToAll
  <2> QED
    BY <2>1, <2>4
<1>11. StoreCall(Peers(n), d)
  <2>1. ASSUME t # <<>>
        PROVE /\ Carries(t, Len(t) + 5, StoreTokens(c.key, c.key))
              /\ Len(t) <= 3
    <3>1. Carries(t, Len(s) + 5 - 1, StoreTokens(c.key, c.key))
      BY <1>3, <1>4, CarriesRest
    <3>2. Len(s) + 5 - 1 = Len(t) + 5 /\ Len(t) <= 3
      BY <1>3, <1>4
    <3> QED
      BY <3>1, <3>2
  <2> QED
    BY <1>3, <1>8, <2>1 DEF StoreCall
<1>12. ASSUME NEW b \in c.to PROVE FlowOK(n, b)'
  <2>1. b \in Nodes /\ n \in Peers(b)
    BY <1>1, <1>3, PeersKnown DEF Peers
  <2>2. PICK w, r, o, x, q, h :
          /\ w = wire[n][b] /\ r = reader[b][n] /\ o = open[b][n]
          /\ x = Unwritten(b, c) /\ q = queue[b] /\ h = handler[b]
    OBVIOUS
  <2>3. PICK a \in Keys \cup {None} : Flow(n, w, r, o, c, x, q, h, a)
    BY <1>1, <1>2, <2>1, <2>2 DEF Flows, FlowOK
  <2>4. FlowTypes(w, r, o, c, x, q, h)
    BY <1>1, <1>2, <2>1, <2>2, FlowFields
  <2>5. x = Len(s)
    BY <1>2, <1>3, <2>2 DEF Unwritten
  <2>6. Carries(c.todo, x + 5, StoreTokens(c.key, c.key))
    BY <1>2, <1>3, <2>5
  <2>7. Unwritten(b, d) = x - 1 /\ (d.key = c.key \/ x = 1)
    <3>1. CASE t = <<>>
      <4>1. Len(t) = 0
        BY <3>1
      <4>2. x = 1
        BY <1>4, <2>5, <4>1
      <4> QED
        BY <1>8, <3>1, <4>2 DEF Unwritten
    <3>2. CASE t # <<>>
      BY <1>4, <1>8, <2>5, <3>2 DEF Unwritten
    <3> QED
      BY <3>1, <3>2
  <2>8. Flow(n, Append(w, Head(c.todo)), r, o, d, x - 1, q, h, a)
    BY <1>3, <1>4, <2>3, <2>4, <2>5, <2>6, <2>7, FlowPieces
  <2>9. /\ wire'[n][b] = Append(w, Head(c.todo)) /\ reader'[b][n] = r
        /\ open'[b][n] = o /\ call'[n] = d /\ queue'[b] = q /\ handler'[b] = h
    BY <1>1, <1>2, <1>9, <1>10, <2>1, <2>2
  <2> QED
    BY <2>7, <2>8, <2>9 DEF FlowOK
<1>13. ASSUME NEW b \in Peers(n) \ c.to PROVE FlowOK(n, b)'
  <2>1. b \in Nodes /\ n \in Peers(b)
    BY <1>1, PeersKnown DEF Peers
  <2>2. PICK w, r, o, x, q, h :
          /\ w = wire[n][b] /\ r = reader[b][n] /\ o = open[b][n]
          /\ x = Unwritten(b, c) /\ q = queue[b] /\ h = handler[b]
    OBVIOUS
  <2>3. PICK a \in Keys \cup {None} : Flow(n, w, r, o, c, x, q, h, a)
    BY <1>1, <1>2, <2>1, <2>2 DEF Flows, FlowOK
  <2>4. FlowTypes(w, r, o, c, x, q, h)
    BY <1>1, <1>2, <2>1, <2>2, FlowFields
  <2>5. x = 0 /\ Unwritten(b, d) = 0
    BY <1>3, <1>8, <2>2 DEF Unwritten
  <2>6. Flow(n, w, r, o, d, 0, q, h, a)
    BY <1>3, <2>3, <2>4, <2>5, FlowSpared
  <2>7. /\ wire'[n][b] = w /\ reader'[b][n] = r /\ open'[b][n] = o
        /\ call'[n] = d /\ queue'[b] = q /\ handler'[b] = h
    BY <1>1, <1>9, <1>10, <2>1, <2>2
  <2> QED
    BY <2>5, <2>6, <2>7 DEF FlowOK
<1>14. Flows'
  <2>1. \A a, b \in Nodes : a # n => wire'[a][b] = wire[a][b]
    BY <1>10
  <2> QED
    BY <1>1, <1>9, <1>12, <1>13, <2>1, FlowsFrom
<1>15. StoreCalls'
  BY <1>1, <1>9, <1>11, CallsFrom
<1>16. Net'
  <2> SUFFICES ASSUME NEW b \in Nodes, NEW a \in Nodes \ Peers(b)
               PROVE wire'[a][b] = <<>>
    BY <1>1, PeersStay DEF Net
  <2>1. ~(a = n /\ b \in c.to)
    BY <1>1, <1>3, PeersKnown
  <2> QED
    BY <1>1, <1>10, <2>1 DEF Net
<1>17. Copies'
  BY <1>1, <1>2, <1>3, <1>8, <1>9, CopiesStay DEF Writing
<1> QED
  BY <1>1, <1>14, <1>15, <1>16, <1>17, LoopsStay DEF StoreMode

\* The loop of n goes on: only the flows to n change.
LEMMA FlowsTo ==
  ASSUME Types, Flows, NEW n \in Nodes, UNCHANGED <<up, broken, reader, call>>,
         \A b \in Nodes : b # n => /\ queue'[b] = queue[b]
                                   /\ handler'[b] = handler[b],
         \A a, b \in Nodes : b # n => /\ wire'[a][b] = wire[a][b]
                                      /\ open'[b][a] = open[b][a],
         \A m \in Peers(n) : FlowOK(m, n)'
  PROVE Flows'
<1> SUFFICES ASSUME NEW b \in Nodes, NEW m \in Peers(b) PROVE FlowOK(m, b)'
  BY PeersStay DEF Flows
<1>1. m \in Nodes /\ FlowOK(m, b)
  BY DEF Peers, Flows
<1>2. CASE b # n
  BY <1>1, <1>2, FlowStays
<1>3. CASE b = n
  BY <1>3
<1> QED
  BY <1>2, <1>3

LEMMA LoopsTo ==
  ASSUME StoreLoops, NEW n \in Nodes, UNCHANGED <<up, broken>>,
         \A b \in Nodes : b # n => /\ queue'[b] = queue[b]
                                   /\ handler'[b] = handler[b]
                                   /\ disk'[b] = disk[b],
         StoreLoop(Peers(n), queue'[n], handler'[n], disk'[n])
  PROVE StoreLoops'
  BY PeersStay DEF StoreLoops

\* What the loop of n does for others is not seen in the flow from m.
LEMMA FlowIgnores ==
  ASSUME NEW m, NEW w, NEW r, NEW o, NEW c, NEW x, NEW q, NEW h, NEW a,
         Flow(m, w, r, o, c, x, q, h, a), ~(h.pc = "store" /\ h.from = m),
         NEW g, ~(g.pc = "store" /\ g.from = m)
  PROVE Flow(m, w, r, o, c, x, q, g, a)
<1>1. PICK l : l = Len(w) + x
  OBVIOUS
<1>2. Awaits(m, q, h, a, Rest(l)) => Awaits(m, q, g, a, Rest(l))
  BY DEF Awaits, Expects
<1>3. Stage(m, r, o, h, Rest(l)) => Stage(m, r, o, g, Rest(l))
  BY DEF Stage
<1> QED
  BY <1>1, <1>2, <1>3 DEF Flow

LEMMA LoopTakes ==
  ASSUME NEW P, NEW q \in Seq(Message), q # <<>>, NEW h, NEW d,
         StoreLoop(P, q, h, d), NEW g, g.pc = "store", g.from = q[1].from,
         g.key = q[1].key, g.want = 2, NEW e, e[<<g.from, g.key>>].data = <<>>
  PROVE StoreLoop(P, Tail(q), g, e)
<1>1. PICK p : p = Tail(q)
  OBVIOUS
<1>2. /\ DOMAIN q = 1..Len(q) /\ Len(q) \in Nat /\ Len(q) > 0
      /\ DOMAIN p = 1..(Len(q) - 1)
      /\ \A i \in 1..(Len(q) - 1) : p[i] = q[i + 1]
  BY <1>1, EmptySeq
<1>3. ASSUME NEW i \in DOMAIN p
      PROVE /\ p[i].is = "store" /\ p[i].from \in P /\ p[i].from # q[1].from
            /\ \A j \in DOMAIN p : p[j].from = p[i].from => j = i
  <2>1. i + 1 \in DOMAIN q /\ 1 \in DOMAIN q /\ i + 1 # 1 /\ p[i] = q[i + 1]
        /\ i \in Nat
    BY <1>2
  <2>2. /\ q[i + 1].is = "store" /\ q[i + 1].from \in P
        /\ \A j \in DOMAIN q : q[j].from = q[i + 1].from => j = i + 1
    BY <2>1 DEF StoreLoop
  <2>3. ASSUME NEW j \in DOMAIN p, p[j].from = p[i].from PROVE j = i
    <3>1. j + 1 \in DOMAIN q /\ p[j] = q[j + 1] /\ j \in Nat
      BY <1>2
    <3>2. j + 1 = i + 1
      BY <2>1, <2>2, <2>3, <3>1
    <3> QED
      BY <2>1, <3>1, <3>2
  <2>4. q[1].from # q[i + 1].from
    BY <2>1, <2>2
  <2> QED
    BY <2>1, <2>2, <2>3, <2>4
<1>4. q[1].from \in P
  <2>1. 1 \in DOMAIN q
    BY <1>2
  <2> QED
    BY <2>1 DEF StoreLoop
<1>5. g.pc # "get"
  OBVIOUS
<1> QED
  BY <1>1, <1>3, <1>4, <1>5 DEF StoreLoop

LEMMA StoreTakes ==
  ASSUME StoreState, NEW n \in Nodes, Dispatch(n)
  PROVE Net' /\ Copies' /\ StoreMode'
<1>1. /\ Types /\ Net /\ Copies /\ StoreCalls /\ StoreLoops /\ Flows
      /\ handler[n].pc = "idle" /\ queue[n] # <<>>
      /\ UNCHANGED <<up, broken, down, wire, reader, open, call>>
  BY DEF StoreState, StoreMode, Dispatch, net, links
<1>2. PICK q, h, x, f : /\ q = queue[n] /\ h = handler[n] /\ x = q[1]
                        /\ f = <<x.from, x.key>>
  OBVIOUS
<1>3. /\ q \in Seq(Message) /\ q # <<>> /\ Head(queue[n]) = x /\ x \in Message
      /\ Tail(q) \in Seq(Message) /\ f \in Files /\ 1 \in DOMAIN q
  <2>1. Types /\ queue[n] # <<>>
    BY <1>1
  <2>2. /\ queue[n] \in Seq(Message) /\ Head(queue[n]) \in Message
        /\ Head(queue[n]) = queue[n][1] /\ Len(queue[n]) > 0
        /\ Tail(queue[n]) \in Seq(Message)
        /\ <<Head(queue[n]).from, Head(queue[n]).key>> \in Files
    BY <2>1, QueueFields
  <2>3. 1 \in DOMAIN queue[n]
    BY <2>2
  <2> QED
    BY <1>2, <2>1, <2>2, <2>3
<1>4. StoreLoop(Peers(n), q, h, disk[n]) /\ x.is = "store"
  <2>1. StoreLoop(Peers(n), q, h, disk[n])
    BY <1>1, <1>2 DEF StoreLoops
  <2> QED
    BY <1>2, <1>3, <2>1 DEF StoreLoop
<1>5. PICK g : g = [NoWork EXCEPT !.pc = "store", !.from = x.from,
                                  !.key = x.key, !.want = x.size]
  OBVIOUS
<1>6. /\ g.pc = "store" /\ g.from = x.from /\ g.key = x.key /\ g.want = 2
  BY <1>3, <1>5 DEF NoWork, Message
<1>7. /\ queue' = [queue EXCEPT ![n] = Tail(q)]
      /\ handler' = [handler EXCEPT ![n] = g]
      /\ disk' = [disk EXCEPT ![n][f] = File(<<>>)]
  BY <1>2, <1>3, <1>4, <1>5 DEF Dispatch, Opened
<1>8. /\ queue'[n] = Tail(q) /\ handler'[n] = g
      /\ disk'[n][f].data = <<>>
      /\ \A b \in Nodes : b # n => /\ queue'[b] = queue[b]
                                   /\ handler'[b] = handler[b]
                                   /\ disk'[b] = disk[b]
      /\ \A b \in Nodes, e \in Files :
           b # n \/ e # f => disk'[b][e] = disk[b][e]
  BY <1>1, <1>3, <1>7
  DEF Types, QueueTypes, WorkTypes, DiskTypes, File
<1>9. StoreLoops'
  <2>1. disk'[n][<<g.from, g.key>>].data = <<>>
    BY <1>2, <1>6, <1>8
  <2>2. StoreLoop(Peers(n), Tail(q), g, disk'[n])
    BY <1>2, <1>3, <1>4, <1>6, <2>1, LoopTakes
  <2> QED
    BY <1>1, <1>8, <2>2, LoopsTo
<1>10. ASSUME NEW m \in Peers(n) PROVE FlowOK(m, n)'
  <2>1. m \in Nodes
    BY DEF Peers
  <2>2. PICK w, r, o, c, y :
          /\ w = wire[m][n] /\ r = reader[n][m] /\ o = open[n][m]
          /\ c = call[m] /\ y = Unwritten(n, call[m])
    OBVIOUS
  <2>3. PICK a \in Keys \cup {None} : Flow(m, w, r, o, c, y, q, h, a)
    BY <1>1, <1>2, <2>2 DEF Flows, FlowOK
  <2>4. FlowTypes(w, r, o, c, y, q, h)
    BY <1>1, <1>2, <2>1, <2>2, FlowFields
  <2>5. h.pc = "idle" /\ g.from = q[1].from /\ g.key = q[1].key
    BY <1>1, <1>2, <1>6
  <2>6. Flow(m, w, r, o, c, y, Tail(q), g, a)
    BY <1>3, <1>6, <2>3, <2>4, <2>5, FlowTaken
  <2>7. /\ wire'[m][n] = w /\ reader'[n][m] = r /\ open'[n][m] = o
        /\ call'[m] = c /\ queue'[n] = Tail(q) /\ handler'[n] = g
        /\ Unwritten(n, call'[m]) = y
    BY <1>1, <1>8, <2>2
  <2> QED
    BY <2>6, <2>7 DEF FlowOK
<1>11. Flows'
  BY <1>1, <1>8, <1>10, FlowsTo
<1>12. Net'
  BY <1>1, PeersStay DEF Net
<1>13. Copies'
  <2> SUFFICES ASSUME NEW b \in Nodes, NEW e \in Files PROVE CopyWhole(b, e)'
    BY DEF Copies
  <2>1. CASE b = n /\ e = f
    <3>1. Writing(n, f)'
      BY <1>2, <1>6, <1>8 DEF Writing
    <3> QED
      BY <2>1, <3>1 DEF CopyWhole
  <2>2. CASE b # n \/ e # f
    <3>1. CopyWhole(b, e) /\ disk'[b][e] = disk[b][e]
      BY <1>1, <1>8, <2>2 DEF Copies
    <3>2. Writing(b, e) => Writing(b, e)'
      BY <1>1, <1>8 DEF Writing
    <3> QED
      BY <3>1, <3>2 DEF CopyWhole
  <2> QED
    BY <2>1, <2>2
<1> QED
  BY <1>1, <1>9, <1>11, <1>12, <1>13, CallsStay DEF StoreMode

LEMMA AppendOne ==
  ASSUME NEW x \in Sent, NEW y \in Sent PROVE Append(<<x>>, y) = <<x, y>>
<1>1. PICK s, t : s = Append(<<x>>, y) /\ t = <<x, y>>
  OBVIOUS
<1>2. /\ s \in Seq(Sent) /\ t \in Seq(Sent) /\ Len(s) = 2 /\ Len(t) = 2
      /\ s[1] = x /\ s[2] = y /\ t[1] = x /\ t[2] = y
  BY <1>1
<1>3. \A i \in 1..2 : s[i] = t[i]
  BY <1>2
<1> QED
  BY <1>1, <1>2, <1>3, SeqEqual

LEMMA StoreCopies ==
  ASSUME StoreState, NEW n \in Nodes, StoreData(n), Timely
  PROVE Net' /\ Copies' /\ StoreMode'
<1>1. /\ Types /\ Net /\ Copies /\ StoreCalls /\ StoreLoops /\ Flows
      /\ handler[n].pc = "store"
      /\ UNCHANGED <<up, broken, reader, queue, call>>
  BY DEF StoreState, StoreMode, StoreData, links
<1>2. PICK q, h, m, f : /\ q = queue[n] /\ h = handler[n] /\ m = h.from
                        /\ f = <<m, h.key>>
  OBVIOUS
<1>3. /\ h.pc = "store" /\ m \in Peers(n) /\ m \in Nodes /\ h.key \in Keys
      /\ f \in Files /\ h.want \in {1, 2} /\ q \in Seq(Message)
      /\ \A i \in DOMAIN q : q[i].from # m
      /\ disk[n][f].data =
           IF h.want = 2 THEN <<>> ELSE <<Piece("iv", h.key, 0)>>
  <2>1. StoreLoop(Peers(n), q, h, disk[n])
    BY <1>1, <1>2 DEF StoreLoops
  <2>2. h.pc = "store" /\ h.key \in Keys /\ q \in Seq(Message)
    BY <1>1, <1>2, WorkFields DEF WorkOK, Types, QueueTypes
  <2>3. m \in Peers(n) /\ m \in Nodes
    BY <1>2, <2>1, <2>2 DEF StoreLoop, Peers
  <2> QED
    BY <1>2, <2>1, <2>2, <2>3 DEF StoreLoop, Files
<1>4. /\ Arrived(n, m) /\ reader[n][m] = "parked"
      /\ disk' = [disk EXCEPT ![n][f].data = Append(@, Next1(n, m))]
      /\ Drain(n, m, 1)
      /\ handler' = [handler EXCEPT ![n] =
           IF h.want = 1 THEN NoWork
           ELSE [handler[n] EXCEPT !.want = @ - 1]]
      /\ IF h.want = 1 THEN CloseStream(n, m) ELSE KeepStream
  <2>1. ~Ended(n, m)
    BY <1>1, <1>3, NoEnds
  <2> QED
    BY <1>2, <2>1 DEF StoreData, Turn, InTime, Timely, Undisturbed
<1>5. PICK w, r, o, c, x, v, e :
        /\ w = wire[m][n] /\ r = reader[n][m] /\ o = open[n][m] /\ c = call[m]
        /\ x = Unwritten(n, call[m]) /\ v = wire'[m][n] /\ e = Next1(n, m)
  OBVIOUS
<1>6. /\ e = w[1] /\ e \in Sent /\ w # <<>>
      /\ v \in Seq(Sent) /\ Len(v) = Len(w) - 1
      /\ \A i \in 1..Len(v) : v[i] = w[i + 1]
      /\ \A b, d \in Nodes : b # m \/ d # n => wire'[b][d] = wire[b][d]
  BY <1>1, <1>3, <1>4, <1>5, Read1 DEF Arrived
<1>7. PICK a \in Keys \cup {None} : Flow(m, w, r, o, c, x, q, h, a)
  BY <1>1, <1>2, <1>3, <1>5 DEF Flows, FlowOK
<1>8. FlowTypes(w, r, o, c, x, q, h)
  BY <1>1, <1>2, <1>3, <1>5, FlowFields
<1>9. Copied(m, w, v, r, o, c, x, q, h, a)
  <2>1. h.pc = "store" /\ h.from = m
    BY <1>2, <1>3
  <2>2. r = "parked"
    BY <1>4, <1>5
  <2>3. w # <<>> /\ v \in Seq(Sent) /\ Len(v) = Len(w) - 1
    BY <1>6
  <2>4. \A i \in 1..Len(v) : v[i] = w[i + 1]
    BY <1>6
  <2>5. \A i \in DOMAIN q : q[i].from # m
    BY <1>3
  <2> QED
    BY <1>7, <1>8, <2>1, <2>2, <2>3, <2>4, <2>5, FlowCopied
<1>10. PICK g : g = IF h.want = 1 THEN NoWork ELSE [h EXCEPT !.want = 1]
  OBVIOUS
<1>11. /\ h.want = 1 => g.pc = "idle"
       /\ h.want = 2 => /\ g.pc = "store" /\ g.from = m /\ g.key = h.key
                        /\ g.want = 1
  <2>1. h \in Work
    BY <1>1, <1>2, WorkFields
  <2> QED
    BY <1>2, <1>3, <1>10, <2>1 DEF NoWork, Work
<1>12. handler' = [handler EXCEPT ![n] = g]
  <2>1. CASE h.want = 1
    BY <1>4, <1>10, <2>1
  <2>2. CASE h.want = 2
    <3>1. h.want - 1 = 1
      BY <2>2
    <3> QED
      BY <1>2, <1>4, <1>10, <2>2, <3>1
  <2> QED
    BY <1>3, <2>1, <2>2
<1>13. /\ handler'[n] = g
       /\ \A b \in Nodes : b # n => handler'[b] = handler[b]
  BY <1>1, <1>12 DEF Types, WorkTypes
<1>14. PICK u : /\ u = IF h.want = 1 THEN 0 ELSE o
                /\ \A b, d \in Nodes :
                     open'[b][d] = IF b = n /\ d = m THEN u ELSE open[b][d]
                /\ UNCHANGED down
  <2>1. CASE h.want = 1
    <3>1. open' = [open EXCEPT ![n][m] = 0] /\ UNCHANGED down
      <4>1. open[n][m] # 0
        BY <1>5, <1>9 DEF Copied
      <4> QED
        BY <1>4, <2>1, <4>1 DEF CloseStream
    <3>2. \A b, d \in Nodes :
            open'[b][d] = IF b = n /\ d = m THEN 0 ELSE open[b][d]
      BY <1>1, <1>3, <3>1 DEF Types, ReaderTypes
    <3> QED
      BY <2>1, <3>1, <3>2
  <2>2. CASE h.want = 2
    BY <1>4, <1>5, <2>2 DEF KeepStream
  <2> QED
    BY <1>3, <2>1, <2>2
<1>15. Flow(m, v, r, u, c, x, q, g, a)
  <2>1. CASE h.want = 1
    BY <1>9, <1>11, <1>14, <2>1 DEF Copied
  <2>2. CASE h.want = 2
    BY <1>9, <1>11, <1>14, <2>2 DEF Copied
  <2> QED
    BY <1>3, <2>1, <2>2
<1>16. ASSUME NEW b \in Peers(n) PROVE FlowOK(b, n)'
  <2>1. b \in Nodes
    BY DEF Peers
  <2>2. CASE b = m
    <3>1. /\ wire'[m][n] = v /\ reader'[n][m] = r /\ open'[n][m] = u
          /\ call'[m] = c /\ queue'[n] = q /\ handler'[n] = g
          /\ Unwritten(n, call'[m]) = x
      BY <1>1, <1>2, <1>3, <1>5, <1>13, <1>14
    <3> QED
      BY <1>15, <2>2, <3>1 DEF FlowOK
  <2>3. CASE b # m
    <3>1. PICK y \in Keys \cup {None} :
            Flow(b, wire[b][n], reader[n][b], open[n][b], call[b],
                 Unwritten(n, call[b]), q, h, y)
      BY <1>1, <1>2 DEF Flows, FlowOK
    <3>2. ~(h.pc = "store" /\ h.from = b) /\ ~(g.pc = "store" /\ g.from = b)
      BY <1>2, <1>3, <1>11, <2>3
    <3>3. Flow(b, wire[b][n], reader[n][b], open[n][b], call[b],
               Unwritten(n, call[b]), q, g, y)
      BY <3>1, <3>2, FlowIgnores
    <3>4. /\ wire'[b][n] = wire[b][n] /\ reader'[n][b] = reader[n][b]
          /\ open'[n][b] = open[n][b] /\ call'[b] = call[b]
          /\ queue'[n] = q /\ handler'[n] = g
      BY <1>1, <1>2, <1>6, <1>13, <1>14, <2>1, <2>3
    <3> QED
      BY <3>3, <3>4 DEF FlowOK
  <2> QED
    BY <2>2, <2>3
<1>17. Flows'
  <2>1. \A b \in Nodes : b # n => /\ queue'[b] = queue[b]
                                  /\ handler'[b] = handler[b]
    BY <1>1, <1>13
  <2>2. \A b, d \in Nodes : d # n => /\ wire'[b][d] = wire[b][d]
                                     /\ open'[d][b] = open[d][b]
    BY <1>6, <1>14
  <2> QED
    BY <1>1, <1>16, <2>1, <2>2, FlowsTo
<1>18. /\ disk'[n][f].data = Append(disk[n][f].data, e)
       /\ \A b \in Nodes, d \in Files :
            b # n \/ d # f => disk'[b][d] = disk[b][d]
       /\ \A b \in Nodes : b # n => disk'[b] = disk[b]
  <2>1. Types /\ Grows(n, f, e)
    BY <1>1, <1>4, <1>5 DEF Grows
  <2>2. /\ disk'[n][f].data = Append(disk[n][f].data, e)
        /\ \A b \in Nodes : \A d \in Files :
             b # n \/ d # f => disk'[b][d] = disk[b][d]
    BY <1>3, <1>6, <2>1, CopyGrows
  <2>3. \A b \in Nodes : b # n => disk'[b] = disk[b]
    BY <1>1, <1>4 DEF Types, DiskTypes
  <2> QED
    BY <2>2, <2>3
<1>19. /\ h.want = 2 => disk'[n][f].data = <<Piece("iv", h.key, 0)>>
       /\ h.want = 1 => disk'[n][f].data = Encrypted(h.key)
  <2>1. CASE h.want = 2
    <3>1. Append(<<>>, e) = <<e>>
      OBVIOUS
    <3> QED
      BY <1>3, <1>6, <1>9, <1>18, <2>1, <3>1 DEF Copied
  <2>2. CASE h.want = 1
    <3>1. PICK y : y = Piece("iv", h.key, 0)
      OBVIOUS
    <3>2. Append(<<y>>, e) = <<y, e>>
      <4>1. y \in Sent /\ e \in Sent
        BY <1>3, <1>6, <3>1, SentPieces
      <4> QED
        BY <4>1, AppendOne
    <3>3. Encrypted(h.key) = <<y, e>>
      BY <1>3, <1>6, <1>9, <2>2, <3>1, EncryptedTypes DEF Copied
    <3> QED
      BY <1>3, <1>18, <2>2, <3>1, <3>2, <3>3
  <2> QED
    BY <1>3, <2>1, <2>2
<1>20. StoreLoops'
  <2>1. StoreLoop(Peers(n), q, h, disk[n])
    BY <1>1, <1>2 DEF StoreLoops
  <2>2. g.pc = "store" => /\ g.from = m /\ g.key = h.key /\ g.want = 1
                          /\ h.want = 2
    BY <1>3, <1>11
  <2>3. g.pc # "get"
    BY <1>3, <1>11
  <2>4. g.pc = "store" =>
          disk'[n][<<g.from, g.key>>].data = <<Piece("iv", g.key, 0)>>
    BY <1>2, <1>19, <2>2
  <2>5. ASSUME NEW i \in DOMAIN q
        PROVE /\ q[i].is = "store" /\ q[i].from \in Peers(n)
              /\ g.pc = "store" => q[i].from # g.from
              /\ \A j \in DOMAIN q : q[j].from = q[i].from => j = i
    BY <1>3, <2>1, <2>2 DEF StoreLoop
  <2>6. g.pc = "store" =>
          /\ g.from \in Peers(n) /\ g.want \in {1, 2}
          /\ disk'[n][<<g.from, g.key>>].data =
               IF g.want = 2 THEN <<>> ELSE <<Piece("iv", g.key, 0)>>
    BY <1>3, <2>2, <2>4
  <2>7. StoreLoop(Peers(n), q, g, disk'[n])
    BY <2>3, <2>5, <2>6 DEF StoreLoop
  <2> QED
    BY <1>1, <1>2, <1>13, <1>18, <2>7, LoopsTo
<1>21. Net'
  BY <1>1, <1>3, <1>6, <1>14, NetStays
<1>22. Copies'
  <2> SUFFICES ASSUME NEW b \in Nodes, NEW d \in Files PROVE CopyWhole(b, d)'
    BY DEF Copies
  <2>1. CASE b = n /\ d = f
    <3>1. CASE h.want = 1
      <4>1. f[2] = h.key
        BY <1>2
      <4> QED
        BY <1>19, <2>1, <3>1, <4>1 DEF CopyWhole
    <3>2. CASE h.want = 2
      <4>1. Writing(n, f)'
        BY <1>2, <1>11, <1>13, <3>2 DEF Writing
      <4> QED
        BY <2>1, <4>1 DEF CopyWhole
    <3> QED
      BY <1>3, <3>1, <3>2
  <2>2. CASE b # n \/ d # f
    <3>1. CopyWhole(b, d) /\ disk'[b][d] = disk[b][d]
      BY <1>1, <1>18, <2>2 DEF Copies
    <3>2. Writing(b, d) => Writing(b, d)'
      BY <1>1, <1>2, <1>13, <2>2 DEF Writing
    <3> QED
      BY <3>1, <3>2 DEF CopyWhole
  <2> QED
    BY <2>1, <2>2
<1> QED
  BY <1>1, <1>17, <1>20, <1>21, <1>22, CallsStay DEF StoreMode

LEMMA StoreLosesFile ==
  ASSUME StoreState, NEW n \in Nodes, NEW k \in Keys, FileLost(n, k)
  PROVE Net' /\ Copies' /\ StoreMode'
<1>1. /\ Types /\ Net /\ Copies /\ StoreCalls /\ StoreLoops /\ Flows
      /\ disk' = [disk EXCEPT ![n][<<n, k>>] = Absent]
      /\ UNCHANGED <<up, broken, down, wire, reader, open, queue, handler,
                     call>>
  BY DEF StoreState, StoreMode, FileLost, net, links
<1>2. StoreLoops'
  <2> SUFFICES ASSUME NEW b \in Nodes
               PROVE StoreLoop(Peers(b), queue[b], handler[b], disk'[b])
    BY <1>1, PeersStay DEF StoreLoops
  <2>1. StoreLoop(Peers(b), queue[b], handler[b], disk[b])
    BY <1>1 DEF StoreLoops
  <2>2. ASSUME handler[b].pc = "store"
        PROVE disk'[b][<<handler[b].from, handler[b].key>>]
              = disk[b][<<handler[b].from, handler[b].key>>]
    <3>1. /\ handler[b].from \in Peers(b) /\ handler[b].from \in Nodes
          /\ handler[b].key \in Keys
      BY <1>1, <2>1, <2>2, WorkFields DEF StoreLoop, WorkOK
    <3>2. handler[b].from # b
      BY <1>1, <3>1, PeersKnown
    <3>3. <<handler[b].from, handler[b].key>> \in Files /\ <<n, k>> \in Files
      BY <3>1 DEF Files
    <3> QED
      BY <1>1, <3>2, <3>3 DEF Types, DiskTypes
  <2> QED
    BY <2>1, <2>2 DEF StoreLoop
<1>3. Flows'
  <2> SUFFICES ASSUME NEW b \in Nodes, NEW m \in Peers(b) PROVE FlowOK(m, b)'
    BY <1>1, PeersStay DEF Flows
  <2>1. m \in Nodes /\ FlowOK(m, b)
    BY <1>1 DEF Peers, Flows
  <2> QED
    BY <1>1, <2>1, FlowStays
<1>4. Net'
  BY <1>1, PeersStay DEF Net
<1>5. Copies'
  <2>1. <<n, k>> \in Files
    BY DEF Files
  <2> SUFFICES ASSUME NEW b \in Nodes, NEW f \in Files PROVE CopyWhole(b, f)'
    BY DEF Copies
  <2>2. CASE b = n /\ f = <<n, k>>
    <3>1. ~disk'[n][<<n, k>>].there
      BY <1>1, <2>1 DEF Types, DiskTypes, Absent
    <3> QED
      BY <2>2, <3>1 DEF CopyWhole
  <2>3. CASE b # n \/ f # <<n, k>>
    <3>1. CopyWhole(b, f) /\ disk'[b][f] = disk[b][f]
      BY <1>1, <2>1, <2>3 DEF Copies, Types, DiskTypes
    <3>2. Writing(b, f) => Writing(b, f)'
      BY <1>1 DEF Writing
    <3> QED
      BY <3>1, <3>2 DEF CopyWhole
  <2> QED
    BY <2>2, <2>3
<1> QED
  BY <1>1, <1>2, <1>3, <1>4, <1>5, CallsStay DEF StoreMode

\* A Get begins, alone.
LEMMA GetBegins ==
  ASSUME StoreState, NEW n \in Nodes, NEW k \in Keys, GetStarts(n, k), Timely
  PROVE Net' /\ Copies' /\ GetMode(n)'
<1>1. /\ Types /\ Net /\ Copies /\ StoreCalls /\ StoreLoops /\ Flows /\ Quiet
      /\ UNCHANGED <<up, broken, down, wire, reader, open, queue, handler,
                     disk>>
  BY DEF StoreState, StoreMode, GetStarts, links, InTime, Timely, Undisturbed
<1>2. PICK d : d = [NoCall EXCEPT !.pc = "tell", !.kind = "get", !.key = k,
                                  !.to = Peers(n)]
  OBVIOUS
<1>3. /\ d.pc = "tell" /\ d.kind = "get" /\ d.key = k /\ d.to = Peers(n)
      /\ d.at = None /\ d.want = 0
  BY <1>2 DEF NoCall
<1>4. call'[n] = d /\ \A b \in Nodes : b # n => call'[b] = call[b]
  BY <1>1, <1>2 DEF GetStarts, Begin, Types, CallTypes
<1>5. GetCall(Peers(n), d)
  BY <1>3 DEF GetCall
<1>6. /\ \A b \in Nodes : /\ call[b].pc = "idle" /\ handler[b].pc = "idle"
                          /\ queue[b] = <<>> /\ call[b].kind = "store"
      /\ \A a, b \in Nodes : /\ wire[a][b] = <<>>
                              /\ reader[a][b] \in {"none", "peek"}
  BY <1>1 DEF Quiet, StoreCalls, StoreCall
<1>7. Others(n)'
  <2>1. \A b \in Nodes \ {n} : \A m \in Nodes : AtRest(m, b)'
    BY <1>1, <1>6 DEF AtRest, Resting
  <2> QED
    BY <1>1, <1>4, <1>6, <2>1, PeersStay DEF Others, Peers
<1>8. ASSUME NEW m \in Peers(n) PROVE AskOK(n, m)' /\ ReplyOK(n, m)'
  <2>1. /\ m \in Nodes /\ n \in Peers(m) /\ m # None
        /\ reader[n][m] = "peek" /\ reader[m][n] = "peek"
    <3>1. m \in Nodes /\ n \in Peers(m)
      BY <1>1, PeersKnown DEF Peers
    <3> QED
      BY <1>1, <1>6, <3>1, PeersKnown, NoneIsNothing
  <2>2. Waiting(m, d) /\ Unasked(m, d) = 2
    BY <1>3, <2>1 DEF Waiting, Unasked
  <2>3. /\ wire[n][m] = <<>> /\ wire[m][n] = <<>> /\ queue[m] = <<>>
        /\ handler[m].pc = "idle" /\ Unserved(handler[m]) = 0
    BY <1>6, <2>1 DEF Unserved
  <2>4. Len(<<>>) + 2 = 2 /\ Len(<<>>) + 0 = 0
    OBVIOUS
  <2>5. Ask(n, d.key, Waiting(m, d), 2, <<>>, "peek", <<>>, <<>>, handler[m])
    BY <2>2, <2>3, CarriesNothing DEF Ask
  <2>6. Reply(n, m, Waiting(m, d), 0, <<>>, "peek", open[n][m], d, handler[m],
              disk[n][<<n, d.key>>].data)
    BY <1>3, <2>2, <2>3, CarriesNothing DEF Reply
  <2>7. AskOK(n, m)'
    BY <1>1, <1>4, <2>1, <2>2, <2>3, <2>4, <2>5 DEF AskOK
  <2>8. ReplyOK(n, m)'
    BY <1>1, <1>4, <2>1, <2>3, <2>4, <2>6 DEF ReplyOK
  <2> QED
    BY <2>7, <2>8
<1>9. GetMode(n)'
  BY <1>1, <1>4, <1>5, <1>7, <1>8, PeersStay DEF GetMode
<1>10. Net'
  BY <1>1, PeersStay DEF Net
<1>11. Copies'
  BY <1>1, <1>4, <1>6, CopiesStay DEF Writing
<1> QED
  BY <1>9, <1>10, <1>11

\* Nobody waits for an answer, and no connection ends.
LEMMA StoreDoesNot ==
  ASSUME StoreState, NEW n \in Nodes
  PROVE /\ ~AskPeers(n) /\ ~GetEnds(n) /\ ~ServePiece(n)
        /\ \A m \in Nodes : /\ ~Choose(n, m) /\ ~ReadSize(n, m)
                            /\ ~ReadData(n, m) /\ ~EndRead(n, m)
<1>1. /\ Types /\ Net /\ call[n].kind = "store"
      /\ call[n].pc \in {"idle", "tell", "stream"} /\ handler[n].pc # "get"
  BY DEF StoreState, StoreMode, StoreCalls, StoreCall, StoreLoops, StoreLoop
<1>2. ASSUME NEW m \in Nodes, EndRead(n, m) PROVE FALSE
  <2>1. reader[n][m] # "none" /\ Ended(n, m)
    BY <1>2 DEF EndRead
  <2>2. m \in Peers(n)
    BY <1>1, <2>1, PeersKnown
  <2> QED
    BY <1>1, <2>1, <2>2, NoEnds
<1> QED
  BY <1>1, <1>2
  DEF AskPeers, GetEnds, ServePiece, Choose, ReadSize, ReadData, Asking, Told,
      Asked

WholeStates == Net /\ Copies /\ (StoreMode \/ \E g \in Nodes : GetMode(g))

LEMMA RestIsWhole ==
  ASSUME Net', Copies', AllAtRest' PROVE WholeStates'
<1>1. StoreMode'
  BY RestStores, PTL
<1> QED
  BY <1>1 DEF WholeStates

LEMMA StoreStep ==
  ASSUME StoreState, Timely, Next PROVE WholeStates'
<1>1. ASSUME NEW n \in Nodes, NEW m \in Nodes,
             \/ Peek(n, m) \/ Body(n, m) \/ Park(n, m) \/ Resume(n, m)
             \/ Tell(n, m)
      PROVE WholeStates'
  BY <1>1, StorePeek, StoreBody, StoreWaits, StoreTells DEF WholeStates
<1>2. ASSUME NEW n \in Nodes, NEW m \in Nodes, Connect(n, m)
      PROVE WholeStates'
  BY <1>2, StoreConnect DEF WholeStates
<1>3. ASSUME NEW n \in Nodes,
             SendFile(n) \/ StreamPiece(n) \/ Dispatch(n) \/ StoreData(n)
      PROVE WholeStates'
  BY <1>3, StoreSendsFile, StoreStreams, StoreTakes, StoreCopies
  DEF WholeStates
<1>4. ASSUME NEW n \in Nodes, NEW k \in Keys,
             StoreStarts(n, k) \/ GetStarts(n, k) \/ FileLost(n, k)
      PROVE WholeStates'
  BY <1>4, StoreBegins, GetBegins, StoreLosesFile DEF WholeStates
<1>5. ASSUME NEW n \in Nodes, NEW m \in Nodes PROVE ~Break(n, m)
  BY DEF Break, Timely, Undisturbed
<1> QED
  BY <1>1, <1>2, <1>3, <1>4, <1>5, Steps, StoreDoesNot

-----------------------------------------------------------------------------
(* A Get.  The request and the answer between g and m.                      *)

\* One piece is read.
LEMMA CarriesStep ==
  ASSUME NEW w \in Seq(Sent), w # <<>>, NEW p \in Int, NEW s,
         Carries(w, p, s), NEW v \in Seq(Sent), Len(v) = Len(w) - 1,
         \A i \in 1..Len(v) : v[i] = w[i + 1], NEW o, o = p - 1
  PROVE w[1] = s[p] /\ Carries(v, o, s)
<1>1. w[1] = s[p]
  BY CarriesFirst
<1>2. Carries(v, p - 1, s)
  BY CarriesRest
<1> QED
  BY <1>1, <1>2

LEMMA AskPeek ==
  ASSUME NEW g, NEW k, NEW j, NEW l \in Nat, NEW w \in Seq(Sent), NEW r,
         NEW v, NEW q, NEW h, Ask(g, k, j, l, w, r, v, q, h),
         w # <<>>, Len(w) <= l, r = "peek",
         NEW y \in Seq(Sent), Len(y) = Len(w) - 1,
         \A i \in 1..Len(y) : y[i] = w[i + 1], NEW s,
         s = CASE w[1] = StreamMark -> "marked"
               [] w[1] = MessageMark -> "body"
               [] OTHER -> "garbled"
  PROVE Ask(g, k, j, l - 1, y, s, v, q, h)
<1>1. l = 2
  <2>1. Len(w) \in Nat /\ Len(w) > 0
    BY EmptySeq
  <2>2. l <= 2 /\ l # 1
    BY DEF Ask
  <2> QED
    BY <2>1, <2>2
<1>2. w[1] = AskTokens(k)[2] /\ Carries(y, 1, AskTokens(k))
  <2>1. Carries(w, 2, AskTokens(k)) /\ 2 \in Int
    BY <1>1 DEF Ask
  <2>2. 1 = 2 - 1
    OBVIOUS
  <2> QED
    BY <2>1, <2>2, CarriesStep
<1>3. s = "body"
  BY <1>2, GetTokens, Marks
<1> QED
  BY <1>1, <1>2, <1>3 DEF Ask

LEMMA AskBody ==
  ASSUME NEW g \in Nodes, NEW k \in Keys, NEW j, NEW l \in Nat,
         NEW w \in Seq(Sent), NEW r, NEW v, NEW q, NEW h,
         Ask(g, k, j, l, w, r, v, q, h), w # <<>>, Len(w) <= l, r = "body",
         NEW e, e = [from |-> g, is |-> "get", key |-> k, size |-> 2]
  PROVE /\ l = 1 /\ Len(w) = 1 /\ w[1] = Piece("get", k, 2) /\ q = <<>>
        /\ e \in Message
        /\ Ask(g, k, j, 0, <<>>, "peek", v, <<e>>, h)
<1>1. l = 1 /\ Len(w) = 1
  <2>1. PICK z : z = Len(w)
    OBVIOUS
  <2>2. z \in Nat /\ z > 0 /\ z <= l
    BY <2>1, EmptySeq
  <2>3. l = 1
    BY DEF Ask
  <2>4. z = 1
    BY <2>2, <2>3
  <2> QED
    BY <2>1, <2>3, <2>4
<1>2. w[1] = Piece("get", k, 2)
  <2>1. Carries(w, 1, AskTokens(k)) /\ 1 \in Int
    BY <1>1 DEF Ask
  <2>2. w[1] = AskTokens(k)[1]
    BY <2>1, CarriesFirst
  <2> QED
    BY <2>2, GetTokens
<1>3. q = <<>> /\ h.pc = "idle" /\ v = <<>> /\ j
  BY <1>1 DEF Ask
<1>4. e \in Message
  BY DEF Message
<1>5. Len(<<e>>) = 1 /\ <<e>>[1] = e /\ <<e>> # <<>>
  OBVIOUS
<1> QED
  BY <1>1, <1>2, <1>3, <1>4, <1>5, CarriesNothing DEF Ask

\* The call writes a piece of the request.
LEMMA AskTells ==
  ASSUME NEW g, NEW k, NEW j, NEW l \in Nat, NEW w \in Seq(Sent), NEW r,
         NEW v, NEW q, NEW h, Ask(g, k, j, l, w, r, v, q, h),
         NEW e \in Sent, e = AskTokens(k)[l - Len(w)]
  PROVE Ask(g, k, j, l, Append(w, e), r, v, q, h)
<1>1. Carries(w, l, AskTokens(k)) /\ l \in Int
  BY DEF Ask
<1>2. Carries(Append(w, e), l, AskTokens(k))
  BY <1>1, CarriesMore
<1> QED
  BY <1>2 DEF Ask

\* The request is read and the answer has begun, or will not be waited for.
LEMMA AskOver ==
  ASSUME NEW g, NEW k, NEW j, NEW l, NEW w, NEW r, NEW v, NEW q, NEW h,
         Ask(g, k, j, l, w, r, v, q, h), l \in Nat, v # <<>>, NEW y, NEW i,
         NEW p
  PROVE Ask(g, k, i, l, w, r, y, q, p)
  BY DEF Ask

LEMMA ReplyPeek ==
  ASSUME NEW g, NEW m, NEW j, NEW l \in Nat, NEW v \in Seq(Sent), NEW s,
         NEW u, NEW c, NEW h, NEW data,
         Reply(g, m, j, l, v, s, u, c, h, data),
         v # <<>>, Len(v) <= l, s = "peek",
         NEW y \in Seq(Sent), Len(y) = Len(v) - 1,
         \A i \in 1..Len(y) : y[i] = v[i + 1], NEW r,
         r = CASE v[1] = StreamMark -> "marked"
               [] v[1] = MessageMark -> "body"
               [] OTHER -> "garbled"
  PROVE Reply(g, m, j, l - 1, y, r, u, c, h, data)
<1>1. l = 4
  <2>1. Len(v) \in Nat /\ Len(v) > 0
    BY EmptySeq
  <2>2. l <= 4 /\ l # 3 /\ l # 2 /\ l # 1
    BY DEF Reply, Parked
  <2> QED
    BY <2>1, <2>2
<1>2. v[1] = ReplyTokens(c.key)[4] /\ Carries(y, 3, ReplyTokens(c.key))
  <2>1. Carries(v, 4, ReplyTokens(c.key)) /\ 4 \in Int
    BY <1>1 DEF Reply
  <2>2. 3 = 4 - 1
    OBVIOUS
  <2> QED
    BY <2>1, <2>2, CarriesStep
<1>3. r = "marked"
  BY <1>2, GetTokens, Marks
<1> QED
  BY <1>1, <1>2, <1>3 DEF Reply

LEMMA ReplyWaits ==
  ASSUME NEW g, NEW m, NEW j, NEW l \in Nat, NEW v, NEW s,
         NEW u, NEW c, NEW h, NEW data,
         Reply(g, m, j, l, v, s, u, c, h, data)
  PROVE /\ s = "marked" => Reply(g, m, j, l, v, "parked", 1, c, h, data)
        /\ s = "parked" /\ u = 0 => Reply(g, m, j, l, v, "peek", u, c, h, data)
<1>1. l = 0 \/ l = 1 \/ l = 2 \/ l = 3 \/ l = 4
  BY DEF Reply
<1> QED
  BY <1>1 DEF Reply, Resting, Parked

\* Get reads the size, and y is left of v.
Sized(g, m, j, l, v, y, s, u, c, h) ==
  /\ l = 3 /\ v[1] = Piece("size", c.key, 2)
  /\ \A d : d.pc = "ask" /\ d.at = m /\ d.want = 2 /\ d.key = c.key
           => Reply(g, m, j, 2, y, s, u, d, h, <<>>)
LEMMA ReplySize ==
  ASSUME NEW g, NEW m, NEW j, NEW l \in Nat, NEW v \in Seq(Sent), NEW s,
         NEW u, NEW c, NEW h, NEW data,
         Reply(g, m, j, l, v, s, u, c, h, data), v # <<>>, Len(v) <= l,
         s = "parked", c.at = m, c.want = 0,
         NEW y \in Seq(Sent), Len(y) = Len(v) - 1,
         \A i \in 1..Len(y) : y[i] = v[i + 1]
  PROVE Sized(g, m, j, l, v, y, s, u, c, h)
<1>1. l = 3 /\ Parked(s, u)
  <2>1. Len(v) \in Nat /\ Len(v) > 0
    BY EmptySeq
  <2>2. l <= 4 /\ l # 4 /\ l # 2 /\ l # 1
    BY DEF Reply
  <2>3. l = 3
    BY <2>1, <2>2
  <2> QED
    BY <2>3 DEF Reply
<1>2. v[1] = ReplyTokens(c.key)[3] /\ Carries(y, 2, ReplyTokens(c.key))
  <2>1. Carries(v, 3, ReplyTokens(c.key)) /\ 3 \in Int
    BY <1>1 DEF Reply
  <2>2. 2 = 3 - 1
    OBVIOUS
  <2> QED
    BY <2>1, <2>2, CarriesStep
<1>3. v[1] = Piece("size", c.key, 2)
  BY <1>2, GetTokens
<1>4. ASSUME NEW d, d.pc = "ask", d.at = m, d.want = 2, d.key = c.key
      PROVE Reply(g, m, j, 2, y, s, u, d, h, <<>>)
  BY <1>1, <1>2, <1>4 DEF Reply
<1> QED
  BY <1>1, <1>3, <1>4 DEF Sized

\* Get reads a piece of the file, and y is left of v.
Received(g, m, l, v, y, s, u, c, h, data) ==
  /\ u = 1 /\ c.want = l /\ l \in {1, 2}
  /\ l = 2 =>
       /\ v[1] = Piece("iv", c.key, 0) /\ data = <<>>
       /\ \A d, j : /\ d.pc = "ask" /\ d.at = m /\ d.want = 1 /\ d.key = c.key
                    => Reply(g, m, j, 1, y, s, u, d, h,
                             <<Piece("iv", c.key, 0)>>)
  /\ l = 1 =>
       /\ v[1] = Piece("data", c.key, 0) /\ data = <<Piece("iv", c.key, 0)>>
       /\ \A d, e, j : d.want = 0 /\ d.key = c.key /\ ~j
                       => Reply(g, m, j, 0, y, s, 0, d, h, e)
LEMMA ReplyData ==
  ASSUME NEW g, NEW m, NEW j, NEW l \in Nat, NEW v \in Seq(Sent), NEW s,
         NEW u, NEW c, NEW h, NEW data,
         Reply(g, m, j, l, v, s, u, c, h, data), v # <<>>,
         c.at = m, c.want \in Nat, c.want > 0,
         NEW y \in Seq(Sent), Len(y) = Len(v) - 1,
         \A i \in 1..Len(y) : y[i] = v[i + 1]
  PROVE Received(g, m, l, v, y, s, u, c, h, data)
<1>1. /\ l \in {1, 2} /\ c.want = l /\ Parked(s, u) /\ h.pc # "store"
      /\ h.pc = "get" =>
           h.from = g /\ Carries(h.todo, Len(h.todo), ReplyTokens(c.key))
      /\ l = 2 => data = <<>>
      /\ l = 1 => data = <<Piece("iv", c.key, 0)>>
  BY DEF Reply
<1>2. CASE l = 2
  <2>1. Carries(v, 2, ReplyTokens(c.key)) /\ 2 \in Int
    BY <1>2 DEF Reply
  <2>2. 1 = 2 - 1
    OBVIOUS
  <2>5. v[1] = ReplyTokens(c.key)[2] /\ Carries(y, 1, ReplyTokens(c.key))
    BY <2>1, <2>2, CarriesStep
  <2>3. v[1] = Piece("iv", c.key, 0) /\ Carries(y, 1, ReplyTokens(c.key))
    BY <2>5, GetTokens
  <2>4. ASSUME NEW d, NEW i, d.pc = "ask", d.at = m, d.want = 1, d.key = c.key
        PROVE Reply(g, m, i, 1, y, s, u, d, h, <<Piece("iv", c.key, 0)>>)
    BY <1>1, <2>3, <2>4 DEF Reply
  <2>6. u = 1 /\ c.want = 2 /\ data = <<>>
    BY <1>1, <1>2 DEF Parked
  <2> QED
    BY <1>2, <2>3, <2>4, <2>6 DEF Received
<1>3. CASE l = 1
  <2>1. Carries(v, 1, ReplyTokens(c.key)) /\ 1 \in Int
    BY <1>3 DEF Reply
  <2>2. 0 = 1 - 1
    OBVIOUS
  <2>6. v[1] = ReplyTokens(c.key)[1] /\ Carries(y, 0, ReplyTokens(c.key))
    BY <2>1, <2>2, CarriesStep
  <2>3. v[1] = Piece("data", c.key, 0) /\ Carries(y, 0, ReplyTokens(c.key))
    BY <2>6, GetTokens
  <2>4. Resting(s, 0)
    BY <1>1 DEF Resting, Parked
  <2>5. ASSUME NEW d, NEW e, NEW i, d.want = 0, d.key = c.key, ~i
        PROVE Reply(g, m, i, 0, y, s, 0, d, h, e)
    BY <1>1, <2>3, <2>4, <2>5 DEF Reply
  <2>7. u = 1 /\ c.want = 1 /\ data = <<Piece("iv", c.key, 0)>>
    BY <1>1, <1>3 DEF Parked
  <2> QED
    BY <1>3, <2>3, <2>5, <2>7 DEF Received
<1> QED
  BY <1>1, <1>2, <1>3

LEMMA CarriesTail ==
  ASSUME NEW t \in Seq(Sent), t # <<>>, NEW s, Carries(t, Len(t), s)
  PROVE /\ Head(t) = s[Len(t)] /\ Head(t) \in Sent
        /\ Tail(t) \in Seq(Sent) /\ Len(Tail(t)) = Len(t) - 1
        /\ Carries(Tail(t), Len(Tail(t)), s)
<1>1. PICK y : y = Tail(t)
  OBVIOUS
<1>2. /\ Head(t) = t[1] /\ t[1] \in Sent
      /\ y \in Seq(Sent) /\ Len(y) = Len(t) - 1 /\ Len(t) \in Int
  BY <1>1
<1>3. \A i \in 1..Len(y) : y[i] = t[i + 1]
  BY <1>1
<1>4. t[1] = s[Len(t)] /\ Carries(y, Len(y), s)
  BY <1>2, <1>3, CarriesStep
<1> QED
  BY <1>1, <1>2, <1>4

\* A peer serves its copy.
LEMMA ReplyServes ==
  ASSUME NEW g, NEW m, NEW j, NEW l \in Nat, NEW v \in Seq(Sent), NEW s,
         NEW u, NEW c, NEW h, NEW data,
         Reply(g, m, j, l, v, s, u, c, h, data), h.pc = "get",
         h.todo \in Seq(Sent), h.todo # <<>>, l = Len(v) + Len(h.todo),
         NEW p,
         \/ p.pc = "idle"
         \/ p.pc = "get" /\ p.from = g /\ p.todo = Tail(h.todo)
  PROVE Reply(g, m, j, l, Append(v, Head(h.todo)), s, u, c, p, data)
<1>1. PICK t, z : t = h.todo /\ z = ReplyTokens(c.key)
  OBVIOUS
<1>2. Carries(t, Len(t), z) /\ Carries(v, l, z) /\ l \in Int
  BY <1>1 DEF Reply
<1>3. /\ Head(t) = z[Len(t)] /\ Head(t) \in Sent
      /\ Carries(Tail(t), Len(Tail(t)), z)
  BY <1>1, <1>2, CarriesTail
<1>4. l - Len(v) = Len(t)
  BY <1>1
<1>5. Carries(Append(v, Head(t)), l, z)
  BY <1>2, <1>3, <1>4, CarriesMore
<1> QED
  BY <1>1, <1>3, <1>5 DEF Reply

\* What Get does with another peer is not seen.
LEMMA ReplyOther ==
  ASSUME NEW g, NEW m, NEW j, NEW l \in Nat, NEW v, NEW s,
         NEW u, NEW c, NEW h, NEW data,
         Reply(g, m, j, l, v, s, u, c, h, data), ~(c.at = m /\ c.want > 0),
         NEW d, d.key = c.key, ~(d.at = m /\ d.want > 0), NEW e
  PROVE Reply(g, m, j, l, v, s, u, d, h, e)
<1>1. l # 1 /\ l # 2
  BY DEF Reply
<1> QED
  BY <1>1 DEF Reply

-----------------------------------------------------------------------------
(* The steps while a file is fetched.                                       *)

GetState(g) == Types /\ Net /\ Copies /\ GetMode(g)

LEMMA GetFields ==
  ASSUME Types, NEW g \in Nodes, NEW m \in Nodes, NEW c, c = call[g],
         NEW h, h = handler[m]
  PROVE /\ wire[g][m] \in Seq(Sent) /\ wire[m][g] \in Seq(Sent)
        /\ Unasked(m, c) \in Nat /\ Unserved(h) \in Nat
        /\ Len(wire[g][m]) \in Nat /\ Len(wire[m][g]) \in Nat
        /\ Len(wire[g][m]) + Unasked(m, c) \in Nat
        /\ Len(wire[g][m]) <= Len(wire[g][m]) + Unasked(m, c)
        /\ Len(wire[m][g]) + Unserved(h) \in Nat
        /\ Len(wire[m][g]) <= Len(wire[m][g]) + Unserved(h)
        /\ c \in Calling /\ CallOK(c) /\ h \in Work /\ WorkOK(h)
        /\ queue[m] \in Seq(Message)
<1>1. wire[g][m] \in Seq(Sent) /\ wire[m][g] \in Seq(Sent)
  BY DEF Types, WireTypes
<1>2. c \in Calling /\ CallOK(c) /\ h \in Work /\ WorkOK(h)
  BY CallFields, WorkFields
<1>3. Unasked(m, c) \in Nat
  BY DEF Unasked
<1>4. Unserved(h) \in Nat
  <2>1. h.todo \in Seq(Sent)
    BY <1>2 DEF Work
  <2> QED
    BY <2>1 DEF Unserved
<1>5. queue[m] \in Seq(Message)
  BY DEF Types, QueueTypes
<1>6. PICK a, b, x, y : /\ a = Len(wire[g][m]) /\ b = Len(wire[m][g])
                        /\ x = Unasked(m, c) /\ y = Unserved(h)
  OBVIOUS
<1>7. a \in Nat /\ b \in Nat
  BY <1>1, <1>6
<1>8. a + x \in Nat /\ a <= a + x /\ b + y \in Nat /\ b <= b + y
  BY <1>3, <1>4, <1>6, <1>7
<1> QED
  BY <1>1, <1>2, <1>3, <1>4, <1>5, <1>6, <1>7, <1>8

LEMMA PeerStays ==
  ASSUME NEW g \in Nodes, NEW m \in Nodes, AskOK(g, m), ReplyOK(g, m),
         wire'[g][m] = wire[g][m], wire'[m][g] = wire[m][g],
         reader'[m][g] = reader[m][g], reader'[g][m] = reader[g][m],
         open'[g][m] = open[g][m], call'[g] = call[g],
         queue'[m] = queue[m], handler'[m] = handler[m], disk'[g] = disk[g]
  PROVE AskOK(g, m)' /\ ReplyOK(g, m)'
  BY DEF AskOK, ReplyOK

LEMMA OthersStay ==
  ASSUME Types, NEW g \in Nodes, Others(g), UNCHANGED <<up, broken>>,
         queue'[g] = queue[g], handler'[g] = handler[g],
         \A n \in Nodes : n # g => call'[n] = call[n],
         \A n \in Nodes : n # g /\ n \notin Peers(g) =>
           queue'[n] = queue[n] /\ handler'[n] = handler[n],
         \A n, m \in Nodes : n # g /\ m # g =>
           /\ wire'[m][n] = wire[m][n] /\ reader'[n][m] = reader[n][m]
           /\ open'[n][m] = open[n][m]
  PROVE Others(g)'
<1> SUFFICES ASSUME NEW n \in Nodes \ {g}
             PROVE /\ call'[n].pc = "idle" /\ call'[n].kind = "store"
                   /\ n \notin Peers(g) =>
                        queue'[n] = <<>> /\ handler'[n].pc = "idle"
                   /\ \A m \in Peers(n) \ {g} : AtRest(m, n)'
  BY PeersStay DEF Others
<1>1. ASSUME NEW m \in Peers(n) \ {g} PROVE AtRest(m, n)'
  <2>1. m \in Nodes /\ AtRest(m, n)
    BY DEF Peers, Others
  <2>2. /\ wire'[m][n] = wire[m][n] /\ reader'[n][m] = reader[n][m]
        /\ open'[n][m] = open[n][m]
    BY <2>1
  <2> QED
    BY <2>1, <2>2 DEF AtRest
<1> QED
  BY <1>1 DEF Others

\* Something happens between g and m.
LEMMA OnePeer ==
  ASSUME Types, NEW g \in Nodes, GetMode(g), NEW m \in Peers(g),
         UNCHANGED <<up, broken, call>>, disk'[g] = disk[g],
         \A a, b \in Nodes : (a # g \/ b # m) /\ (a # m \/ b # g) =>
           /\ wire'[a][b] = wire[a][b] /\ reader'[b][a] = reader[b][a]
           /\ open'[b][a] = open[b][a],
         \A b \in Nodes : b # m => /\ queue'[b] = queue[b]
                                   /\ handler'[b] = handler[b],
         AskOK(g, m)' /\ ReplyOK(g, m)'
  PROVE GetMode(g)'
<1>1. m \in Nodes /\ m # g
  BY PeersKnown DEF Peers
<1>2. Others(g)'
  <2>1. Others(g)
    BY DEF GetMode
  <2>2. \A a, b \in Nodes : a # g /\ b # g =>
          /\ wire'[b][a] = wire[b][a] /\ reader'[a][b] = reader[a][b]
          /\ open'[a][b] = open[a][b]
    OBVIOUS
  <2>3. queue'[g] = queue[g] /\ handler'[g] = handler[g]
    BY <1>1
  <2>4. \A b \in Nodes : b # g /\ b \notin Peers(g) =>
          queue'[b] = queue[b] /\ handler'[b] = handler[b]
    OBVIOUS
  <2>5. \A b \in Nodes : b # g => call'[b] = call[b]
    OBVIOUS
  <2> QED
    BY <2>1, <2>2, <2>3, <2>4, <2>5, OthersStay
<1>3. ASSUME NEW b \in Peers(g) PROVE AskOK(g, b)' /\ ReplyOK(g, b)'
  <2>1. b \in Nodes /\ b # g /\ AskOK(g, b) /\ ReplyOK(g, b)
    BY PeersKnown DEF Peers, GetMode
  <2>2. CASE b # m
    <3>1. /\ wire'[g][b] = wire[g][b] /\ wire'[b][g] = wire[b][g]
          /\ reader'[b][g] = reader[b][g] /\ reader'[g][b] = reader[g][b]
          /\ open'[g][b] = open[g][b] /\ queue'[b] = queue[b]
          /\ handler'[b] = handler[b] /\ call'[g] = call[g]
      BY <1>1, <2>1, <2>2
    <3> QED
      BY <2>1, <3>1, PeerStays
  <2> QED
    BY <2>2
<1> QED
  BY <1>2, <1>3, PeersStay DEF GetMode

\* Get goes on.
LEMMA GetGoesOn ==
  ASSUME Types, NEW g \in Nodes, GetMode(g),
         UNCHANGED <<up, broken, queue, handler>>,
         \A b \in Nodes : b # g => call'[b] = call[b],
         GetCall(Peers(g), call'[g]),
         \A a, b \in Nodes : a # g /\ b # g =>
           /\ wire'[a][b] = wire[a][b] /\ reader'[b][a] = reader[b][a]
           /\ open'[b][a] = open[b][a],
         \A m \in Peers(g) : AskOK(g, m)' /\ ReplyOK(g, m)'
  PROVE GetMode(g)'
<1>1. Others(g)'
  <2>1. Others(g)
    BY DEF GetMode
  <2>2. \A a, b \in Nodes : a # g /\ b # g =>
          /\ wire'[b][a] = wire[b][a] /\ reader'[a][b] = reader[a][b]
          /\ open'[a][b] = open[a][b]
    OBVIOUS
  <2>3. \A b \in Nodes : b # g /\ b \notin Peers(g) =>
          queue'[b] = queue[b] /\ handler'[b] = handler[b]
    OBVIOUS
  <2>4. queue'[g] = queue[g] /\ handler'[g] = handler[g]
    OBVIOUS
  <2> QED
    BY <2>1, <2>2, <2>3, <2>4, OthersStay
<1> QED
  BY <1>1, PeersStay DEF GetMode

\* Only g and its peers have something to read.
LEMMA OnlyGet ==
  ASSUME NEW g \in Nodes, GetState(g), NEW n \in Nodes, NEW m \in Nodes,
         wire[m][n] # <<>> \/ ~Resting(reader[n][m], open[n][m])
  PROVE \/ n = g /\ m \in Peers(g)
        \/ m = g /\ n \in Peers(g)
<1>1. Types /\ Net /\ Others(g)
  BY DEF GetState, GetMode
<1>2. m \in Peers(n)
  BY <1>1, PeersKnown DEF Net, Resting
<1>3. CASE n = g
  BY <1>2, <1>3
<1>4. CASE m = g
  BY <1>1, <1>2, <1>4, PeersKnown
<1>5. CASE n # g /\ m # g
  BY <1>1, <1>2, <1>5 DEF Others, AtRest
<1> QED
  BY <1>3, <1>4, <1>5

LEMMA GetCopies ==
  ASSUME NEW g \in Nodes, GetState(g), UNCHANGED <<call, disk>>,
         \A n \in Nodes : handler[n].pc = "store" => handler'[n] = handler[n]
  PROVE Copies'
  BY CopiesStay DEF GetState, Writing

LEMMA GetPeeks ==
  ASSUME NEW g \in Nodes, GetState(g), NEW n \in Nodes, NEW m \in Nodes,
         Peek(n, m)
  PROVE Net' /\ Copies' /\ GetMode(g)'
<1>1. /\ Types /\ Net /\ Copies /\ GetMode(g)
      /\ reader[n][m] = "peek" /\ Arrived(n, m) /\ Drain(n, m, 1)
      /\ UNCHANGED <<up, broken, down, open, queue, handler, call, disk>>
  BY DEF GetState, Peek, net, links
<1>2. PICK w, y, s : /\ w = wire[m][n] /\ y = wire'[m][n]
                     /\ s = CASE w[1] = StreamMark -> "marked"
                              [] w[1] = MessageMark -> "body"
                              [] OTHER -> "garbled"
  OBVIOUS
<1>3. /\ Next1(n, m) = w[1] /\ w # <<>> /\ w \in Seq(Sent) /\ Len(w) \in Nat
      /\ y \in Seq(Sent) /\ Len(y) = Len(w) - 1
      /\ \A i \in 1..Len(y) : y[i] = w[i + 1]
      /\ \A b, d \in Nodes : b # m \/ d # n => wire'[b][d] = wire[b][d]
  <2>1. Types /\ Arrived(n, m) /\ Drain(n, m, 1)
    BY <1>1
  <2>2. wire[m][n] \in Seq(Sent) /\ Len(wire[m][n]) > 0
    BY <2>1, Read1
  <2>3. w # <<>> /\ Len(w) \in Nat
    BY <1>2, <2>1, <2>2 DEF Arrived
  <2> QED
    BY <1>2, <2>1, <2>2, <2>3, Read1
<1>4. reader' = [reader EXCEPT ![n][m] = s]
  BY <1>2, <1>3 DEF Peek
<1>5. \A b, d \in Nodes :
        reader'[b][d] = IF b = n /\ d = m THEN s ELSE reader[b][d]
  <2>1. Types
    BY <1>1
  <2> QED
    BY <1>4, <2>1 DEF Types, ReaderTypes
<1>6. \/ n = g /\ m \in Peers(g)
      \/ m = g /\ n \in Peers(g)
  BY <1>2, <1>3, OnlyGet
<1>7. m \in Peers(n)
  BY <1>1, <1>6, PeersKnown
<1>8. Net'
  BY <1>1, <1>3, <1>7, NetStays
<1>9. Copies'
  BY <1>1, GetCopies
<1>10. \A i \in 1..Len(y) : y[i] = w[i + 1]
  BY <1>3
<1>11. y \in Seq(Sent) /\ Len(y) = Len(w) - 1 /\ w \in Seq(Sent) /\ w # <<>>
  BY <1>3
<1>12. s = CASE w[1] = StreamMark -> "marked"
             [] w[1] = MessageMark -> "body"
             [] OTHER -> "garbled"
  BY <1>2
<1>13. CASE m = g /\ n \in Peers(g)
  <2>1. n # g /\ AskOK(g, n) /\ ReplyOK(g, n)
    BY <1>1, <1>13, PeersKnown DEF GetMode
  <2>2. PICK c, h, x, l : /\ c = call[g] /\ h = handler[n]
                          /\ x = Unasked(n, c) /\ l = Len(w) + x
    OBVIOUS
  <2>3. x \in Nat /\ l \in Nat /\ Len(w) <= l
    BY <1>1, <1>2, <1>13, <2>2, GetFields
  <2>4. Ask(g, c.key, Waiting(n, c), l, w, "peek", wire[n][g], queue[n], h)
    BY <1>1, <1>2, <1>13, <2>1, <2>2 DEF AskOK
  <2>5. Ask(g, c.key, Waiting(n, c), l - 1, y, s, wire[n][g], queue[n], h)
    BY <1>10, <1>11, <1>12, <2>3, <2>4, AskPeek
  <2>6. Len(y) + x = l - 1
    BY <1>3, <2>2, <2>3
  <2>7. AskOK(g, n)'
    <3>1. /\ wire'[g][n] = y /\ reader'[n][g] = s /\ wire'[n][g] = wire[n][g]
          /\ queue'[n] = queue[n] /\ handler'[n] = h /\ call'[g] = c
      BY <1>1, <1>2, <1>3, <1>5, <1>13, <2>1, <2>2
    <3> QED
      BY <2>2, <2>5, <2>6, <3>1 DEF AskOK
  <2>8. ReplyOK(g, n)'
    <3>1. /\ wire'[n][g] = wire[n][g] /\ reader'[g][n] = reader[g][n]
          /\ open'[g][n] = open[g][n] /\ handler'[n] = handler[n]
          /\ call'[g] = call[g] /\ disk'[g] = disk[g]
      BY <1>1, <1>3, <1>5, <1>13, <2>1
    <3> QED
      BY <2>1, <3>1 DEF ReplyOK
  <2>9. \A a, b \in Nodes : (a # g \/ b # n) /\ (a # n \/ b # g) =>
          /\ wire'[a][b] = wire[a][b] /\ reader'[b][a] = reader[b][a]
          /\ open'[b][a] = open[b][a]
    BY <1>1, <1>3, <1>5, <1>13
  <2> QED
    BY <1>1, <1>8, <1>9, <1>13, <2>7, <2>8, <2>9, OnePeer
<1>14. CASE n = g /\ m \in Peers(g)
  <2>1. m # g /\ AskOK(g, m) /\ ReplyOK(g, m)
    BY <1>1, <1>14, PeersKnown DEF GetMode
  <2>2. PICK c, h, x, l, u, data :
          /\ c = call[g] /\ h = handler[m] /\ x = Unserved(h)
          /\ l = Len(w) + x /\ u = open[g][m]
          /\ data = disk[g][<<g, c.key>>].data
    OBVIOUS
  <2>3. x \in Nat /\ l \in Nat /\ Len(w) <= l
    BY <1>1, <1>2, <1>14, <2>2, GetFields
  <2>4. Reply(g, m, Waiting(m, c), l, w, "peek", u, c, h, data)
    BY <1>1, <1>2, <1>14, <2>1, <2>2 DEF ReplyOK
  <2>5. Reply(g, m, Waiting(m, c), l - 1, y, s, u, c, h, data)
    BY <1>10, <1>11, <1>12, <2>3, <2>4, ReplyPeek
  <2>6. Len(y) + x = l - 1
    BY <1>3, <2>2, <2>3
  <2>7. ReplyOK(g, m)'
    <3>1. /\ wire'[m][g] = y /\ reader'[g][m] = s /\ open'[g][m] = u
          /\ handler'[m] = h /\ call'[g] = c
          /\ disk'[g][<<g, c.key>>].data = data
      BY <1>1, <1>2, <1>3, <1>5, <1>14, <2>1, <2>2
    <3> QED
      BY <2>2, <2>5, <2>6, <3>1 DEF ReplyOK
  <2>8. AskOK(g, m)'
    <3>1. PICK k : k = Len(wire[g][m]) + Unasked(m, c)
      OBVIOUS
    <3>2. k \in Nat
      BY <1>1, <1>14, <2>2, <3>1, GetFields
    <3>3. Ask(g, c.key, Waiting(m, c), k, wire[g][m], reader[m][g], w,
              queue[m], h)
      BY <1>2, <1>14, <2>1, <2>2, <3>1 DEF AskOK
    <3>4. Ask(g, c.key, Waiting(m, c), k, wire[g][m], reader[m][g], y,
              queue[m], h)
      BY <1>11, <3>2, <3>3, AskOver
    <3>5. /\ wire'[m][g] = y /\ reader'[m][g] = reader[m][g]
          /\ wire'[g][m] = wire[g][m] /\ queue'[m] = queue[m]
          /\ handler'[m] = h /\ call'[g] = c
      BY <1>1, <1>2, <1>3, <1>5, <1>14, <2>1, <2>2
    <3> QED
      BY <3>1, <3>4, <3>5 DEF AskOK
  <2>9. \A a, b \in Nodes : (a # g \/ b # m) /\ (a # m \/ b # g) =>
          /\ wire'[a][b] = wire[a][b] /\ reader'[b][a] = reader[b][a]
          /\ open'[b][a] = open[b][a]
    BY <1>1, <1>3, <1>5, <1>14
  <2> QED
    BY <1>1, <1>8, <1>9, <1>14, <2>7, <2>8, <2>9, OnePeer
<1> QED
  BY <1>6, <1>13, <1>14

LEMMA GetBodies ==
  ASSUME NEW g \in Nodes, GetState(g), NEW n \in Nodes, NEW m \in Nodes,
         Body(n, m)
  PROVE Net' /\ Copies' /\ GetMode(g)'
<1>1. /\ Types /\ Net /\ Copies /\ GetMode(g)
      /\ reader[n][m] = "body" /\ Arrived(n, m)
      /\ reader' = [reader EXCEPT ![n][m] = "peek"]
      /\ UNCHANGED <<up, broken, down, open, handler, call, disk>>
  BY DEF GetState, Body, net, links
<1>2. m = g /\ n \in Peers(g) /\ n # g /\ AskOK(g, n) /\ ReplyOK(g, n)
  <2>1. wire[m][n] # <<>>
    BY <1>1 DEF Arrived
  <2>2. \/ n = g /\ m \in Peers(g)
        \/ m = g /\ n \in Peers(g)
    BY <2>1, OnlyGet
  <2>3. ASSUME n = g, m \in Peers(g) PROVE FALSE
    <3>1. ReplyOK(g, m) /\ reader[g][m] = "body"
      BY <1>1, <2>3 DEF GetMode
    <3>2. PICK l, h : /\ h = handler[m] /\ l = Len(wire[m][g]) + Unserved(h)
      OBVIOUS
    <3>3. l \in Nat
      BY <1>1, <2>3, <3>2, GetFields
    <3>4. Reply(g, m, Waiting(m, call[g]), l, wire[m][g], "body", open[g][m],
                call[g], h, disk[g][<<g, call[g].key>>].data)
      BY <3>1, <3>2 DEF ReplyOK
    <3>5. l = 0 \/ l = 1 \/ l = 2 \/ l = 3 \/ l = 4
      BY <3>3, <3>4 DEF Reply
    <3> QED
      BY <3>4, <3>5 DEF Reply, Parked, Resting
  <2> QED
    BY <1>1, <2>2, <2>3, PeersKnown DEF GetMode
<1>3. PICK w, c, h, q, x, l, e :
        /\ w = wire[g][n] /\ c = call[g] /\ h = handler[n] /\ q = queue[n]
        /\ x = Unasked(n, c) /\ l = Len(w) + x
        /\ e = [from |-> g, is |-> "get", key |-> c.key, size |-> 2]
  OBVIOUS
<1>4. /\ l \in Nat /\ Len(w) <= l /\ w \in Seq(Sent) /\ x \in Nat
      /\ c.key \in Keys /\ Len(w) \in Nat
  <2>1. GetCall(Peers(g), c)
    BY <1>1, <1>3 DEF GetMode
  <2>2. /\ w \in Seq(Sent) /\ x \in Nat /\ l \in Nat /\ Len(w) <= l
        /\ Len(w) \in Nat /\ CallOK(c)
    BY <1>1, <1>2, <1>3, GetFields
  <2> QED
    BY <2>1, <2>2 DEF GetCall, CallOK
<1>5. Ask(g, c.key, Waiting(n, c), l, w, "body", wire[n][g], q, h)
  BY <1>1, <1>2, <1>3 DEF AskOK
<1>6. w # <<>>
  BY <1>1, <1>2, <1>3 DEF Arrived
<1>7. /\ l = 1 /\ Len(w) = 1 /\ w[1] = Piece("get", c.key, 2) /\ q = <<>>
      /\ e \in Message
      /\ Ask(g, c.key, Waiting(n, c), 0, <<>>, "peek", wire[n][g], <<e>>, h)
  <2>1. PICK k, v, j : /\ k = c.key /\ v = wire[n][g]
                       /\ j \in BOOLEAN /\ (j <=> Waiting(n, c))
    OBVIOUS
  <2>2. Ask(g, k, j, l, w, "body", v, q, h)
    BY <1>5, <2>1 DEF Ask
  <2>3. e = [from |-> g, is |-> "get", key |-> k, size |-> 2]
    BY <1>3, <2>1
  <2>4. k \in Keys /\ l \in Nat /\ w \in Seq(Sent) /\ Len(w) <= l
    BY <1>4, <2>1
  <2>5. /\ l = 1 /\ Len(w) = 1 /\ w[1] = Piece("get", k, 2) /\ q = <<>>
        /\ e \in Message /\ Ask(g, k, j, 0, <<>>, "peek", v, <<e>>, h)
    BY <1>6, <2>2, <2>3, <2>4, AskBody
  <2>6. Ask(g, k, Waiting(n, c), 0, <<>>, "peek", v, <<e>>, h)
    BY <2>1, <2>5 DEF Ask
  <2> QED
    BY <2>1, <2>5, <2>6
<1>8. Drain(n, m, 1) /\ Next1(n, m) = w[1]
  <2>1. PICK k \in 1..Len(wire[m][n]) : Drain(n, m, k)
    BY DEF Body
  <2>2. k = 1
    BY <1>2, <1>3, <1>7, <2>1
  <2> QED
    BY <1>1, <1>2, <1>3, <2>1, <2>2, Read1
<1>9. /\ wire'[g][n] = <<>>
      /\ \A b, d \in Nodes : b # g \/ d # n => wire'[b][d] = wire[b][d]
  <2>1. wire'[m][n] \in Seq(Sent) /\ Len(wire'[m][n]) = Len(wire[m][n]) - 1
    BY <1>1, <1>8, Read1
  <2>2. Len(wire'[m][n]) = 0
    BY <1>2, <1>3, <1>7, <2>1
  <2> QED
    BY <1>1, <1>2, <1>8, <2>1, <2>2, EmptySeq, Read1
<1>10. \A b, d \in Nodes :
         reader'[b][d] = IF b = n /\ d = g THEN "peek" ELSE reader[b][d]
  BY <1>1, <1>2 DEF Types, ReaderTypes
<1>11. queue' = [queue EXCEPT ![n] = <<e>>]
  <2>1. /\ w[1].is = "get" /\ w[1].key = c.key /\ w[1].size = 2
    BY <1>7 DEF Piece
  <2>2. queue' = [queue EXCEPT ![n] = Append(q, e)]
    BY <1>2, <1>3, <1>8, <2>1 DEF Body
  <2>3. Append(<<>>, e) = <<e>>
    OBVIOUS
  <2> QED
    BY <1>7, <2>2, <2>3
<1>12. queue'[n] = <<e>> /\ \A b \in Nodes : b # n => queue'[b] = queue[b]
  BY <1>1, <1>11 DEF Types, QueueTypes
<1>13. AskOK(g, n)'
  <2>1. /\ wire'[g][n] = <<>> /\ reader'[n][g] = "peek"
        /\ wire'[n][g] = wire[n][g] /\ call'[g] = c
        /\ queue'[n] = <<e>> /\ handler'[n] = h
    BY <1>1, <1>2, <1>3, <1>9, <1>10, <1>12
  <2>2. x = 0 /\ Len(<<>>) + 0 = 0
    BY <1>3, <1>4, <1>7
  <2> QED
    BY <1>3, <1>7, <2>1, <2>2 DEF AskOK
<1>14. ReplyOK(g, n)'
  <2>1. /\ wire'[n][g] = wire[n][g] /\ reader'[g][n] = reader[g][n]
        /\ open'[g][n] = open[g][n] /\ handler'[n] = handler[n]
        /\ call'[g] = call[g] /\ disk'[g] = disk[g]
    BY <1>1, <1>2, <1>9, <1>10
  <2> QED
    BY <1>2, <2>1 DEF ReplyOK
<1>15. GetMode(g)'
  <2>1. \A a, b \in Nodes : (a # g \/ b # n) /\ (a # n \/ b # g) =>
          /\ wire'[a][b] = wire[a][b] /\ reader'[b][a] = reader[b][a]
          /\ open'[b][a] = open[b][a]
    BY <1>1, <1>9, <1>10
  <2> QED
    BY <1>1, <1>2, <1>12, <1>13, <1>14, <2>1, OnePeer
<1>16. Net'
  <2>1. g \in Peers(n)
    BY <1>1, <1>2, PeersKnown
  <2> QED
    BY <1>1, <1>9, <2>1, NetStays
<1> QED
  BY <1>1, <1>15, <1>16, GetCopies

LEMMA GetWaits ==
  ASSUME NEW g \in Nodes, GetState(g), NEW n \in Nodes, NEW m \in Nodes,
         Park(n, m) \/ Resume(n, m)
  PROVE Net' /\ Copies' /\ GetMode(g)'
<1>1. /\ Types /\ Net /\ Copies /\ GetMode(g)
      /\ UNCHANGED <<up, broken, down, wire, queue, handler, call, disk>>
  BY DEF GetState, Park, Resume, net, links
<1>2. PICK s, u : /\ \/ reader[n][m] = "marked" /\ s = "parked" /\ u = 1
                     \/ /\ reader[n][m] = "parked" /\ open[n][m] = 0
                        /\ s = "peek" /\ u = 0
                  /\ reader' = [reader EXCEPT ![n][m] = s]
                  /\ \/ open' = [open EXCEPT ![n][m] = u]
                     \/ open' = open /\ u = open[n][m]
  <2>1. CASE Park(n, m)
    <3>1. reader[n][m] = "marked" /\ open[n][m] = 0
      BY <1>1, <2>1, ReaderFields DEF Park, ReaderOK
    <3>2. /\ reader' = [reader EXCEPT ![n][m] = "parked"]
          /\ open' = [open EXCEPT ![n][m] = 1]
      BY <2>1, <3>1 DEF Park
    <3> QED
      BY <3>1, <3>2
  <2>2. CASE Resume(n, m)
    BY <2>2 DEF Resume
  <2> QED
    BY <2>1, <2>2
<1>3. \A b, d \in Nodes :
        /\ reader'[b][d] = IF b = n /\ d = m THEN s ELSE reader[b][d]
        /\ open'[b][d] = IF b = n /\ d = m THEN u ELSE open[b][d]
  BY <1>1, <1>2 DEF Types, ReaderTypes
<1>4. Net'
  BY <1>1, PeersStay DEF Net
<1>5. Copies'
  BY <1>1, GetCopies
<1>6. CASE n = g /\ m \in Peers(g)
  <2>1. m # g /\ AskOK(g, m) /\ ReplyOK(g, m) /\ m \in Nodes
    BY <1>1, <1>6, PeersKnown DEF GetMode, Peers
  <2>2. PICK l : l = Len(wire[m][g]) + Unserved(handler[m])
    OBVIOUS
  <2>3. l \in Nat
    BY <1>1, <2>2, GetFields
  <2>4. Reply(g, m, Waiting(m, call[g]), l, wire[m][g], s, u, call[g],
              handler[m], disk[g][<<g, call[g].key>>].data)
    <3>1. Reply(g, m, Waiting(m, call[g]), l, wire[m][g], reader[g][m],
                open[g][m], call[g], handler[m],
                disk[g][<<g, call[g].key>>].data)
      BY <2>1, <2>2 DEF ReplyOK
    <3> QED
      BY <1>2, <1>6, <2>3, <3>1, ReplyWaits
  <2>5. ReplyOK(g, m)'
    <3>1. reader'[g][m] = s /\ open'[g][m] = u
      BY <1>3, <1>6
    <3> QED
      BY <1>1, <2>2, <2>4, <3>1 DEF ReplyOK
  <2>6. AskOK(g, m)'
    <3>1. reader'[m][g] = reader[m][g]
      BY <1>3, <1>6, <2>1
    <3> QED
      BY <1>1, <2>1, <3>1 DEF AskOK
  <2>7. \A a, b \in Nodes : (a # g \/ b # m) /\ (a # m \/ b # g) =>
          /\ wire'[a][b] = wire[a][b] /\ reader'[b][a] = reader[b][a]
          /\ open'[b][a] = open[b][a]
    BY <1>1, <1>3, <1>6
  <2> QED
    BY <1>1, <1>4, <1>5, <1>6, <2>5, <2>6, <2>7, OnePeer
<1>7. CASE m = g /\ n \in Peers(g)
  <2>1. AskOK(g, n)
    BY <1>1, <1>7 DEF GetMode
  <2>2. reader[n][g] \in {"peek", "body"}
    BY <2>1 DEF AskOK, Ask
  <2> QED
    BY <1>2, <1>7, <2>2
<1>8. CASE ~(n = g /\ m \in Peers(g)) /\ ~(m = g /\ n \in Peers(g))
  <2>1. Resting(reader[n][m], open[n][m])
    BY <1>8, OnlyGet
  <2>2. reader[n][m] = "parked" /\ s = "peek"
    BY <1>2, <2>1 DEF Resting
  <2>3. n # g /\ m # g
    <3>1. m \in Peers(n) /\ n \in Peers(m)
      BY <1>1, <2>2, PeersKnown
    <3> QED
      BY <1>8, <3>1
  <2>4. Others(g)'
    <3>1. Others(g)
      BY <1>1 DEF GetMode
    <3> SUFFICES ASSUME NEW b \in Nodes \ {g}, NEW d \in Peers(b) \ {g}
                 PROVE AtRest(d, b)'
      BY <1>1, <3>1, PeersStay DEF Others
    <3>2. d \in Nodes /\ AtRest(d, b)
      BY <3>1 DEF Others, Peers
    <3>3. CASE b = n /\ d = m
      <4>1. Resting(reader'[b][d], open'[b][d])
        BY <1>3, <2>2, <3>3 DEF Resting
      <4> QED
        BY <1>1, <3>2, <4>1 DEF AtRest
    <3>4. CASE ~(b = n /\ d = m)
      BY <1>1, <1>3, <3>2, <3>4 DEF AtRest
    <3> QED
      BY <3>3, <3>4
  <2>5. ASSUME NEW b \in Peers(g) PROVE AskOK(g, b)' /\ ReplyOK(g, b)'
    <3>1. b \in Nodes /\ AskOK(g, b) /\ ReplyOK(g, b)
      BY <1>1 DEF GetMode, Peers
    <3>2. /\ reader'[g][b] = reader[g][b] /\ reader'[b][g] = reader[b][g]
          /\ open'[g][b] = open[g][b]
      BY <1>3, <2>3, <3>1
    <3> QED
      BY <1>1, <3>1, <3>2, PeerStays
  <2>6. GetMode(g)'
    BY <1>1, <2>4, <2>5, PeersStay DEF GetMode
  <2> QED
    BY <1>4, <1>5, <2>6
<1> QED
  BY <1>6, <1>7, <1>8

\* The call of g while nothing of a file has come in.
LEMMA CallTurns ==
  ASSUME NEW g \in Nodes, GetState(g), NEW c, c = call[g], NEW d,
         call' = [call EXCEPT ![g] = d], d.key = c.key, c.want = 0, d.want = 0,
         GetCall(Peers(g), d),
         \A m \in Peers(g) : /\ Waiting(m, d) <=> Waiting(m, c)
                             /\ Unasked(m, d) = Unasked(m, c),
         UNCHANGED <<up, broken, down, wire, reader, open, queue, handler,
                     disk>>
  PROVE Net' /\ Copies' /\ GetMode(g)'
<1>1. Types /\ Net /\ Copies /\ GetMode(g)
  BY DEF GetState
<1>2. call'[g] = d /\ \A b \in Nodes : b # g => call'[b] = call[b]
  BY <1>1 DEF Types, CallTypes
<1>3. ASSUME NEW m \in Peers(g) PROVE AskOK(g, m)' /\ ReplyOK(g, m)'
  <2>1. m \in Nodes /\ AskOK(g, m) /\ ReplyOK(g, m)
    BY <1>1 DEF GetMode, Peers
  <2>2. PICK l, k, x, y : /\ l = Len(wire[g][m]) + Unasked(m, c)
                          /\ k = Len(wire[m][g]) + Unserved(handler[m])
                          /\ x = disk[g][<<g, c.key>>].data /\ y = handler[m]
    OBVIOUS
  <2>3. k \in Nat
    BY <1>1, <2>1, <2>2, GetFields
  <2>4. Ask(g, d.key, Waiting(m, d), l, wire[g][m], reader[m][g], wire[m][g],
            queue[m], y)
    <3>1. Ask(g, c.key, Waiting(m, c), l, wire[g][m], reader[m][g], wire[m][g],
              queue[m], y)
      BY <2>1, <2>2 DEF AskOK
    <3> QED
      BY <3>1 DEF Ask
  <2>5. Reply(g, m, Waiting(m, d), k, wire[m][g], reader[g][m], open[g][m], d,
              y, x)
    <3>1. Reply(g, m, Waiting(m, c), k, wire[m][g], reader[g][m], open[g][m], c,
                y, x)
      BY <2>1, <2>2 DEF ReplyOK
    <3>2. ~(c.at = m /\ c.want > 0) /\ ~(d.at = m /\ d.want > 0)
      OBVIOUS
    <3>3. Reply(g, m, Waiting(m, c), k, wire[m][g], reader[g][m], open[g][m], d,
                y, x)
      BY <2>3, <3>1, <3>2, ReplyOther
    <3> QED
      BY <3>3 DEF Reply
  <2>6. Unasked(m, d) = Unasked(m, c)
    OBVIOUS
  <2>7. AskOK(g, m)'
    BY <1>2, <2>2, <2>4, <2>6 DEF AskOK
  <2>8. ReplyOK(g, m)'
    BY <1>2, <2>2, <2>5 DEF ReplyOK
  <2> QED
    BY <2>7, <2>8
<1>4. GetMode(g)'
  BY <1>1, <1>2, <1>3, GetGoesOn
<1>5. Net'
  BY <1>1, PeersStay DEF Net
<1>6. Copies'
  <2>1. \A b \in Nodes, f \in Files : Writing(b, f) => Writing(b, f)'
    BY <1>2 DEF Writing
  <2> QED
    BY <1>1, <2>1, CopiesStay
<1> QED
  BY <1>4, <1>5, <1>6

\* Whose call it is.
LEMMA GetOwner ==
  ASSUME NEW g \in Nodes, GetState(g), NEW n \in Nodes, call[n].pc # "idle"
  PROVE /\ n = g /\ call[g].kind = "get" /\ GetCall(Peers(g), call[g])
        /\ call[g] \in Calling /\ call[g].key \in Keys
<1>1. Types /\ GetCall(Peers(g), call[g]) /\ Others(g)
  BY DEF GetState, GetMode
<1>2. n = g
  BY <1>1 DEF Others
<1>3. call[g] \in Calling /\ CallOK(call[g])
  BY <1>1, CallFields
<1> QED
  BY <1>1, <1>2, <1>3 DEF GetCall, CallOK

LEMMA GetTells ==
  ASSUME NEW g \in Nodes, GetState(g), NEW n \in Nodes, NEW m \in Nodes,
         Tell(n, m)
  PROVE Net' /\ Copies' /\ GetMode(g)'
<1>1. /\ Types /\ Net /\ Copies /\ GetMode(g)
      /\ UNCHANGED <<up, broken, down, reader, open, queue, handler, disk>>
  BY DEF GetState, Tell, net, links
<1>2. PICK c : c = call[g]
  OBVIOUS
<1>3. /\ n = g /\ c.pc = "tell" /\ c.kind = "get" /\ m \in c.to
      /\ c.key \in Keys /\ c.to \subseteq Peers(g) /\ c \in Calling
      /\ c.want = 0 /\ (c.at = None \/ c.at \in c.to) /\ c.to \subseteq Nodes
  <2>1. call[n].pc = "tell" /\ m \in call[n].to
    BY DEF Tell
  <2>2. n = g /\ GetCall(Peers(g), c) /\ c \in Calling /\ c.key \in Keys
    BY <1>2, <2>1, GetOwner
  <2> QED
    BY <1>2, <2>1, <2>2 DEF GetCall, Calling
<1>4. PICK d, e :
        /\ \/ c.at = None /\ d = [c EXCEPT !.at = m] /\ e = MessageMark
           \/ /\ c.at = m /\ d = [c EXCEPT !.at = None, !.to = c.to \ {m}]
              /\ e = Piece("get", c.key, 2)
        /\ call' = [call EXCEPT ![g] = d] /\ Write(g, m, e)
  <2>1. Alive(n, m)
    BY <1>1, <1>3, NoEnds
  <2>2. Len(Encrypted(c.key)) = 2
    BY <1>3, EncryptedTypes
  <2>3. \/ /\ c.at = None
           /\ call' = [call EXCEPT ![g] = [c EXCEPT !.at = m]]
           /\ Write(g, m, MessageMark)
        \/ /\ c.at = m
           /\ call' = [call EXCEPT ![g] =
                [c EXCEPT !.at = None, !.to = c.to \ {m}]]
           /\ Write(g, m, Piece(c.kind, c.key, Len(Encrypted(c.key))))
    BY <1>2, <1>3, <2>1 DEF Tell
  <2> QED
    BY <1>3, <2>2, <2>3
<1>5. /\ d.pc = "tell" /\ d.kind = "get" /\ d.key = c.key /\ d.want = 0
      /\ \/ c.at = None /\ d.at = m /\ d.to = c.to
         \/ c.at = m /\ d.at = None /\ d.to = c.to \ {m}
  BY <1>3, <1>4 DEF Calling
<1>6. e \in Sent
  BY <1>3, <1>4, SentPieces
<1>7. /\ wire'[g][m] = Append(wire[g][m], e)
      /\ \A a, b \in Nodes : a # g \/ b # m => wire'[a][b] = wire[a][b]
  BY <1>1, <1>4, <1>6, Written
<1>8. call'[g] = d /\ \A b \in Nodes : b # g => call'[b] = call[b]
  BY <1>1, <1>4 DEF Types, CallTypes
<1>9. m \in Peers(g) /\ None \notin Nodes /\ m # g
  BY <1>1, <1>3, NoneIsNothing, PeersKnown
<1>10. ASSUME NEW b \in Peers(g) PROVE AskOK(g, b)' /\ ReplyOK(g, b)'
  <2>1. b \in Nodes /\ b # g /\ AskOK(g, b) /\ ReplyOK(g, b)
    BY <1>1, PeersKnown DEF GetMode, Peers
  <2>2. PICK w, x, l, k, h, q :
          /\ w = wire[g][b] /\ x = Unasked(b, c) /\ l = Len(w) + x
          /\ h = handler[b] /\ k = Len(wire[b][g]) + Unserved(h)
          /\ q = queue[b]
    OBVIOUS
  <2>3. /\ k \in Nat /\ l \in Nat /\ w \in Seq(Sent) /\ Len(w) \in Nat
        /\ x \in Nat
    BY <1>1, <1>2, <2>1, <2>2, GetFields
  <2>4. Ask(g, c.key, Waiting(b, c), l, w, reader[b][g], wire[b][g], q, h)
    BY <1>2, <2>1, <2>2 DEF AskOK
  <2>5. Waiting(b, c) /\ Waiting(b, d)
    BY <1>3, <1>5 DEF Waiting
  <2>6. ReplyOK(g, b)'
    <3>1. Reply(g, b, Waiting(b, c), k, wire[b][g], reader[g][b], open[g][b], c,
                h, disk[g][<<g, c.key>>].data)
      BY <1>2, <2>1, <2>2 DEF ReplyOK
    <3>2. ~(c.at = b /\ c.want > 0) /\ ~(d.at = b /\ d.want > 0)
      BY <1>3, <1>5
    <3>3. Reply(g, b, Waiting(b, c), k, wire[b][g], reader[g][b], open[g][b], d,
                h, disk[g][<<g, c.key>>].data)
      BY <1>5, <2>3, <3>1, <3>2, ReplyOther
    <3>4. Reply(g, b, Waiting(b, d), k, wire[b][g], reader[g][b], open[g][b], d,
                h, disk[g][<<g, d.key>>].data)
      BY <1>5, <2>5, <3>3 DEF Reply
    <3>5. wire'[b][g] = wire[b][g] /\ call'[g] = d
      BY <1>7, <1>8, <2>1
    <3> QED
      BY <1>1, <2>2, <3>4, <3>5 DEF ReplyOK
  <2>7. CASE b = m
    <3>1. x \in {1, 2} /\ Unasked(m, d) = x - 1
          /\ e = IF x = 2 THEN MessageMark ELSE Piece("get", c.key, 2)
      <4>1. CASE c.at = None
        <5>1. x = 2 /\ Unasked(m, d) = 1
          BY <1>3, <1>5, <1>9, <2>1, <2>2, <2>7, <4>1 DEF Unasked
        <5> QED
          BY <1>4, <1>9, <2>1, <2>7, <4>1, <5>1
      <4>2. CASE c.at = m
        <5>1. x = 1 /\ Unasked(m, d) = 0
          BY <1>3, <1>5, <1>9, <2>2, <2>7, <4>2 DEF Unasked
        <5> QED
          BY <1>4, <1>9, <2>1, <2>7, <4>2, <5>1
      <4> QED
        BY <1>4, <4>1, <4>2
    <3>2. l - Len(w) = x
      BY <2>2, <2>3
    <3>3. e = AskTokens(c.key)[l - Len(w)]
      BY <3>1, <3>2, GetTokens
    <3>4. Ask(g, c.key, Waiting(b, c), l, Append(w, e), reader[b][g],
              wire[b][g], q, h)
      BY <1>6, <2>3, <2>4, <3>3, AskTells
    <3>5. Ask(g, d.key, Waiting(b, d), l, Append(w, e), reader[b][g],
              wire[b][g], q, h)
      BY <1>5, <2>5, <3>4 DEF Ask
    <3>6. Len(Append(w, e)) + Unasked(b, d) = l
      <4>1. Len(Append(w, e)) = Len(w) + 1
        BY <1>6, <2>3
      <4> QED
        BY <2>2, <2>3, <2>7, <3>1, <4>1
    <3>7. /\ wire'[g][b] = Append(w, e) /\ wire'[b][g] = wire[b][g]
          /\ call'[g] = d
      BY <1>7, <1>8, <2>1, <2>2, <2>7
    <3>8. AskOK(g, b)'
      BY <1>1, <2>2, <3>5, <3>6, <3>7 DEF AskOK
    <3> QED
      BY <2>6, <3>8
  <2>8. CASE b # m
    <3>1. Unasked(b, d) = x
      <4>1. b # None
        BY <1>9, <2>1
      <4> QED
        BY <1>3, <1>5, <2>2, <2>8, <4>1 DEF Unasked
    <3>2. Ask(g, d.key, Waiting(b, d), l, w, reader[b][g], wire[b][g], q, h)
      BY <1>5, <2>4, <2>5 DEF Ask
    <3>3. /\ wire'[g][b] = w /\ wire'[b][g] = wire[b][g] /\ call'[g] = d
      BY <1>7, <1>8, <2>1, <2>2, <2>8
    <3>4. AskOK(g, b)'
      BY <1>1, <2>2, <3>1, <3>2, <3>3 DEF AskOK
    <3> QED
      BY <2>6, <3>4
  <2> QED
    BY <2>7, <2>8
<1>11. GetMode(g)'
  <2>1. GetCall(Peers(g), d)
    BY <1>3, <1>5, <1>9 DEF GetCall
  <2>2. \A a, b \in Nodes : a # g /\ b # g =>
          /\ wire'[a][b] = wire[a][b] /\ reader'[b][a] = reader[b][a]
          /\ open'[b][a] = open[b][a]
    BY <1>1, <1>7
  <2> QED
    BY <1>1, <1>8, <1>10, <2>1, <2>2, GetGoesOn
<1>12. Net'
  <2>1. g \in Peers(m)
    BY <1>1, <1>9, <1>3, PeersKnown
  <2> QED
    BY <1>1, <1>3, <1>7, <2>1, NetStays
<1>13. Copies'
  <2>1. \A b \in Nodes, f \in Files : Writing(b, f) => Writing(b, f)'
    BY <1>1, <1>2, <1>3, <1>5, <1>8 DEF Writing
  <2> QED
    BY <1>1, <2>1, CopiesStay
<1> QED
  BY <1>11, <1>12, <1>13

LEMMA GetAsks ==
  ASSUME NEW g \in Nodes, GetState(g), NEW n \in Nodes, NEW m \in Nodes,
         AskPeers(n) \/ Choose(n, m)
  PROVE Net' /\ Copies' /\ GetMode(g)'
<1>1. PICK c : c = call[g]
  OBVIOUS
<1>2. n = g /\ GetCall(Peers(g), c) /\ c \in Calling
  <2>1. call[n].pc # "idle"
    BY DEF AskPeers, Told, Choose
  <2> QED
    BY <1>1, <2>1, GetOwner
<1>3. Peers(g) \subseteq Nodes /\ None \notin Nodes
  BY NoneIsNothing DEF Peers
<1>4. UNCHANGED <<up, broken, down, wire, reader, open, queue, handler, disk>>
  BY DEF AskPeers, Choose, net, links
<1>5. CASE AskPeers(n)
  <2>1. PICK P, d : P = Peers(g) /\ d = [c EXCEPT !.pc = "ask", !.to = P]
    OBVIOUS
  <2>2. c.pc = "tell" /\ c.to = {} /\ call' = [call EXCEPT ![g] = d]
    BY <1>1, <1>2, <1>5, <2>1 DEF AskPeers, Told
  <2>3. c.at = None /\ c.want = 0 /\ c.kind = "get"
    BY <1>2, <2>2 DEF GetCall
  <2>4. /\ d.pc = "ask" /\ d.to = P /\ d.at = None /\ d.want = 0
        /\ d.key = c.key /\ d.kind = "get"
    BY <1>2, <2>1, <2>3 DEF Calling
  <2>5. GetCall(Peers(g), d)
    BY <1>3, <2>1, <2>4 DEF GetCall
  <2>6. ASSUME NEW b \in Peers(g)
        PROVE /\ Waiting(b, d) <=> Waiting(b, c)
              /\ Unasked(b, d) = Unasked(b, c)
    BY <2>1, <2>2, <2>4 DEF Waiting, Unasked
  <2> QED
    BY <1>1, <1>4, <2>2, <2>3, <2>4, <2>5, <2>6, CallTurns
<1>6. CASE Choose(n, m)
  <2>1. PICK d : d = [c EXCEPT !.at = m, !.to = c.to \ {m}]
    OBVIOUS
  <2>2. /\ c.pc = "ask" /\ c.at = None /\ m \in c.to
        /\ call' = [call EXCEPT ![g] = d]
    BY <1>1, <1>2, <1>6, <2>1 DEF Choose
  <2>3. /\ c.want = 0 /\ c.kind = "get" /\ m \in Peers(g)
        /\ c.to \subseteq Peers(g)
    BY <1>2, <2>2 DEF GetCall
  <2>4. /\ d.pc = "ask" /\ d.to = c.to \ {m} /\ d.at = m /\ d.want = 0
        /\ d.key = c.key /\ d.kind = "get"
    BY <1>2, <2>1, <2>2, <2>3 DEF Calling
  <2>5. GetCall(Peers(g), d)
    BY <1>3, <2>3, <2>4 DEF GetCall
  <2>6. ASSUME NEW b \in Peers(g)
        PROVE /\ Waiting(b, d) <=> Waiting(b, c)
              /\ Unasked(b, d) = Unasked(b, c)
    <3>1. b # None
      BY <1>3
    <3> QED
      BY <2>2, <2>3, <2>4, <3>1 DEF Waiting, Unasked
  <2> QED
    BY <1>1, <1>4, <2>2, <2>3, <2>4, <2>5, <2>6, CallTurns
<1> QED
  BY <1>5, <1>6

\* Get reads a piece of the answer of m.
LEMMA ReadsFrom ==
  ASSUME NEW g \in Nodes, GetState(g), NEW m \in Peers(g), NEW c, c = call[g],
         NEW d, call'[g] = d, \A b \in Nodes : b # g => call'[b] = call[b],
         c.pc = "ask" /\ c.at = m, d.pc = "ask" /\ d.kind = "get",
         d.key = c.key /\ d.to = c.to,
         d.at = m \/ (d.at = None /\ d.want = 0),
         Arrived(g, m), Drain(g, m, 1),
         UNCHANGED <<up, broken, down, reader, queue, handler>>,
         \A a, b \in Nodes : a # g \/ b # m => open'[a][b] = open[a][b],
         ReplyOK(g, m)'
  PROVE Net' /\ GetMode(g)'
<1>1. /\ Types /\ Net /\ Copies /\ GetMode(g) /\ GetCall(Peers(g), c)
      /\ None \notin Nodes /\ m \in Nodes /\ m # g /\ Peers(g) \subseteq Nodes
  BY NoneIsNothing, PeersKnown DEF GetState, GetMode, Peers
<1>2. /\ wire[m][g] # <<>>
      /\ \A a, b \in Nodes : a # m \/ b # g => wire'[a][b] = wire[a][b]
  BY <1>1, Read1 DEF Arrived
<1>3. ASSUME NEW b \in Peers(g) PROVE AskOK(g, b)' /\ ReplyOK(g, b)'
  <2>1. b \in Nodes /\ b # g /\ AskOK(g, b) /\ ReplyOK(g, b)
    BY <1>1, PeersKnown DEF Peers, GetMode
  <2>2. PICK l, k, x, h : /\ l = Len(wire[g][b]) + Unasked(b, c)
                          /\ k = Len(wire[b][g]) + Unserved(handler[b])
                          /\ x = disk[g][<<g, c.key>>].data /\ h = handler[b]
    OBVIOUS
  <2>3. l \in Nat /\ k \in Nat
    BY <1>1, <2>1, <2>2, GetFields
  <2>4. Ask(g, c.key, Waiting(b, c), l, wire[g][b], reader[b][g], wire[b][g],
            queue[b], h)
    BY <2>1, <2>2 DEF AskOK
  <2>5. Unasked(b, d) = Unasked(b, c)
    BY DEF Unasked
  <2>6. wire'[g][b] = wire[g][b] /\ reader'[b][g] = reader[b][g]
    BY <1>1, <1>2, <2>1
  <2>7. CASE b = m
    <3>1. wire[b][g] # <<>>
      BY <1>2, <2>7
    <3>2. Ask(g, c.key, Waiting(b, d), l, wire[g][b], reader[b][g],
              wire'[b][g], queue[b], h)
      BY <2>3, <2>4, <3>1, AskOver
    <3>3. AskOK(g, b)'
      BY <2>2, <2>5, <2>6, <3>2 DEF AskOK
    <3> QED
      BY <2>7, <3>3
  <2>8. CASE b # m
    <3>1. /\ wire'[b][g] = wire[b][g] /\ open'[g][b] = open[g][b]
          /\ reader'[g][b] = reader[g][b]
      BY <1>1, <1>2, <2>1, <2>8
    <3>2. Waiting(b, d) <=> Waiting(b, c)
      BY <1>1, <2>1, <2>8 DEF Waiting
    <3>3. Ask(g, d.key, Waiting(b, d), l, wire[g][b], reader[b][g], wire[b][g],
              queue[b], h)
      BY <2>4, <3>2 DEF Ask
    <3>4. AskOK(g, b)'
      BY <2>2, <2>5, <2>6, <3>1, <3>3 DEF AskOK
    <3>5. ~(c.at = b /\ c.want > 0) /\ ~(d.at = b /\ d.want > 0)
      BY <1>1, <2>1, <2>8
    <3>6. Reply(g, b, Waiting(b, c), k, wire[b][g], reader[g][b], open[g][b], c,
                h, x)
      BY <2>1, <2>2 DEF ReplyOK
    <3>7. Reply(g, b, Waiting(b, c), k, wire[b][g], reader[g][b], open[g][b], d,
                h, disk'[g][<<g, d.key>>].data)
      BY <2>3, <3>5, <3>6, ReplyOther
    <3>8. Reply(g, b, Waiting(b, d), k, wire[b][g], reader[g][b], open[g][b], d,
                h, disk'[g][<<g, d.key>>].data)
      BY <3>2, <3>7 DEF Reply
    <3>9. ReplyOK(g, b)'
      BY <2>2, <3>1, <3>8 DEF ReplyOK
    <3> QED
      BY <3>4, <3>9
  <2> QED
    BY <2>7, <2>8
<1>4. GetCall(Peers(g), d)
  BY <1>1 DEF GetCall
<1>5. \A a, b \in Nodes : a # g /\ b # g =>
        /\ wire'[a][b] = wire[a][b] /\ reader'[b][a] = reader[b][a]
        /\ open'[b][a] = open[b][a]
  BY <1>2
<1>6. GetMode(g)'
  BY <1>1, <1>3, <1>4, <1>5, GetGoesOn
<1>7. Net'
  BY <1>1, <1>2, NetStays
<1> QED
  BY <1>6, <1>7

\* Get writes to no other file.
LEMMA ReadCopies ==
  ASSUME NEW g \in Nodes, GetState(g), NEW f \in Files, f = <<g, call[g].key>>,
         \A b \in Nodes : b # g => call'[b] = call[b], UNCHANGED handler,
         \A b \in Nodes, x \in Files :
           b # g \/ x # f => disk'[b][x] = disk[b][x],
         CopyWhole(g, f)'
  PROVE Copies'
<1> SUFFICES ASSUME NEW b \in Nodes, NEW x \in Files, b # g \/ x # f
             PROVE CopyWhole(b, x)'
  BY DEF Copies
<1>1. CopyWhole(b, x) /\ disk'[b][x] = disk[b][x]
  BY DEF GetState, Copies
<1>2. Writing(b, x) => Writing(b, x)'
  <2>1. CASE b = g
    <3>1. ~(x[1] = b /\ call[b].key = x[2])
      BY <2>1 DEF Files
    <3> QED
      BY <3>1 DEF Writing
  <2>2. CASE b # g
    BY <2>2 DEF Writing
  <2> QED
    BY <2>1, <2>2
<1> QED
  BY <1>1, <1>2 DEF CopyWhole

LEMMA GetReadsSize ==
  ASSUME NEW g \in Nodes, GetState(g), NEW n \in Nodes, NEW m \in Nodes,
         ReadSize(n, m), Timely
  PROVE Net' /\ Copies' /\ GetMode(g)'
<1>1. PICK c, f, v, y : /\ c = call[g] /\ f = <<g, c.key>> /\ v = wire[m][g]
                        /\ y = wire'[m][g]
  OBVIOUS
<1>2. /\ n = g /\ c.pc = "ask" /\ c.at = m /\ c.want = 0 /\ c.kind = "get"
      /\ m \in Peers(g) /\ c \in Calling /\ c.key \in Keys /\ f \in Files
  <2>1. call[n].pc = "ask" /\ call[n].at = m /\ m # None /\ call[n].want = 0
    BY DEF ReadSize, Asking
  <2>2. /\ n = g /\ GetCall(Peers(g), c) /\ c \in Calling /\ c.key \in Keys
        /\ c.kind = "get"
    BY <1>1, <2>1, GetOwner
  <2> QED
    BY <1>1, <2>1, <2>2 DEF GetCall, Files
<1>3. /\ Types /\ Net /\ Copies /\ GetMode(g) /\ AskOK(g, m) /\ ReplyOK(g, m)
      /\ UNCHANGED <<up, broken, down, reader, open, queue, handler>>
  BY <1>2 DEF GetState, GetMode, ReadSize, net, links
<1>4. /\ Arrived(g, m) /\ reader[g][m] = "parked" /\ Drain(g, m, 1)
      /\ \/ /\ Next1(g, m).is = "size"
            /\ disk' = [disk EXCEPT ![g][f] = File(<<>>)]
            /\ call' = [call EXCEPT
                 ![g] = IF Next1(g, m).size = 0 THEN NoCall
                        ELSE [c EXCEPT !.want = Next1(g, m).size]]
         \/ Next1(g, m).is # "size"
  <2>1. ~Ended(g, m)
    BY <1>2, <1>3, NoEnds
  <2> QED
    BY <1>1, <1>2, <2>1 DEF ReadSize, Turn, InTime, Timely, Undisturbed
<1>5. /\ v \in Seq(Sent) /\ v # <<>> /\ y \in Seq(Sent) /\ Len(y) = Len(v) - 1
      /\ Next1(g, m) = v[1]
  BY <1>1, <1>3, <1>4, Read1 DEF Arrived
<1>6. \A i \in 1..Len(y) : y[i] = v[i + 1]
  BY <1>1, <1>3, <1>4, Read1
<1>7. PICK d : d = [c EXCEPT !.want = 2]
  OBVIOUS
<1>8. /\ d.pc = "ask" /\ d.at = m /\ d.want = 2 /\ d.key = c.key
      /\ d.kind = "get" /\ d.to = c.to
  BY <1>2, <1>7 DEF Calling
<1>9. PICK k, h, s, u : /\ h = handler[m] /\ k = Len(v) + Unserved(h)
                        /\ s = reader[g][m] /\ u = open[g][m]
  OBVIOUS
<1>10. k \in Nat /\ Len(v) <= k /\ Len(v) \in Nat /\ Unserved(h) \in Nat
  BY <1>1, <1>2, <1>3, <1>9, GetFields
<1>11. /\ k = 3 /\ v[1] = Piece("size", c.key, 2)
       /\ Reply(g, m, Waiting(m, d), 2, y, s, u, d, h, <<>>)
  <2>1. Reply(g, m, Waiting(m, c), k, v, s, u, c, h, disk[g][f].data)
    BY <1>1, <1>3, <1>9 DEF ReplyOK
  <2>2. s = "parked"
    BY <1>4, <1>9
  <2>3. Sized(g, m, Waiting(m, c), k, v, y, s, u, c, h)
    BY <1>2, <1>5, <1>6, <1>10, <2>1, <2>2, ReplySize
  <2>4. k = 3 /\ Reply(g, m, Waiting(m, c), 2, y, s, u, d, h, <<>>)
    BY <1>8, <2>3 DEF Sized
  <2> QED
    BY <2>3, <2>4 DEF Reply, Sized
<1>12. /\ disk' = [disk EXCEPT ![g][f] = File(<<>>)]
       /\ call' = [call EXCEPT ![g] = d]
  <2>1. Next1(g, m).is = "size" /\ Next1(g, m).size = 2
    BY <1>5, <1>11 DEF Piece
  <2> QED
    BY <1>4, <1>7, <2>1
<1>13. call'[g] = d /\ \A b \in Nodes : b # g => call'[b] = call[b]
  BY <1>3, <1>12 DEF Types, CallTypes
<1>14. \A a \in Nodes : \A e \in Files :
         disk'[a][e] = IF a = g /\ e = f THEN File(<<>>) ELSE disk[a][e]
  <2>1. PICK x : x = File(<<>>)
    OBVIOUS
  <2>2. x \in Copy
    BY <2>1 DEF File, Copy
  <2>3. Types /\ disk' = [disk EXCEPT ![g][f] = x] /\ f \in Files
    BY <1>2, <1>3, <1>12, <2>1
  <2>4. \A a \in Nodes : \A e \in Files :
          disk'[a][e] = IF a = g /\ e = f THEN x ELSE disk[a][e]
    BY <2>2, <2>3 DEF Types, DiskTypes
  <2> QED
    BY <2>1, <2>4
<1>15. ReplyOK(g, m)'
  <2>1. disk'[g][<<g, d.key>>].data = <<>>
    BY <1>1, <1>2, <1>8, <1>14 DEF File
  <2>2. Len(y) + Unserved(h) = 2
    BY <1>5, <1>9, <1>10, <1>11
  <2> QED
    BY <1>1, <1>3, <1>9, <1>11, <1>13, <2>1, <2>2 DEF ReplyOK
<1>16. Net' /\ GetMode(g)'
  BY <1>1, <1>2, <1>3, <1>4, <1>8, <1>13, <1>15, ReadsFrom
<1>17. Copies'
  <2>1. Writing(g, f)'
    BY <1>1, <1>8, <1>13 DEF Writing
  <2>2. CopyWhole(g, f)'
    BY <2>1 DEF CopyWhole
  <2> QED
    BY <1>1, <1>2, <1>3, <1>13, <1>14, <2>2, ReadCopies
<1> QED
  BY <1>16, <1>17

LEMMA GetReadsData ==
  ASSUME NEW g \in Nodes, GetState(g), NEW n \in Nodes, NEW m \in Nodes,
         ReadData(n, m), Timely
  PROVE Net' /\ Copies' /\ GetMode(g)'
<1>1. PICK c, f, v, y, e : /\ c = call[g] /\ f = <<g, c.key>> /\ v = wire[m][g]
                           /\ y = wire'[m][g] /\ e = Next1(g, m)
  OBVIOUS
<1>2. /\ n = g /\ c.pc = "ask" /\ c.at = m /\ c.want \in Nat /\ c.want > 0
      /\ c.kind = "get" /\ m \in Peers(g) /\ c \in Calling /\ c.key \in Keys
      /\ f \in Files
  <2>1. call[n].pc = "ask" /\ call[n].at = m /\ m # None /\ call[n].want > 0
    BY DEF ReadData, Asking
  <2>2. /\ n = g /\ GetCall(Peers(g), c) /\ c \in Calling /\ c.key \in Keys
        /\ c.kind = "get"
    BY <1>1, <2>1, GetOwner
  <2> QED
    BY <1>1, <2>1, <2>2 DEF GetCall, Files, Calling
<1>3. /\ Types /\ Net /\ Copies /\ GetMode(g) /\ AskOK(g, m) /\ ReplyOK(g, m)
      /\ UNCHANGED <<up, broken, reader, queue, handler>>
  BY <1>2 DEF GetState, GetMode, ReadData, links
<1>4. /\ Arrived(g, m) /\ Drain(g, m, 1) /\ Grows(g, f, e)
      /\ call' = [call EXCEPT ![g].want = @ - 1,
                              ![g].at = IF c.want = 1 THEN None ELSE m]
      /\ IF c.want = 1 THEN CloseStream(g, m) ELSE KeepStream
  <2>1. ~Ended(g, m)
    BY <1>2, <1>3, NoEnds
  <2> QED
    BY <1>1, <1>2, <2>1 DEF ReadData, Grows
<1>5. /\ v \in Seq(Sent) /\ v # <<>> /\ y \in Seq(Sent) /\ Len(y) = Len(v) - 1
      /\ e = v[1] /\ e \in Sent
  BY <1>1, <1>3, <1>4, Read1 DEF Arrived
<1>6. \A i \in 1..Len(y) : y[i] = v[i + 1]
  BY <1>1, <1>3, <1>4, Read1
<1>7. PICK k, h, s, u, x : /\ h = handler[m] /\ k = Len(v) + Unserved(h)
                           /\ s = reader[g][m] /\ u = open[g][m]
                           /\ x = disk[g][f].data
  OBVIOUS
<1>8. k \in Nat /\ Len(v) <= k /\ Len(v) \in Nat /\ Unserved(h) \in Nat
  BY <1>1, <1>2, <1>3, <1>7, GetFields
<1>9. Received(g, m, k, v, y, s, u, c, h, x)
  <2>1. Reply(g, m, Waiting(m, c), k, v, s, u, c, h, x)
    BY <1>1, <1>3, <1>7 DEF ReplyOK
  <2> QED
    BY <1>2, <1>5, <1>6, <1>8, <2>1, ReplyData
<1>10. u = 1 /\ k = c.want /\ k \in {1, 2}
  BY <1>9 DEF Received
<1>11. PICK z, a : z = c.want - 1 /\ a = IF c.want = 1 THEN None ELSE m
  OBVIOUS
<1>12. PICK d : d = [c EXCEPT !.want = z, !.at = a]
  OBVIOUS
<1>13. /\ d.pc = "ask" /\ d.kind = "get" /\ d.key = c.key /\ d.to = c.to
       /\ d.want = z /\ d.at = a
  BY <1>2, <1>12 DEF Calling
<1>14. call'[g] = d /\ \A b \in Nodes : b # g => call'[b] = call[b]
  <2>1. call' = [call EXCEPT ![g].want = z, ![g].at = a]
    BY <1>1, <1>4, <1>11
  <2>2. call' = [call EXCEPT ![g] = d]
    BY <1>1, <1>3, <1>12, <2>1 DEF Types, CallTypes
  <2> QED
    BY <1>3, <2>2 DEF Types, CallTypes
<1>15. /\ UNCHANGED down
       /\ open'[g][m] = IF k = 1 THEN 0 ELSE 1
       /\ \A b, r \in Nodes : b # g \/ r # m => open'[b][r] = open[b][r]
  <2>1. CASE k = 1
    <3>1. open' = [open EXCEPT ![g][m] = 0] /\ UNCHANGED down
      BY <1>4, <1>7, <1>10, <2>1 DEF CloseStream
    <3> QED
      BY <1>3, <2>1, <3>1 DEF Types, ReaderTypes
  <2>2. CASE k = 2
    <3>1. KeepStream
      BY <1>4, <1>10, <2>2
    <3>2. UNCHANGED <<open, down>> /\ open[g][m] = 1
      BY <1>7, <1>10, <3>1 DEF KeepStream
    <3> QED
      BY <2>2, <3>2
  <2> QED
    BY <1>10, <2>1, <2>2
<1>16. /\ disk'[g][f].data = Append(x, e)
       /\ \A b \in Nodes, r \in Files :
            b # g \/ r # f => disk'[b][r] = disk[b][r]
  BY <1>2, <1>3, <1>4, <1>5, <1>7, CopyGrows
<1>17. /\ k = 2 => disk'[g][f].data = <<Piece("iv", c.key, 0)>>
       /\ k = 1 => disk'[g][f].data = Encrypted(c.key)
  <2>1. CASE k = 2
    <3>1. Append(<<>>, e) = <<e>>
      OBVIOUS
    <3> QED
      BY <1>5, <1>9, <1>16, <2>1, <3>1 DEF Received
  <2>2. CASE k = 1
    <3>1. PICK i : i = Piece("iv", c.key, 0)
      OBVIOUS
    <3>2. i \in Sent /\ e = Piece("data", c.key, 0) /\ x = <<i>>
      BY <1>2, <1>5, <1>9, <2>2, <3>1, SentPieces DEF Received
    <3>3. Append(<<i>>, e) = <<i, e>>
      BY <1>5, <3>2, AppendOne
    <3>4. Encrypted(c.key) = <<i, e>>
      BY <1>2, <3>1, <3>2, EncryptedTypes
    <3> QED
      BY <1>16, <2>2, <3>2, <3>3, <3>4
  <2> QED
    BY <1>10, <2>1, <2>2
<1>18. ReplyOK(g, m)'
  <2>1. Len(y) + Unserved(h) = k - 1
    BY <1>5, <1>7, <1>8
  <2>2. /\ wire'[m][g] = y /\ reader'[g][m] = s /\ handler'[m] = h
        /\ disk'[g][<<g, d.key>>].data = disk'[g][f].data
    BY <1>1, <1>3, <1>7, <1>13
  <2>3. CASE k = 2
    <3>1. Reply(g, m, Waiting(m, d), 1, y, s, 1, d, h, disk'[g][f].data)
      <4>1. z = 1 /\ a = m
        BY <1>10, <1>11, <2>3
      <4> QED
        BY <1>9, <1>10, <1>13, <1>17, <2>3, <4>1 DEF Received
    <3> QED
      BY <1>14, <1>15, <2>1, <2>2, <2>3, <3>1 DEF ReplyOK
  <2>4. CASE k = 1
    <3>1. z = 0 /\ a = None
      BY <1>10, <1>11, <2>4
    <3>2. ~Waiting(m, d)
      <4>1. GetCall(Peers(g), c) /\ None \notin Nodes
        BY <1>1, <1>3, NoneIsNothing DEF GetMode
      <4> QED
        BY <1>2, <1>13, <3>1, <4>1 DEF Waiting, GetCall
    <3>3. Reply(g, m, Waiting(m, d), 0, y, s, 0, d, h, disk'[g][f].data)
      BY <1>9, <1>13, <2>4, <3>1, <3>2 DEF Received
    <3> QED
      BY <1>14, <1>15, <2>1, <2>2, <2>4, <3>3 DEF ReplyOK
  <2> QED
    BY <1>10, <2>3, <2>4
<1>19. Net' /\ GetMode(g)'
  <2>1. d.at = m \/ (d.at = None /\ d.want = 0)
    BY <1>11, <1>13
  <2>2. UNCHANGED <<up, broken, down, reader, queue, handler>>
    BY <1>3, <1>15
  <2>3. \A b, r \in Nodes : b # g \/ r # m => open'[b][r] = open[b][r]
    BY <1>15
  <2>4. call'[g] = d /\ d.pc = "ask" /\ d.kind = "get" /\ d.key = c.key
        /\ d.to = c.to /\ c.pc = "ask" /\ c.at = m /\ c = call[g]
        /\ m \in Peers(g) /\ Arrived(g, m) /\ Drain(g, m, 1)
    BY <1>1, <1>2, <1>4, <1>13, <1>14
  <2>5. \A b \in Nodes : b # g => call'[b] = call[b]
    BY <1>14
  <2> QED
    BY <1>18, <2>1, <2>2, <2>3, <2>4, <2>5, ReadsFrom
<1>20. Copies'
  <2>1. CopyWhole(g, f)'
    <3>1. CASE k = 1
      <4>1. f[2] = c.key
        BY <1>1
      <4> QED
        BY <1>17, <3>1, <4>1 DEF CopyWhole
    <3>2. CASE k = 2
      <4>1. Writing(g, f)'
        BY <1>1, <1>10, <1>11, <1>13, <1>14, <3>2 DEF Writing
      <4> QED
        BY <4>1 DEF CopyWhole
    <3> QED
      BY <1>10, <3>1, <3>2
  <2> QED
    BY <1>1, <1>2, <1>3, <1>14, <1>16, <2>1, ReadCopies
<1> QED
  BY <1>19, <1>20

\* What a peer serves of a whole copy.
LEMMA ServedWhole ==
  ASSUME NEW k \in Keys, NEW t, t = Served(k, Encrypted(k))
  PROVE t \in Seq(Sent) /\ Len(t) = 4 /\ Carries(t, 4, ReplyTokens(k))
<1>1. PICK x : x = Encrypted(k)
  OBVIOUS
<1>2. /\ x \in Seq(Sent) /\ Len(x) = 2
      /\ x = <<Piece("iv", k, 0), Piece("data", k, 0)>>
  BY <1>1, EncryptedTypes
<1>3. x[1] = Piece("iv", k, 0) /\ x[2] = Piece("data", k, 0)
  BY <1>2
<1>4. /\ t \in Seq(Sent) /\ Len(t) = 4 /\ t[1] = StreamMark
      /\ t[2] = Piece("size", k, 2) /\ t[3] = x[1] /\ t[4] = x[2]
  <2>1. x \in Seq(Sent) /\ t = Served(k, x)
    BY <1>1, <1>2
  <2>2. /\ t \in Seq(Sent) /\ Len(t) = Len(x) + 2 /\ t[1] = StreamMark
        /\ t[2] = Piece("size", k, Len(x))
        /\ \A i \in 1..Len(x) : t[i + 2] = x[i]
    BY <2>1, ServedTypes
  <2>3. Len(x) = 2 /\ 1 \in 1..2 /\ 2 \in 1..2 /\ 1 + 2 = 3 /\ 2 + 2 = 4
    BY <1>2
  <2> QED
    BY <2>2, <2>3
<1>5. ASSUME NEW i \in DOMAIN t PROVE t[i] = ReplyTokens(k)[4 - i + 1]
  <2>1. i = 1 \/ i = 2 \/ i = 3 \/ i = 4
    BY <1>4
  <2> QED
    BY <1>3, <1>4, <2>1, GetTokens
<1> QED
  BY <1>4, <1>5 DEF Carries

\* A peer takes the request: it has the whole file, or nothing.
LEMMA GetTakes ==
  ASSUME NEW g \in Nodes, GetState(g), NEW n \in Nodes, Dispatch(n)
  PROVE Net' /\ Copies' /\ GetMode(g)'
<1>1. /\ Types /\ Net /\ Copies /\ GetMode(g) /\ Others(g)
      /\ queue[n] # <<>> /\ handler[n].pc = "idle"
      /\ UNCHANGED <<up, broken, down, wire, reader, open, call>>
      /\ queue' = [queue EXCEPT ![n] = Tail(@)]
  BY DEF GetState, GetMode, Dispatch, net, links
<1>2. PICK q, h, msg, c, k : /\ q = queue[n] /\ h = handler[n] /\ msg = Head(q)
                             /\ c = call[g] /\ k = c.key
  OBVIOUS
<1>3. n # g /\ n \in Peers(g)
  BY <1>1 DEF Others
<1>4. PICK l, w, v : /\ w = wire[g][n] /\ v = wire[n][g]
                     /\ l = Len(w) + Unasked(n, c)
  OBVIOUS
<1>5. l \in Nat /\ q \in Seq(Message) /\ k \in Keys
  <2>1. call[g].pc # "idle"
    BY <1>1 DEF GetMode, GetCall
  <2> QED
    BY <1>1, <1>2, <1>3, <1>4, <2>1, GetFields, GetOwner
<1>6. AskOK(g, n) /\ ReplyOK(g, n)
  BY <1>1, <1>3 DEF GetMode
<1>7. Ask(g, k, Waiting(n, c), l, w, reader[n][g], v, q, h)
  BY <1>2, <1>4, <1>6 DEF AskOK
<1>8. /\ v = <<>> /\ Waiting(n, c) /\ Len(q) = 1
      /\ q[1].from = g /\ q[1].is = "get" /\ q[1].key = k
  BY <1>1, <1>2, <1>7 DEF Ask
<1>9. msg.from = g /\ msg.is = "get" /\ msg.key = k /\ Tail(q) = <<>>
  <2>1. msg = q[1]
    BY <1>2, <1>5, <1>8
  <2>2. PICK y : y = Tail(q)
    OBVIOUS
  <2>3. y \in Seq(Message) /\ Len(y) = 0
    <3>1. q \in Seq(Message) /\ Len(q) = 1 /\ q # <<>>
      BY <1>1, <1>2, <1>5, <1>8
    <3> QED
      BY <2>2, <3>1
  <2>4. y = <<>>
    BY <2>3, EmptySeq
  <2> QED
    BY <1>8, <2>1, <2>2, <2>4
<1>10. PICK f, x : f = <<g, k>> /\ x = disk[n][f]
  OBVIOUS
<1>11. f \in Files /\ (x.there => x.data = Encrypted(k))
  <2>1. f \in Files /\ f[1] = g /\ f[2] = k
    BY <1>5, <1>10 DEF Files
  <2>2. ~Writing(n, f)
    BY <1>1, <1>3, <2>1 DEF Writing
  <2>3. CopyWhole(n, f)
    BY <1>1, <2>1 DEF Copies
  <2> QED
    BY <1>10, <2>1, <2>2, <2>3 DEF CopyWhole
<1>12. PICK p : /\ handler' = [handler EXCEPT ![n] = p]
                /\ p = IF ~x.there THEN NoWork
                       ELSE [NoWork EXCEPT !.pc = "get", !.from = g,
                                           !.todo = Served(k, x.data)]
  BY <1>2, <1>9, <1>10 DEF Dispatch
<1>13. UNCHANGED disk
  BY <1>2, <1>9 DEF Dispatch
<1>14. /\ queue'[n] = <<>> /\ handler'[n] = p
       /\ \A b \in Nodes : b # n => /\ queue'[b] = queue[b]
                                    /\ handler'[b] = handler[b]
  BY <1>1, <1>2, <1>9, <1>12 DEF Types, QueueTypes, WorkTypes
<1>15. AskOK(g, n)'
  <2>1. Ask(g, k, Waiting(n, c), l, w, reader[n][g], v, <<>>, p)
    <3>1. l = 0
      BY <1>1, <1>2, <1>5, <1>7 DEF Ask
    <3> QED
      BY <1>7, <3>1 DEF Ask
  <2> QED
    BY <1>1, <1>2, <1>4, <1>14, <2>1 DEF AskOK
<1>16. ReplyOK(g, n)'
  <2>1. PICK s, u, d : s = reader[g][n] /\ u = open[g][n]
                       /\ d = disk[g][<<g, k>>].data
    OBVIOUS
  <2>2. Reply(g, n, Waiting(n, c), 0, <<>>, s, u, c, h, d)
    <3>1. PICK z : z = Len(v) + Unserved(h)
      OBVIOUS
    <3>2. Reply(g, n, Waiting(n, c), z, v, s, u, c, h, d)
      BY <1>2, <1>4, <1>6, <2>1, <3>1 DEF ReplyOK
    <3>3. z = 0
      BY <1>1, <1>2, <1>8, <3>1 DEF Unserved
    <3> QED
      BY <1>8, <3>2, <3>3
  <2>3. CASE ~x.there
    <3>1. p.pc = "idle"
      BY <1>12, <2>3 DEF NoWork
    <3>2. PICK z : z = Len(v) + Unserved(p)
      OBVIOUS
    <3>3. z = 0
      BY <1>8, <3>1, <3>2 DEF Unserved
    <3>4. Reply(g, n, Waiting(n, c), z, v, s, u, c, p, d)
      BY <1>8, <2>2, <3>1, <3>3 DEF Reply
    <3> QED
      BY <1>1, <1>2, <1>4, <1>13, <1>14, <2>1, <3>2, <3>4 DEF ReplyOK
  <2>4. CASE x.there
    <3>1. PICK t : t = Served(k, x.data)
      OBVIOUS
    <3>2. p.pc = "get" /\ p.from = g /\ p.todo = t
      BY <1>12, <2>4, <3>1 DEF NoWork
    <3>3. Len(t) = 4 /\ Carries(t, 4, ReplyTokens(k))
      BY <1>5, <1>11, <2>4, <3>1, ServedWhole
    <3>4. s = "peek" /\ ~(c.at = n /\ c.want > 0)
      BY <1>8, <2>2 DEF Reply
    <3>5. Reply(g, n, Waiting(n, c), 4, <<>>, s, u, c, p, d)
      BY <1>2, <1>8, <3>2, <3>3, <3>4, CarriesNothing DEF Reply
    <3>6. Len(v) + Unserved(p) = 4
      BY <1>8, <3>2, <3>3 DEF Unserved
    <3> QED
      BY <1>1, <1>2, <1>4, <1>8, <1>13, <1>14, <2>1, <3>5, <3>6 DEF ReplyOK
  <2> QED
    BY <2>3, <2>4
<1>17. GetMode(g)'
  <2>1. \A b \in Nodes : b # n => /\ queue'[b] = queue[b]
                                  /\ handler'[b] = handler[b]
    BY <1>14
  <2>2. \A a, b \in Nodes : (a # g \/ b # n) /\ (a # n \/ b # g) =>
          /\ wire'[a][b] = wire[a][b] /\ reader'[b][a] = reader[b][a]
          /\ open'[b][a] = open[b][a]
    BY <1>1
  <2>3. UNCHANGED <<up, broken, call>> /\ disk'[g] = disk[g]
    BY <1>1, <1>13
  <2> QED
    BY <1>1, <1>3, <1>15, <1>16, <2>1, <2>2, <2>3, OnePeer
<1>18. Net'
  BY <1>1, PeersStay DEF Net
<1>19. Copies'
  BY <1>1, <1>13, <1>14, GetCopies
<1> QED
  BY <1>17, <1>18, <1>19

LEMMA GetServes ==
  ASSUME NEW g \in Nodes, GetState(g), NEW n \in Nodes, ServePiece(n)
  PROVE Net' /\ Copies' /\ GetMode(g)'
<1>1. /\ Types /\ Net /\ Copies /\ GetMode(g) /\ Others(g)
      /\ handler[n].pc = "get"
      /\ UNCHANGED <<up, broken, down, reader, open, queue, call, disk>>
  BY DEF GetState, GetMode, ServePiece, net, links
<1>2. PICK h, t, c : h = handler[n] /\ t = h.todo /\ c = call[g]
  OBVIOUS
<1>3. n # g /\ n \in Peers(g) /\ g \in Peers(n)
  <2>1. n # g /\ n \in Peers(g)
    BY <1>1 DEF Others
  <2> QED
    BY <1>1, <2>1, PeersKnown
<1>4. AskOK(g, n) /\ ReplyOK(g, n)
  BY <1>1, <1>3 DEF GetMode
<1>5. PICK v, l, s, u, d : /\ v = wire[n][g] /\ l = Len(v) + Unserved(h)
                           /\ s = reader[g][n] /\ u = open[g][n]
                           /\ d = disk[g][<<g, c.key>>].data
  OBVIOUS
<1>6. Reply(g, n, Waiting(n, c), l, v, s, u, c, h, d)
  BY <1>2, <1>4, <1>5 DEF ReplyOK
<1>7. /\ h \in Work /\ h.from = g /\ t \in Seq(Sent) /\ t # <<>>
      /\ l \in Nat /\ v \in Seq(Sent) /\ Len(v) \in Nat /\ l = Len(v) + Len(t)
  <2>1. h \in Work /\ WorkOK(h) /\ l \in Nat /\ v \in Seq(Sent)
    BY <1>1, <1>2, <1>5, GetFields
  <2>2. h.from = g /\ h.pc = "get"
    BY <1>1, <1>2, <1>6 DEF Reply
  <2>3. t \in Seq(Sent) /\ t # <<>>
    BY <1>2, <2>1, <2>2 DEF Work, WorkOK
  <2>4. Unserved(h) = Len(t)
    BY <1>2, <2>2 DEF Unserved
  <2> QED
    BY <1>5, <2>1, <2>2, <2>3, <2>4
<1>8. PICK e : e = Head(t)
  OBVIOUS
<1>9. PICK p : /\ handler' = [handler EXCEPT ![n] = p] /\ Write(n, g, e)
               /\ \/ p.pc = "idle" /\ Tail(t) = <<>>
                  \/ p.pc = "get" /\ p.from = g /\ p.todo = Tail(t)
  <2>1. Alive(n, g)
    BY <1>1, <1>3, NoEnds
  <2>2. PICK p : p = IF Tail(t) = <<>> THEN NoWork
                     ELSE [h EXCEPT !.todo = Tail(t)]
    OBVIOUS
  <2>3. handler' = [handler EXCEPT ![n] = p] /\ Write(n, g, e)
    BY <1>2, <1>7, <1>8, <2>1, <2>2 DEF ServePiece
  <2>4. \/ p.pc = "idle" /\ Tail(t) = <<>>
        \/ p.pc = "get" /\ p.from = g /\ p.todo = Tail(t)
    BY <1>1, <1>2, <1>7, <2>2 DEF NoWork, Work
  <2> QED
    BY <2>3, <2>4
<1>10. e \in Sent
  BY <1>7, <1>8
<1>11. /\ wire'[n][g] = Append(v, e)
       /\ \A a, b \in Nodes : a # n \/ b # g => wire'[a][b] = wire[a][b]
  BY <1>1, <1>5, <1>9, <1>10, Written
<1>12. handler'[n] = p /\ \A b \in Nodes : b # n => handler'[b] = handler[b]
  BY <1>1, <1>9 DEF Types, WorkTypes
<1>13. ReplyOK(g, n)'
  <2>1. Reply(g, n, Waiting(n, c), l, Append(v, e), s, u, c, p, d)
    <3>1. h.pc = "get" /\ h.todo \in Seq(Sent) /\ h.todo # <<>>
          /\ l = Len(v) + Len(h.todo) /\ e = Head(h.todo)
      BY <1>1, <1>2, <1>7, <1>8
    <3>2. \/ p.pc = "idle"
          \/ p.pc = "get" /\ p.from = g /\ p.todo = Tail(h.todo)
      BY <1>2, <1>9
    <3> QED
      BY <1>6, <1>7, <3>1, <3>2, ReplyServes
  <2>2. Len(Append(v, e)) + Unserved(p) = l
    <3>1. Len(Append(v, e)) = Len(v) + 1
      BY <1>7, <1>10
    <3>2. Len(Tail(t)) = Len(t) - 1 /\ Len(t) \in Nat
      BY <1>7
    <3>3. Unserved(p) = Len(Tail(t))
      <4>1. CASE p.pc = "idle" /\ Tail(t) = <<>>
        <5>1. PICK y : y = Tail(t)
          OBVIOUS
        <5>2. Len(y) = 0
          BY <4>1, <5>1
        <5> QED
          BY <4>1, <5>1, <5>2 DEF Unserved
      <4>2. CASE p.pc = "get" /\ p.todo = Tail(t)
        BY <4>2 DEF Unserved
      <4> QED
        BY <1>9, <4>1, <4>2
    <3>4. PICK i, j, y, z : /\ i = Len(v) /\ j = Len(t) /\ y = Len(Append(v, e))
                            /\ z = Unserved(p)
      OBVIOUS
    <3>5. i \in Nat /\ j \in Nat /\ y = i + 1 /\ z = j - 1 /\ l = i + j
      BY <1>7, <3>1, <3>2, <3>3, <3>4
    <3>6. y + z = l
      BY <3>5
    <3> QED
      BY <3>4, <3>6
  <2> QED
    BY <1>1, <1>2, <1>5, <1>11, <1>12, <2>1, <2>2 DEF ReplyOK
<1>14. AskOK(g, n)'
  <2>1. PICK k, w : w = wire[g][n] /\ k = Len(w) + Unasked(n, c)
    OBVIOUS
  <2>2. Ask(g, c.key, Waiting(n, c), k, w, reader[n][g], v, queue[n], h)
    BY <1>2, <1>4, <1>5, <2>1 DEF AskOK
  <2>3. k \in Nat
    BY <1>1, <1>2, <2>1, GetFields
  <2>4. Ask(g, c.key, Waiting(n, c), k, w, reader[n][g], Append(v, e), queue[n],
            p)
    BY <1>1, <1>2, <2>2, <2>3 DEF Ask
  <2>5. wire'[g][n] = w
    BY <1>3, <1>11, <2>1
  <2> QED
    BY <1>1, <1>2, <1>11, <1>12, <2>1, <2>4, <2>5 DEF AskOK
<1>15. GetMode(g)'
  <2>1. \A b \in Nodes : b # n => /\ queue'[b] = queue[b]
                                  /\ handler'[b] = handler[b]
    BY <1>1, <1>12
  <2>2. \A a, b \in Nodes : (a # g \/ b # n) /\ (a # n \/ b # g) =>
          /\ wire'[a][b] = wire[a][b] /\ reader'[b][a] = reader[b][a]
          /\ open'[b][a] = open[b][a]
    BY <1>1, <1>11
  <2>3. UNCHANGED <<up, broken, call>> /\ disk'[g] = disk[g]
    BY <1>1
  <2> QED
    BY <1>1, <1>3, <1>13, <1>14, <2>1, <2>2, <2>3, OnePeer
<1>16. Net'
  BY <1>1, <1>3, <1>11, NetStays
<1>17. Copies'
  BY <1>1, <1>12, GetCopies
<1> QED
  BY <1>15, <1>16, <1>17

\* A peer that does not wait for an answer is at rest.
LEMMA PeerRests ==
  ASSUME NEW g \in Nodes, GetState(g), NEW m \in Peers(g),
         ~Waiting(m, call[g]), call[g].at # m, call[g].pc = "ask"
  PROVE /\ queue[m] = <<>> /\ handler[m].pc = "idle"
        /\ AtRest(m, g) /\ AtRest(g, m)
<1>1. /\ Types /\ AskOK(g, m) /\ ReplyOK(g, m) /\ m \in Nodes
      /\ handler[m] \in Work /\ WorkOK(handler[m])
  BY WorkFields DEF GetState, GetMode, Peers
<1>2. PICK c, h, w, v, l, k, x :
        /\ c = call[g] /\ h = handler[m] /\ w = wire[g][m] /\ v = wire[m][g]
        /\ l = Len(w) + Unasked(m, c) /\ k = Len(v) + x /\ x = Unserved(h)
  OBVIOUS
<1>3. /\ l \in Nat /\ k \in Nat /\ x \in Nat /\ w \in Seq(Sent)
      /\ v \in Seq(Sent) /\ Len(w) \in Nat /\ Len(v) \in Nat /\ Len(v) <= k
      /\ Len(w) <= l
  BY <1>1, <1>2, GetFields
<1>4. Ask(g, c.key, Waiting(m, c), l, w, reader[m][g], v, queue[m], h)
  BY <1>1, <1>2 DEF AskOK
<1>5. Reply(g, m, Waiting(m, c), k, v, reader[g][m], open[g][m], c, h,
            disk[g][<<g, c.key>>].data)
  BY <1>1, <1>2 DEF ReplyOK
<1>6. l = 0 /\ queue[m] = <<>> /\ reader[m][g] = "peek"
  BY <1>2, <1>3, <1>4 DEF Ask
<1>7. k = 0 /\ Resting(reader[g][m], open[g][m]) /\ h.pc # "store"
  <2>1. k # 1 /\ k # 2 /\ k # 3 /\ k # 4 /\ k <= 4
    BY <1>2, <1>5 DEF Reply
  <2>2. k = 0
    BY <1>3, <2>1
  <2> QED
    BY <1>2, <1>5, <2>2 DEF Reply
<1>8. w = <<>> /\ v = <<>> /\ x = 0
  <2>1. Len(w) = 0 /\ Len(v) = 0
    BY <1>3, <1>6, <1>7
  <2>2. x = 0
    BY <1>2, <1>3, <1>7, <2>1
  <2> QED
    BY <1>3, <2>1, <2>2, EmptySeq
<1>9. h.pc = "idle"
  <2>1. ASSUME h.pc = "get" PROVE FALSE
    <3>1. PICK t : t = h.todo
      OBVIOUS
    <3>2. t \in Seq(Sent) /\ t # <<>>
      BY <1>1, <1>2, <2>1, <3>1 DEF Work, WorkOK
    <3>3. Len(t) # 0
      BY <3>2, EmptySeq
    <3>4. x = Len(t)
      BY <1>2, <2>1, <3>1 DEF Unserved
    <3> QED
      BY <1>8, <3>3, <3>4
  <2> QED
    BY <1>1, <1>2, <1>7, <2>1 DEF Work
<1> QED
  BY <1>2, <1>6, <1>7, <1>8, <1>9 DEF AtRest, Resting

\* Get has asked every peer: nothing is left on its way.
LEMMA GetFinishes ==
  ASSUME NEW g \in Nodes, GetState(g), NEW n \in Nodes, GetEnds(n)
  PROVE Net' /\ Copies' /\ AllAtRest'
<1>1. /\ Types /\ Net /\ Copies /\ GetMode(g) /\ Others(g)
      /\ UNCHANGED <<up, broken, down, wire, reader, open, queue, handler,
                     disk>>
  BY DEF GetState, GetMode, GetEnds, net, links
<1>2. /\ n = g /\ call[g].pc = "ask" /\ call[g].to = {} /\ call[g].at = None
      /\ call[g].want = 0 /\ None \notin Nodes
  <2>1. call[n].pc = "ask" /\ call[n].to = {} /\ call[n].at = None
    BY DEF GetEnds, Asked
  <2>2. n = g /\ GetCall(Peers(g), call[g])
    BY <2>1, GetOwner
  <2> QED
    BY <2>1, <2>2, NoneIsNothing DEF GetCall
<1>3. /\ call'[g].pc = "idle" /\ call'[g].kind = "store"
      /\ \A b \in Nodes : b # g => call'[b] = call[b]
  BY <1>1, <1>2 DEF GetEnds, Types, CallTypes, NoCall
<1>4. ASSUME NEW m \in Peers(g)
      PROVE /\ m \in Nodes /\ queue[m] = <<>> /\ handler[m].pc = "idle"
            /\ AtRest(m, g) /\ AtRest(g, m)
  <2>1. m \in Nodes
    BY DEF Peers
  <2>2. ~Waiting(m, call[g]) /\ call[g].at # m
    BY <1>2, <2>1 DEF Waiting
  <2> QED
    BY <1>2, <2>1, <2>2, PeerRests
<1>5. ASSUME NEW b \in Nodes, NEW m \in Nodes PROVE AtRest(m, b)
  <2>1. CASE m \notin Peers(b)
    BY <1>1, <2>1, PeersKnown DEF Net, AtRest, Resting
  <2>2. CASE m \in Peers(b)
    <3>1. CASE b = g
      BY <1>4, <2>2, <3>1
    <3>2. CASE m = g
      BY <1>1, <1>4, <2>2, <3>2, PeersKnown
    <3>3. CASE b # g /\ m # g
      BY <1>1, <2>2, <3>3 DEF Others
    <3> QED
      BY <3>1, <3>2, <3>3
  <2> QED
    BY <2>1, <2>2
<1>6. ASSUME NEW b \in Nodes
      PROVE /\ call'[b].pc = "idle" /\ call'[b].kind = "store"
            /\ queue[b] = <<>> /\ handler[b].pc = "idle"
  <2>1. CASE b = g
    BY <1>1, <1>3, <2>1 DEF Others
  <2>2. CASE b # g
    <3>1. call'[b].pc = "idle" /\ call'[b].kind = "store"
      BY <1>1, <1>3, <2>2 DEF Others
    <3>2. queue[b] = <<>> /\ handler[b].pc = "idle"
      BY <1>1, <1>4, <2>2 DEF Others
    <3> QED
      BY <3>1, <3>2
  <2> QED
    BY <2>1, <2>2
<1>7. AllAtRest'
  <2>1. \A b, m \in Nodes : AtRest(m, b)'
    BY <1>1, <1>5 DEF AtRest
  <2> QED
    BY <1>1, <1>6, <2>1 DEF AllAtRest
<1>8. Net'
  BY <1>1, PeersStay DEF Net
<1>9. Copies'
  <2>1. \A b \in Nodes, f \in Files : Writing(b, f) => Writing(b, f)'
    BY <1>1, <1>2, <1>3 DEF Writing
  <2> QED
    BY <1>1, <2>1, CopiesStay
<1> QED
  BY <1>7, <1>8, <1>9

\* Nothing is stored and no call begins meanwhile, and no connection ends.
LEMMA GetDoesNot ==
  ASSUME NEW g \in Nodes, GetState(g), Timely, NEW n \in Nodes
  PROVE /\ ~SendFile(n) /\ ~StreamPiece(n) /\ ~StoreData(n)
        /\ \A m \in Nodes : ~EndRead(n, m)
        /\ \A k \in Keys : ~StoreStarts(n, k) /\ ~GetStarts(n, k)
<1>1. /\ Types /\ Net /\ GetMode(g) /\ Others(g)
      /\ call[g].kind = "get" /\ call[g].pc \in {"tell", "ask"}
  BY DEF GetState, GetMode, GetCall
<1>2. ~Quiet /\ ~Storing
  BY <1>1 DEF Quiet, Storing
<1>3. ~SendFile(n) /\ ~StreamPiece(n)
  BY <1>1 DEF Others, SendFile, StreamPiece, Told
<1>4. handler[n].pc # "store"
  <2>1. CASE n \in Peers(g)
    BY <1>1, <2>1 DEF GetMode, ReplyOK, Reply
  <2>2. CASE n \notin Peers(g)
    BY <1>1, <2>2 DEF Others
  <2> QED
    BY <2>1, <2>2
<1>5. ASSUME NEW m \in Nodes, EndRead(n, m) PROVE FALSE
  <2>1. reader[n][m] # "none" /\ Ended(n, m)
    BY <1>5 DEF EndRead
  <2>2. m \in Peers(n)
    BY <1>1, <2>1, PeersKnown
  <2> QED
    BY <1>1, <2>1, <2>2, NoEnds
<1> QED
  BY <1>2, <1>3, <1>4, <1>5
  DEF StoreData, StoreStarts, GetStarts, InTime, Timely, Undisturbed

\* Two other nodes connect.  If g were one of them, its call would meet the new
\* connection or not.
LEMMA GetConnect ==
  ASSUME NEW g \in Nodes, GetState(g), NEW n \in Nodes, NEW m \in Nodes,
         Connect(n, m), Timely
  PROVE Net' /\ Copies' /\ GetMode(g)'
<1>1. /\ Types /\ Net /\ Copies /\ GetMode(g) /\ Others(g)
      /\ GetCall(Peers(g), call[g])
      /\ {n, m} \in Links \ (up \cup broken)
      /\ up' = up \cup {{n, m}}
      /\ reader' = [reader EXCEPT ![n][m] = "peek", ![m][n] = "peek"]
      /\ UNCHANGED <<broken, wire, open, queue, handler, disk>>
  BY DEF GetState, GetMode, Connect
<1>2. /\ UNCHANGED <<call, down>>
      /\ g # n /\ g # m
  <2> DEFINE walking == {x \in {n, m} : call[x].pc \in {"tell", "ask"}}
  <2>1. PICK met \in SUBSET walking, fallen \in SUBSET {n, m} :
          /\ call' = [x \in Nodes |-> IF x \notin met THEN call[x]
               ELSE [call[x] EXCEPT !.to = @ \cup ({n, m} \ {x})]]
          /\ down' = down \cup fallen
          /\ InTime(walking = {} /\ fallen = {})
    BY DEF Connect
  <2>2. walking = {} /\ fallen = {}
    BY <2>1 DEF InTime, Timely, Undisturbed
  <2>3. met = {}
    BY <2>2
  <2>4. call' = [x \in Nodes |-> call[x]] /\ down' = down
    BY <2>1, <2>2, <2>3
  <2>5. call[g].pc \in {"tell", "ask"}
    BY <1>1 DEF GetCall
  <2> QED
    BY <1>1, <2>2, <2>4, <2>5 DEF Types, CallTypes
<1>3. \A a, b \in Nodes :
        reader'[a][b] = IF {a, b} = {n, m} THEN "peek" ELSE reader[a][b]
  <2>1. reader \in [Nodes -> [Nodes -> Reading]] /\ n # m
    BY <1>1, LinkEnds DEF Types, ReaderTypes
  <2>2. \A a, b \in Nodes :
          {a, b} = {n, m} <=> (a = n /\ b = m) \/ (a = m /\ b = n)
    BY <2>1
  <2>3. \A a, b \in Nodes :
          reader'[a][b] = IF (a = n /\ b = m) \/ (a = m /\ b = n)
                          THEN "peek" ELSE reader[a][b]
    BY <1>1, <2>1
  <2> QED
    BY <2>2, <2>3
<1>4. ASSUME NEW a \in Nodes, NEW b \in Nodes
      PROVE /\ b \in Peers(a)' <=> b \in Peers(a) \/ {a, b} = {n, m}
            /\ b \in Peers(a) => {a, b} # {n, m}
  BY <1>1 DEF Peers
<1>5. /\ \A a \in Nodes : Peers(a) \subseteq Peers(a)'
      /\ Peers(g)' = Peers(g)
  <2>1. \A a \in Nodes : Peers(a) \subseteq Peers(a)'
    BY <1>1 DEF Peers
  <2>2. \A b \in Nodes : {g, b} # {n, m}
    BY <1>2
  <2>3. Peers(g)' \subseteq Nodes
    BY DEF Peers
  <2> QED
    BY <1>4, <2>1, <2>2, <2>3
<1>6. ASSUME NEW b \in Peers(g) PROVE AskOK(g, b)' /\ ReplyOK(g, b)'
  <2>1. b \in Nodes /\ {g, b} # {n, m} /\ {b, g} # {n, m}
    BY <1>2 DEF Peers
  <2>2. reader'[b][g] = reader[b][g] /\ reader'[g][b] = reader[g][b]
    BY <1>3, <2>1
  <2>3. AskOK(g, b) /\ ReplyOK(g, b)
    BY <1>1 DEF GetMode
  <2> QED
    BY <1>1, <1>2, <2>1, <2>2, <2>3, PeerStays
<1>7. ASSUME NEW a \in Nodes \ {g}, NEW b \in Peers(a)' \ {g}
      PROVE AtRest(b, a)'
  <2>1. b \in Nodes
    BY DEF Peers
  <2>2. CASE b \in Peers(a)
    <3>1. AtRest(b, a) /\ {a, b} # {n, m}
      BY <1>1, <1>4, <1>7, <2>1, <2>2 DEF Others
    <3>2. reader'[a][b] = reader[a][b] /\ a \in Nodes
      BY <1>3, <2>1, <3>1
    <3>3. wire'[b][a] = wire[b][a] /\ open'[a][b] = open[a][b]
      BY <1>1
    <3> QED
      BY <3>1, <3>2, <3>3 DEF AtRest
  <2>3. CASE b \notin Peers(a)
    <3>1. reader'[a][b] = "peek"
      BY <1>3, <1>4, <2>1, <2>3
    <3>2. wire[b][a] = <<>>
      BY <1>1, <2>1, <2>3 DEF Net
    <3> QED
      BY <1>1, <3>1, <3>2 DEF AtRest, Resting
  <2> QED
    BY <2>2, <2>3
<1>8. Others(g)'
  BY <1>1, <1>2, <1>5, <1>7 DEF Others
<1>9. Net'
  BY <1>1, <1>2, <1>5 DEF Net
<1>10. Copies'
  BY <1>1, <1>2, CopiesStay DEF Writing
<1> QED
  BY <1>1, <1>2, <1>5, <1>6, <1>8, <1>9, <1>10 DEF GetMode

\* Another node loses a file of its own.
LEMMA GetLosesFile ==
  ASSUME NEW g \in Nodes, GetState(g), NEW n \in Nodes, NEW k \in Keys,
         FileLost(n, k)
  PROVE Net' /\ Copies' /\ GetMode(g)'
<1>1. /\ Types /\ Net /\ Copies /\ GetMode(g) /\ Others(g)
      /\ disk' = [disk EXCEPT ![n][<<n, k>>] = Absent]
      /\ UNCHANGED <<up, broken, down, wire, reader, open, queue, handler,
                     call>>
      /\ n # g /\ <<n, k>> \in Files
  BY DEF GetState, GetMode, GetCall, FileLost, net, links, Files
<1>2. /\ \A b \in Nodes, f \in Files :
           b # n \/ f # <<n, k>> => disk'[b][f] = disk[b][f]
      /\ disk'[g] = disk[g]
      /\ ~disk'[n][<<n, k>>].there
  BY <1>1 DEF Types, DiskTypes, Absent
<1>3. GetMode(g)'
  <2>1. Others(g)'
    BY <1>1, OthersStay
  <2>2. ASSUME NEW b \in Peers(g) PROVE AskOK(g, b)' /\ ReplyOK(g, b)'
    BY <1>1, <1>2, PeerStays DEF GetMode, Peers
  <2> QED
    BY <1>1, <2>1, <2>2, PeersStay DEF GetMode
<1>4. Net'
  BY <1>1, PeersStay DEF Net
<1>5. Copies'
  <2> SUFFICES ASSUME NEW b \in Nodes, NEW f \in Files PROVE CopyWhole(b, f)'
    BY DEF Copies
  <2>1. CASE b = n /\ f = <<n, k>>
    BY <1>2, <2>1 DEF CopyWhole
  <2>2. CASE b # n \/ f # <<n, k>>
    <3>1. CopyWhole(b, f) /\ disk'[b][f] = disk[b][f]
      BY <1>1, <1>2, <2>2 DEF Copies
    <3>2. Writing(b, f) => Writing(b, f)'
      BY <1>1 DEF Writing
    <3> QED
      BY <3>1, <3>2 DEF CopyWhole
  <2> QED
    BY <2>1, <2>2
<1> QED
  BY <1>3, <1>4, <1>5

LEMMA GetStep ==
  ASSUME NEW g \in Nodes, GetState(g), Timely, Next
  PROVE WholeStates'
<1>1. ASSUME NEW n \in Nodes, NEW m \in Nodes,
             \/ Peek(n, m) \/ Body(n, m) \/ Park(n, m) \/ Resume(n, m)
             \/ Tell(n, m) \/ ReadSize(n, m) \/ ReadData(n, m) \/ Choose(n, m)
      PROVE WholeStates'
  BY <1>1, GetPeeks, GetBodies, GetWaits, GetTells, GetAsks, GetReadsSize,
     GetReadsData
  DEF WholeStates
<1>2. ASSUME NEW n \in Nodes, AskPeers(n) \/ Dispatch(n) \/ ServePiece(n)
      PROVE WholeStates'
  BY <1>2, GetAsks, GetTakes, GetServes DEF WholeStates
<1>3. ASSUME NEW n \in Nodes, GetEnds(n) PROVE WholeStates'
  BY <1>3, GetFinishes, RestIsWhole
<1>4. ASSUME NEW n \in Nodes, NEW m \in Nodes PROVE ~Break(n, m)
  BY DEF Break, Timely, Undisturbed
<1>5. ASSUME NEW n \in Nodes, NEW m \in Nodes, Connect(n, m)
      PROVE WholeStates'
  BY <1>5, GetConnect DEF WholeStates
<1>6. ASSUME NEW n \in Nodes, NEW k \in Keys, FileLost(n, k)
      PROVE WholeStates'
  BY <1>6, GetLosesFile DEF WholeStates
<1> QED
  BY <1>1, <1>2, <1>3, <1>4, <1>5, <1>6, Steps, GetDoesNot

-----------------------------------------------------------------------------
(* The invariant.                                                           *)

LEMMA WholeInit == Init => WholeInv
<1> SUFFICES ASSUME Init PROVE Net /\ Copies /\ AllAtRest
  BY RestStores DEF WholeInv
<1>1. Net
  BY DEF Init, Net
<1>2. AllAtRest
  BY DEF Init, AllAtRest, AtRest, Resting, NoCall, NoWork
<1>3. Copies
  BY DEF Init, Copies, CopyWhole, Absent
<1> QED
  BY <1>1, <1>2, <1>3

\* Nothing changes.
LEMMA WholeStays ==
  ASSUME WholeInv, UNCHANGED vars PROVE WholeInv'
<1>1. UNCHANGED <<up, broken, down, wire, reader, open, queue, handler, call,
                  disk, drops, hurries>>
  BY DEF vars, net, links
<1>2. Net => Net'
  BY <1>1, PeersStay DEF Net
<1>3. Copies => Copies'
  BY <1>1, CopiesStay DEF Writing
<1>4. StoreMode => StoreMode'
  <2>1. StoreMode => Flows'
    BY <1>1, PeersStay DEF StoreMode, Flows, FlowOK, Peers
  <2> QED
    BY <1>1, <2>1, CallsStay, LoopsStay DEF StoreMode
<1>5. ASSUME NEW g \in Nodes, GetMode(g) PROVE GetMode(g)'
  <2>1. Others(g)'
    BY <1>1, <1>5, PeersStay DEF GetMode, Others, AtRest
  <2>2. ASSUME NEW m \in Peers(g) PROVE AskOK(g, m)' /\ ReplyOK(g, m)'
    BY <1>1, <1>5, <2>2, PeerStays DEF GetMode, Peers
  <2> QED
    BY <1>1, <1>5, <2>1, <2>2, PeersStay DEF GetMode
<1> QED
  BY <1>1, <1>2, <1>3, <1>4, <1>5 DEF WholeInv, Undisturbed

LEMMA WholeStep ==
  ASSUME Types, Hurries, WholeInv, [Next]_vars PROVE WholeInv'
<1>1. CASE UNCHANGED vars
  BY <1>1, WholeStays
<1>2. CASE Next /\ Undisturbed'
  <2>1. Timely
    <3>1. drops \in Nat /\ hurries \in Nat
      BY BoundsAreNumbers DEF Types, NetTypes, Hurries
    <3> QED
      BY <1>2, <3>1, StepsCount DEF MayCount, Timely, Undisturbed
  <2>2. CASE StoreMode
    <3>1. StoreState
      BY <2>1, <2>2 DEF StoreState, WholeInv, Timely
    <3> QED
      BY <1>2, <2>1, <3>1, StoreStep DEF WholeStates, WholeInv
  <2>3. CASE \E g \in Nodes : GetMode(g)
    <3>1. PICK g \in Nodes : GetState(g)
      BY <2>1, <2>3 DEF GetState, WholeInv, Timely
    <3> QED
      BY <1>2, <2>1, <3>1, GetStep DEF WholeStates, WholeInv
  <2> QED
    BY <2>1, <2>2, <2>3 DEF WholeInv, Timely
<1>3. CASE ~Undisturbed'
  BY <1>3 DEF WholeInv
<1> QED
  BY <1>1, <1>2, <1>3

\* While connections last and every step finds the network ready for it, every
\* copy of a file that nobody writes to is the whole file: a Store leaves no
\* half of a replica with a peer, whoever else stores or connects meanwhile,
\* and what a node lost Get brings back.
THEOREM CopiesAreAlwaysWhole == Spec => []CopiesAreWhole
<1>1. Init => WholeInv
  BY WholeInit
<1>2. Types /\ Hurries /\ WholeInv /\ [Next]_vars => WholeInv'
  BY WholeStep
<1>3. WholeInv => CopiesAreWhole
  BY DEF WholeInv, CopiesAreWhole, Copies, CopyWhole
<1> QED
  BY <1>1, <1>2, <1>3, TypesAlways, HurriesCounted, PTL DEF Spec

=============================================================================
