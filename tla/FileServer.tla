------------------------------ MODULE FileServer ------------------------------
(***************************************************************************)
(* The peer-to-peer file server (distributed_filesys/server.go) over its   *)
(* TCP transport (peer2peer): Store and Get, the handlers of the two       *)
(* messages, and the goroutine that reads each connection.                 *)
(*                                                                         *)
(* A connection carries bytes without frames.  A marker byte says whether  *)
(* a message or a stream follows; the reader takes a message, but at a     *)
(* stream marker it waits on a WaitGroup until the handler, or Get, which  *)
(* read the stream from the same connection, call CloseStream.             *)
(*                                                                         *)
(* A wire is a sequence of pieces: what one Write call sends.  Encryption  *)
(* is left out but for the extra piece, the IV, that comes before the      *)
(* data.  A file is kept under the id of the node that stored it: the      *)
(* node's own copy in the clear, the replicas of its peers as received.    *)
(***************************************************************************)
EXTENDS Naturals, Sequences, FiniteSets, SequencesExt

CONSTANTS
  Nodes, Keys, None,
  Links,    \* the pairs of nodes that may connect, each pair once
  MaxCalls, \* bound: Store and Get calls
  MaxDrops, \* bound: connections that break
  MaxHurries, \* bound: steps the network was not ready for
  MaxFaults \* bound: both of these together

ASSUME NoneIsNothing == None \notin Nodes
ASSUME BoundsAreNumbers ==
  /\ MaxCalls \in Nat /\ MaxDrops \in Nat
  /\ MaxHurries \in Nat /\ MaxFaults \in Nat
ASSUME LinksArePairs == \A l \in Links : l \subseteq Nodes /\ Cardinality(l) = 2

VARIABLES
  up, broken, \* the connections; a broken one stays in the map of peers
  down,       \* the nodes whose process has panicked
  wire,       \* wire[n][m]: what n has written to m and m has not read
  reader,     \* reader[n][m]: the goroutine of n that reads from m
  open,       \* open[n][m]: the WaitGroup of n's connection to m
  queue,      \* rpcch of each node
  handler,    \* what the loop of each node is doing
  call,       \* the Store or Get in progress on each node
  disk,       \* disk[n][<<o, k>>]: n's copy of the file k of o
  calls, drops,
  hurries     \* history: the steps the network was not ready for

links == <<up, broken, drops>>
net == <<links, down, hurries>>
vars == <<net, wire, reader, open, queue, handler, call, disk, calls>>

Files == Nodes \X Keys
Conns == {c \in Nodes \X Nodes : {c[1], c[2]} \in Links}

Piece(is, k, n) == [is |-> is, key |-> k, size |-> n]
MessageMark == [is |-> "message", key |-> None, size |-> 0]
StreamMark == [is |-> "stream", key |-> None, size |-> 0]
Encrypted(k) == <<Piece("iv", k, 0), Piece("data", k, 0)>>
Absent == [there |-> FALSE, data |-> <<>>]
File(data) == [there |-> TRUE, data |-> data]

Pieces == [is : {"message", "stream", "store", "get", "size", "iv", "data"},
           key : Keys \cup {None}, size : Nat]

\* pc: tell (broadcast), stream (Store sends the file), ask (Get reads the
\* answers), lost (Get took something else for a size and reads on for ever).
\* to: the peers still to be served; at: the one being served.
NoCall == [pc |-> "idle", kind |-> "store", key |-> None, to |-> {},
           at |-> None, todo |-> <<>>, want |-> 0]
\* want: the pieces a LimitReader still lets through.
NoWork == [pc |-> "idle", from |-> None, key |-> None, todo |-> <<>>,
           want |-> 0]

TypeOK ==
  /\ up \subseteq Links /\ broken \subseteq Links /\ down \subseteq Nodes
  /\ wire \in [Nodes -> [Nodes -> Seq(Pieces)]]
  /\ reader \in [Nodes -> [Nodes ->
       {"none", "peek", "body", "marked", "parked", "garbled", "gone"}]]
  /\ open \in [Nodes -> [Nodes -> 0..1]]
  /\ \A n \in Nodes :
       /\ \A i \in DOMAIN queue[n] : queue[n][i] \in
            [from : Nodes, is : {"store", "get"}, key : Keys, size : Nat]
       /\ handler[n].pc \in {"idle", "store", "get"}
       /\ call[n].pc \in {"idle", "tell", "stream", "ask", "lost"}
       /\ \A f \in Files : disk[n][f].data \in Seq(Pieces)
  /\ calls \in 0..MaxCalls
  /\ drops \in 0..MaxDrops
  /\ hurries \in 0..MaxHurries

Init ==
  /\ up = {} /\ broken = {} /\ down = {}
  /\ wire = [n \in Nodes |-> [m \in Nodes |-> <<>>]]
  /\ reader = [n \in Nodes |-> [m \in Nodes |-> "none"]]
  /\ open = [n \in Nodes |-> [m \in Nodes |-> 0]]
  /\ queue = [n \in Nodes |-> <<>>]
  /\ handler = [n \in Nodes |-> NoWork]
  /\ call = [n \in Nodes |-> NoCall]
  /\ disk = [n \in Nodes |-> [f \in Files |-> Absent]]
  /\ calls = 0
  /\ drops = 0
  /\ hurries = 0

-----------------------------------------------------------------------------
\* s.peers: nothing is ever removed from it.
Peers(n) == {m \in Nodes : {n, m} \in up \cup broken}
Alive(n, m) == {n, m} \in up /\ {n, m} \cap down = {}
Write(n, m, piece) == wire' = [wire EXCEPT ![n][m] = Append(@, piece)]
\* n reads the first piece of what m has sent.
Next1(n, m) == Head(wire[m][n])
Arrived(n, m) == wire[m][n] # <<>>
Drain(n, m, k) == wire' = [wire EXCEPT ![m][n] = SubSeq(@, k + 1, Len(@))]
\* Read returns io.EOF, or an error once the reader has closed its end.
Ended(n, m) == ~Alive(n, m) /\ wire[m][n] = <<>>
Closed(n, m) == reader[n][m] = "gone"
\* Mutant: a counter that does not panic.
CloseStreamCounter(n, m) ==
  open' = [open EXCEPT ![n][m] = @ - 1] /\ UNCHANGED down

\* CloseStream: wg.Done() panics if the counter is zero.
CloseStream(n, m) ==
  \/ open[n][m] > 0 /\ open' = [open EXCEPT ![n][m] = 0] /\ UNCHANGED down
  \/ open[n][m] = 0 /\ down' = down \cup {n} /\ UNCHANGED open
KeepStream == UNCHANGED <<open, down>>

\* Nothing in the code waits for the others but two sleeps (5 and 300 ms): a
\* step may come before they are ready for it.  Such steps are counted.
InTime(ready) ==
  IF ready THEN UNCHANGED hurries
  ELSE /\ hurries < MaxHurries /\ drops + hurries < MaxFaults
       /\ hurries' = hurries + 1

\* A handler, or Get, reads from the connection: the reader should have found
\* the marker, and wait.
Turn(n, m) == InTime(reader[n][m] = "parked")

\* A Store is expected to meet other Stores only, a Get nothing at all.
Quiet == /\ \A n \in Nodes : call[n].pc = "idle" /\ handler[n].pc = "idle"
         /\ \A n \in Nodes : queue[n] = <<>>
         /\ \A n, m \in Nodes : wire[n][m] = <<>>
         /\ \A n, m \in Nodes : reader[n][m] \in {"none", "peek"}
Storing == \A n \in Nodes : call[n].kind = "store" /\ handler[n].pc # "get"

-----------------------------------------------------------------------------
(* The transport.                                                          *)

\* OnPeer at both ends, one with the other: the peers are known and their
\* readers start.  It takes a lock that nobody else takes.  A call that ranges
\* over the peers at one end may meet the new one or not; and if it, or the
\* loop, looks into the map at that moment, Go may end the process.
Connect(n, m) ==
  LET ends == {n, m}
      walking == {x \in ends : call[x].pc \in {"tell", "ask"}}
      looking == {x \in ends : \/ x \in walking /\ call[x].at = None
                               \/ queue[x] # <<>> /\ handler[x].pc = "idle"}
  IN /\ ends \in Links \ (up \cup broken) /\ ends \cap down = {}
     /\ up' = up \cup {ends}
     /\ reader' = [reader EXCEPT ![n][m] = "peek", ![m][n] = "peek"]
     /\ \E met \in SUBSET walking, fallen \in SUBSET looking :
          /\ call' = [x \in Nodes |-> IF x \notin met THEN call[x]
               ELSE [call[x] EXCEPT !.to = @ \cup (ends \ {x})]]
          /\ down' = down \cup fallen
          /\ InTime(walking = {} /\ fallen = {})
     /\ UNCHANGED <<broken, drops, wire, open, queue, handler, disk, calls>>

\* What was sent may be lost from some point on; the readers see the end.
Break(n, m) ==
  /\ drops < MaxDrops /\ drops + hurries < MaxFaults
  /\ drops' = drops + 1
  /\ {n, m} \in up
  /\ up' = up \ {{n, m}} /\ broken' = broken \cup {{n, m}}
  /\ \E i \in 0..Len(wire[n][m]), j \in 0..Len(wire[m][n]) :
       wire' = [wire EXCEPT ![n][m] = SubSeq(@, 1, i),
                            ![m][n] = SubSeq(@, 1, j)]
  /\ UNCHANGED <<down, hurries>>
  /\ UNCHANGED <<reader, open, queue, handler, call, disk, calls>>

\* The reader sees the end and closes the connection.
EndRead(n, m) ==
  /\ reader[n][m] \in {"peek", "body"} /\ Ended(n, m)
  /\ reader' = [reader EXCEPT ![n][m] = "gone"]
  /\ UNCHANGED <<net, wire, open, queue, handler, call, disk, calls>>

\* Decode peeks at one byte.  Anything but a marker is out of step; what the
\* reader makes of it is not followed.
Peek(n, m) ==
  /\ reader[n][m] = "peek" /\ Arrived(n, m)
  /\ reader' = [reader EXCEPT ![n][m] =
       CASE Next1(n, m) = StreamMark -> "marked"
         [] Next1(n, m) = MessageMark -> "body"
         [] OTHER -> "garbled"]
  /\ Drain(n, m, 1)
  /\ UNCHANGED <<net, open, queue, handler, call, disk, calls>>

\* One Read of up to 8 KB: a message, and whatever has arrived behind it.
\* The decoder of the loop ignores the rest.
Body(n, m) ==
  LET piece == Next1(n, m)
  IN /\ reader[n][m] = "body" /\ Arrived(n, m)
     /\ reader' = [reader EXCEPT ![n][m] = "peek"]
     /\ queue' = IF piece.is \notin {"store", "get"} THEN queue
                 ELSE [queue EXCEPT ![n] = Append(@,
                   [from |-> m, is |-> piece.is, key |-> piece.key,
                    size |-> piece.size])]
     /\ \E k \in 1..Len(wire[m][n]) : Drain(n, m, k)
     /\ UNCHANGED <<net, open, handler, call, disk, calls>>

\* wg.Add(1), and wg.Wait().
Park(n, m) ==
  /\ reader[n][m] = "marked"
  /\ reader' = [reader EXCEPT ![n][m] = "parked"]
  /\ open' = [open EXCEPT ![n][m] = @ + 1]
  /\ UNCHANGED <<net, wire, queue, handler, call, disk, calls>>

Resume(n, m) ==
  /\ reader[n][m] = "parked" /\ open[n][m] = 0
  /\ reader' = [reader EXCEPT ![n][m] = "peek"]
  /\ UNCHANGED <<net, wire, open, queue, handler, call, disk, calls>>

-----------------------------------------------------------------------------
(* Store.                                                                  *)

Begin(n, kind, k) ==
  /\ call[n].pc = "idle"
  /\ calls < MaxCalls /\ calls' = calls + 1
  /\ call' = [call EXCEPT ![n] =
       [NoCall EXCEPT !.pc = "tell", !.kind = kind, !.key = k,
                      !.to = Peers(n)]]

\* The local copy is written, then the broadcast begins.
StoreStarts(n, k) ==
  /\ InTime(Storing)
  /\ Begin(n, "store", k)
  /\ disk' = [disk EXCEPT ![n][<<n, k>>] = File(Encrypted(k))]
  /\ UNCHANGED <<links, down, wire, reader, open, queue, handler>>

\* broadcast: two writes for each peer.  A peer that is gone ends the call
\* with an error, although others may have been told.
Tell(n, m) ==
  /\ call[n].pc = "tell" /\ m \in call[n].to
  /\ IF ~Alive(n, m)
     THEN call' = [call EXCEPT ![n] = NoCall] /\ UNCHANGED wire
     ELSE \/ /\ call[n].at = None
             /\ call' = [call EXCEPT ![n].at = m]
             /\ Write(n, m, MessageMark)
          \/ /\ call[n].at = m
             /\ call' = [call EXCEPT ![n].at = None, ![n].to = @ \ {m}]
             /\ Write(n, m, Piece(call[n].kind, call[n].key,
                                  Len(Encrypted(call[n].key))))
  /\ UNCHANGED <<net, reader, open, queue, handler, disk, calls>>

Told(n, kind) == /\ call[n].pc = "tell" /\ call[n].kind = kind
                 /\ call[n].to = {}

\* Mutant: the stream is sent without its marker.
SendFileBare(n) ==
  /\ Told(n, "store")
  /\ InTime(\A m \in Peers(n) : wire[n][m] = <<>>)
  /\ call' = [call EXCEPT ![n] =
       IF Peers(n) = {} THEN NoCall
       ELSE [@ EXCEPT !.pc = "stream", !.to = Peers(n),
                      !.todo = Encrypted(call[n].key)]]
  /\ UNCHANGED <<links, down, wire, reader, open, queue, handler, disk, calls>>

\* After 5 ms, by when the messages should have been read: the stream, for
\* the peers of this moment.
SendFile(n) ==
  /\ Told(n, "store")
  /\ InTime(\A m \in Peers(n) : wire[n][m] = <<>>)
  /\ call' = [call EXCEPT ![n] =
       IF Peers(n) = {} THEN NoCall
       ELSE [@ EXCEPT !.pc = "stream", !.to = Peers(n),
                      !.todo = <<StreamMark>> \o Encrypted(call[n].key)]]
  /\ UNCHANGED <<links, down, wire, reader, open, queue, handler, disk, calls>>

\* One write of the MultiWriter.  It stops at the first peer that is gone.
StreamPiece(n) ==
  LET piece == Head(call[n].todo)
      rest == Tail(call[n].todo)
      alive == {m \in call[n].to : Alive(n, m)}
      To(peers) == wire' = [wire EXCEPT ![n] =
        [m \in Nodes |-> IF m \in peers THEN Append(@[m], piece) ELSE @[m]]]
  IN /\ call[n].pc = "stream"
     /\ \/ /\ alive = call[n].to
           /\ To(alive)
           /\ call' = [call EXCEPT ![n] =
                IF rest = <<>> THEN NoCall ELSE [@ EXCEPT !.todo = rest]]
        \/ /\ alive # call[n].to
           /\ \E peers \in SUBSET alive : To(peers)
           /\ call' = [call EXCEPT ![n] = NoCall]
     /\ UNCHANGED <<net, reader, open, queue, handler, disk, calls>>

-----------------------------------------------------------------------------
(* Get.                                                                    *)

\* A key that is on the own disk is read from there, which is not followed.
GetStarts(n, k) ==
  /\ InTime(Quiet)
  /\ ~disk[n][<<n, k>>].there
  /\ Begin(n, "get", k)
  /\ UNCHANGED <<links, down, wire, reader, open, queue, handler, disk>>

\* After 300 ms: the peers of this moment, one after the other.
AskPeers(n) ==
  /\ Told(n, "get")
  /\ call' = [call EXCEPT ![n].pc = "ask", ![n].to = Peers(n)]
  /\ UNCHANGED <<net, wire, reader, open, queue, handler, disk, calls>>

\* binary.Read waits for a size; a peer that is gone is skipped.
Choose(n, m) ==
  /\ call[n].pc = "ask" /\ call[n].at = None /\ m \in call[n].to
  /\ call' = [call EXCEPT ![n].at = m, ![n].to = @ \ {m}]
  /\ UNCHANGED <<net, wire, reader, open, queue, handler, disk, calls>>

Asking(n, m) == call[n].pc = "ask" /\ call[n].at = m /\ m # None

\* The size arrives, and WriteDecrypt creates the file.
ReadSize(n, m) ==
  LET f == <<n, call[n].key>>
  IN /\ Asking(n, m) /\ call[n].want = 0
     /\ \/ /\ Arrived(n, m) /\ Turn(n, m)
           /\ Drain(n, m, 1)
           /\ \/ /\ Next1(n, m).is = "size"
                 /\ disk' = [disk EXCEPT ![n][f] = File(<<>>)]
                 /\ call' = [call EXCEPT
                      ![n] = IF Next1(n, m).size = 0 THEN NoCall
                             ELSE [@ EXCEPT !.want = Next1(n, m).size]]
              \/ /\ Next1(n, m).is # "size"
                 /\ call' = [call EXCEPT ![n].pc = "lost"]
                 /\ UNCHANGED disk
        \/ /\ Ended(n, m)
           /\ call' = [call EXCEPT ![n].at = None]
           /\ UNCHANGED <<wire, disk, hurries>>
     /\ UNCHANGED <<links, down, reader, open, queue, handler, calls>>

\* Mutant: the stream is closed only when it is read to its end.
ReadDataUnclosed(n, m) ==
  LET f == <<n, call[n].key>>
      last == call[n].want = 1
  IN /\ Asking(n, m) /\ call[n].want > 0
     /\ Arrived(n, m) /\ Turn(n, m)
     /\ disk' = [disk EXCEPT ![n][f].data = Append(@, Next1(n, m))]
     /\ Drain(n, m, 1)
     /\ call' = [call EXCEPT ![n].want = @ - 1,
                             ![n].at = IF last THEN None ELSE m]
     /\ KeepStream
     /\ UNCHANGED <<links, reader, queue, handler, calls>>

\* One piece of the file.  A connection that ends before the IV is an error;
\* one that ends later ends the file.
ReadData(n, m) ==
  LET f == <<n, call[n].key>>
      last == call[n].want = 1
  IN /\ Asking(n, m) /\ call[n].want > 0
     /\ \/ /\ Arrived(n, m) /\ Turn(n, m)
           /\ disk' = [disk EXCEPT ![n][f].data = Append(@, Next1(n, m))]
           /\ Drain(n, m, 1)
           /\ call' = [call EXCEPT ![n].want = @ - 1,
                                   ![n].at = IF last THEN None ELSE m]
           /\ IF last THEN CloseStream(n, m) ELSE KeepStream
        \/ /\ Ended(n, m) /\ (disk[n][f].data = <<>> \/ Closed(n, m))
           /\ call' = [call EXCEPT ![n] = NoCall]
           /\ KeepStream
           /\ UNCHANGED <<disk, wire, hurries>>
        \/ /\ Ended(n, m) /\ disk[n][f].data # <<>> /\ ~Closed(n, m)
           /\ call' = [call EXCEPT ![n].want = 0, ![n].at = None]
           /\ CloseStream(n, m)
           /\ UNCHANGED <<disk, wire, hurries>>
     /\ UNCHANGED <<links, reader, queue, handler, calls>>

\* Every peer has been asked; the file is read from the own disk.
Asked(n) == call[n].pc = "ask" /\ call[n].to = {} /\ call[n].at = None
GetEnds(n) ==
  /\ Asked(n)
  /\ call' = [call EXCEPT ![n] = NoCall]
  /\ UNCHANGED <<net, wire, reader, open, queue, handler, disk, calls>>

-----------------------------------------------------------------------------
(* The loop and its two handlers.                                          *)

\* Mutant: a file that is already there is appended to.
OpenedAppending(old) == [old EXCEPT !.there = TRUE]

\* openFileForWriting: os.Create empties a file that is already there.
Opened(old) == File(<<>>)

\* Mutant: without the marker.
ServedUnmarked(k, data) == <<Piece("size", k, Len(data))>> \o data

\* What handleMessageGetFile sends.
Served(k, data) ==
  <<StreamMark, Piece("size", k, Len(data))>> \o data

\* handleMessageStoreFile creates the file; handleMessageGetFile opens the
\* one it has, or returns an error and sends nothing.
Dispatch(n) ==
  LET msg == Head(queue[n])
      f == <<msg.from, msg.key>>
  IN /\ handler[n].pc = "idle" /\ queue[n] # <<>>
     /\ queue' = [queue EXCEPT ![n] = Tail(@)]
     /\ \/ /\ msg.is = "store"
           /\ disk' = [disk EXCEPT ![n][f] = Opened(disk[n][f])]
           /\ handler' = [handler EXCEPT ![n] =
                [NoWork EXCEPT !.pc = "store", !.from = msg.from,
                               !.key = msg.key, !.want = msg.size]]
        \/ /\ msg.is = "get"
           /\ handler' = [handler EXCEPT ![n] =
                IF ~disk[n][f].there THEN NoWork
                ELSE [NoWork EXCEPT !.pc = "get", !.from = msg.from,
                                     !.todo = Served(msg.key,
                                                     disk[n][f].data)]]
           /\ UNCHANGED disk
     /\ UNCHANGED <<net, wire, reader, open, call, calls>>

\* io.Copy from the connection to the file.  The end of the connection ends
\* the copy without an error; an error leaves the stream open.
StoreData(n) ==
  LET m == handler[n].from
      f == <<m, handler[n].key>>
      last == handler[n].want = 1
  IN /\ handler[n].pc = "store"
     /\ \/ /\ Arrived(n, m) /\ Turn(n, m)
           /\ disk' = [disk EXCEPT ![n][f].data = Append(@, Next1(n, m))]
           /\ Drain(n, m, 1)
           /\ handler' = [handler EXCEPT ![n] =
                IF last THEN NoWork ELSE [handler[n] EXCEPT !.want = @ - 1]]
           /\ IF last THEN CloseStream(n, m) ELSE KeepStream
        \/ /\ Ended(n, m)
           /\ handler' = [handler EXCEPT ![n] = NoWork]
           /\ IF Closed(n, m) THEN KeepStream ELSE CloseStream(n, m)
           /\ UNCHANGED <<disk, wire, hurries>>
     /\ UNCHANGED <<links, reader, queue, call, calls>>

ServePiece(n) ==
  LET m == handler[n].from
      rest == Tail(handler[n].todo)
  IN /\ handler[n].pc = "get"
     /\ IF Alive(n, m)
        THEN /\ Write(n, m, Head(handler[n].todo))
             /\ handler' = [handler EXCEPT ![n] =
                  IF rest = <<>> THEN NoWork ELSE [@ EXCEPT !.todo = rest]]
        ELSE handler' = [handler EXCEPT ![n] = NoWork] /\ UNCHANGED wire
     /\ UNCHANGED <<net, reader, open, queue, call, disk, calls>>

\* Somebody removes a file from the disk of the node that stored it.
FileLost(n, k) ==
  /\ call[n].pc = "idle" /\ disk[n][<<n, k>>].there
  /\ disk' = [disk EXCEPT ![n][<<n, k>>] = Absent]
  /\ UNCHANGED <<net, wire, reader, open, queue, handler, call, calls>>

-----------------------------------------------------------------------------
ReaderStep(n, m) ==
  /\ n \notin down
  /\ \/ Peek(n, m) \/ Body(n, m) \/ Park(n, m) \/ Resume(n, m)
     \/ EndRead(n, m)
CallStep(n) ==
  /\ n \notin down
  /\ \/ SendFile(n) \/ StreamPiece(n) \/ AskPeers(n) \/ GetEnds(n)
     \/ \E m \in Nodes : \/ Tell(n, m) \/ Choose(n, m)
                         \/ ReadSize(n, m) \/ ReadData(n, m)
LoopStep(n) ==
  /\ n \notin down
  /\ Dispatch(n) \/ StoreData(n) \/ ServePiece(n)

SystemStep ==
  \/ \E c \in Conns : ReaderStep(c[1], c[2])
  \/ \E n \in Nodes : CallStep(n) \/ LoopStep(n)

Next ==
  \/ SystemStep
  \/ \E c \in Conns : Connect(c[1], c[2]) \/ Break(c[1], c[2])
  \/ \E n \in Nodes \ down, k \in Keys :
       StoreStarts(n, k) \/ GetStarts(n, k) \/ FileLost(n, k)

Spec == Init /\ [][Next]_vars

\* While a goroutine can run one does, and sleeps end.
FairSpec == Spec /\ WF_vars(SystemStep)

-----------------------------------------------------------------------------
(* Properties.                                                             *)

\* Nobody but the owner's Store or Get, or the handler, writes to a file.
Writing(n, f) ==
  \/ f[1] = n /\ call[n].pc = "ask" /\ call[n].key = f[2] /\ call[n].want > 0
  \/ handler[n].pc = "store" /\ <<handler[n].from, handler[n].key>> = f

\* README.md: "fault-tolerant version storage".  Whatever breaks, a copy is not
\* made of the bytes of another file or of the protocol: it is the file, or the
\* beginning of it.
CopiesAreHonest ==
  \A n \in Nodes, f \in Files : IsPrefix(disk[n][f].data, Encrypted(f[2]))

\* README.md: "encrypted peer replication".  While connections last and every
\* step finds the network ready for it, every copy that is not being written
\* is whole: what a node lost, Get brings back.
Undisturbed == drops = 0 /\ hurries = 0
CopiesAreWhole ==
  Undisturbed => \A n \in Nodes, f \in Files :
    disk[n][f].there /\ ~Writing(n, f) => disk[n][f].data = Encrypted(f[2])

\* Undisturbed, a Store reaches every peer the node has when it tells them.
Telling(n, k) == call[n].pc = "tell" /\ call[n].kind = "store"
                   /\ call[n].key = k
StoresReplicate ==
  \A c \in Conns, k \in Keys :
    Telling(c[1], k) /\ c[2] \in Peers(c[1])
      ~> ~Undisturbed \/ disk[c[2]][<<c[1], k>>].data = Encrypted(k)

Getting(n, k) == call[n].kind = "get" /\ call[n].key = k
HasCopy(m, n, k) == disk[m][<<n, k>>].there

\* Undisturbed, a Get of a file that all peers have comes to an end.
GetsReturn ==
  \A n \in Nodes, k \in Keys :
    Getting(n, k) /\ (\A m \in Peers(n) : HasCopy(m, n, k))
      ~> ~Undisturbed \/ call[n].kind # "get"

\* Undisturbed, a reader does not wait for ever for a stream to be closed.
ReadersResume ==
  \A c \in Conns : reader[c[1]][c[2]] = "parked"
    ~> ~Undisturbed \/ reader[c[1]][c[2]] # "parked"
=============================================================================
