---------------------------- MODULE BroadcastStream ----------------------------
(***************************************************************************)
(* How a table travels from the tracker to one peer: tracker_sendpkt, run  *)
(* by whichever handshake threads of the tracker have something to tell    *)
(* (an answer to REGISTER, or a broadcast), without a lock on the socket   *)
(* or on the table, and peer_recvpkt in the peer's main thread             *)
(* (common/pkt.c).                                                         *)
(*                                                                         *)
(* The table is an unlocked list, which the same threads append to         *)
(* (update_filetable).  One append at a time lets it grow by a node.  Two  *)
(* that overlap may lose nodes again that were linked, and even the whole  *)
(* list: SharedTable has those steps.  Here the list is torn from then on, *)
(* and what a count or a walk over it meets is left open.                  *)
(*                                                                         *)
(* As in UpdateStream, a node is its position, and more says that its      *)
(* pNext was not NULL when it was copied.                                  *)
(***************************************************************************)
EXTENDS Integers, Sequences

CONSTANTS
  Threads,        \* handshake threads of the tracker
  MaxFiles,       \* bound on the length of the tracker's table
  MaxBroadcasts,  \* bound on the number of tables sent
  ChanCap         \* packets that the connection holds

ASSUME BoundsAssumption ==
  MaxFiles \in Nat /\ MaxBroadcasts \in Nat /\ ChanCap \in Nat \ {0}

VARIABLES
  length,   \* tracker: nodes in the file table, until it is torn
  torn,     \* two appends have overlapped
  append,   \* tracker, per thread: "no", "tail" found, or "linked", not yet filled
  cursor,   \* tracker, per thread: nodes sent, -1 outside tracker_sendpkt
  chan,     \* packets on their way to the peer
  main,     \* peer's main thread: "running", or how it failed
  left,     \* peer_recvpkt: nodes still to come, 0 between two tables
  got,      \* peer_recvpkt: the packets taken for nodes
  sizes,    \* history: sizes of the tables sent
  tables,   \* history: tables handed to compareNode
  overlap   \* history: a table was sent, grew or was torn while one was being sent

fileTable == <<length, torn, append>>
tracker == <<fileTable, cursor, sizes, overlap>>
receiver == <<main, left, got, tables>>
vars == <<tracker, chan, receiver>>

\* A size packet carries a node of zeros, a node packet the size -1.
NullNode == [file |-> 0, more |-> FALSE]
Packet ==
  [size : 0..MaxFiles, node : {NullNode}]
    \cup [size : {-1}, node : [file : 0..MaxFiles, more : BOOLEAN]]

\* Each variable has a value of its type.
TypeOK ==
  /\ length \in 0..MaxFiles
  /\ torn \in BOOLEAN
  /\ append \in [Threads -> {"no", "tail", "linked"}]
  /\ cursor \in [Threads -> -1..MaxFiles]
  /\ chan \in Seq(Packet) /\ Len(chan) <= ChanCap
  /\ main \in {"running", "wildPointer"}
  /\ left \in 0..MaxFiles
  /\ got \in Seq(0..MaxFiles) /\ Len(got) <= MaxFiles
  /\ sizes \in Seq(0..MaxFiles)
  /\ tables \in Seq(Seq(0..MaxFiles))
  /\ overlap \in BOOLEAN

Init ==
  /\ length = 0 /\ torn = FALSE
  /\ append = [t \in Threads |-> "no"]
  /\ cursor = [t \in Threads |-> -1]
  /\ chan = <<>>
  /\ main = "running" /\ left = 0 /\ got = <<>>
  /\ sizes = <<>> /\ tables = <<>>
  /\ overlap = FALSE

-----------------------------------------------------------------------------
(* The tracker: update_filetable and tracker_sendpkt in thread t.          *)

Sending == \E t \in Threads : cursor[t] >= 0

Idle(t) == cursor[t] = -1 /\ append[t] = "no"

\* An announced file is not in the table: the scan has found the last node, or
\* that there is no table yet.
FindTail(t) ==
  /\ Idle(t)
  /\ length < MaxFiles
  /\ append' = [append EXCEPT ![t] = "tail"]
  /\ torn' = (torn \/ \E u \in Threads : append[u] # "no")
  /\ overlap' = (overlap \/ torn')
  /\ UNCHANGED <<length, cursor, chan, sizes, receiver>>

\* A zeroed node is linked behind it.
LinkNode(t) ==
  /\ append[t] = "tail"
  /\ append' = [append EXCEPT ![t] = "linked"]
  /\ length' = IF torn THEN length ELSE length + 1
  /\ overlap' = (overlap \/ Sending)
  /\ UNCHANGED <<torn, cursor, chan, sizes, receiver>>

\* The node is filled in, its pNext with NULL.
FillNode(t) ==
  /\ append[t] = "linked"
  /\ append' = [append EXCEPT ![t] = "no"]
  /\ UNCHANGED <<length, torn, cursor, chan, sizes, overlap, receiver>>

Send(packet) == Len(chan) < ChanCap /\ chan' = Append(chan, packet)

\* The nodes are counted and the count is sent.
SendSize(t) ==
  /\ Idle(t)
  /\ Len(sizes) < MaxBroadcasts
  /\ \E count \in 0..MaxFiles :
       /\ torn \/ count = length
       /\ Send([size |-> count, node |-> NullNode])
       /\ sizes' = Append(sizes, count)
  /\ cursor' = [cursor EXCEPT ![t] = 0]
  /\ overlap' = (overlap \/ Sending \/ \E u \in Threads : append[u] = "linked")
  /\ UNCHANGED <<fileTable, receiver>>

\* What a walk finds at a place of the list: a node that is not filled in yet, and
\* any node of a torn list, counts as 0.
NodesAt(place) ==
  IF torn
  THEN [file : {0}, more : BOOLEAN]
  ELSE {[file |-> IF place = length /\ \E u \in Threads : append[u] = "linked"
                  THEN 0 ELSE place,
         more |-> place < length]}

\* Mutant: the loop stops at the last node instead of behind it.
SendNode_SkipLast(t) ==
  /\ cursor[t] \in 0..(MaxFiles - 1)
  /\ torn \/ cursor[t] < length
  /\ cursor' = [cursor EXCEPT ![t] = @ + 1]
  /\ \E node \in NodesAt(cursor'[t]) :
       IF node.more THEN Send([size |-> -1, node |-> node]) ELSE UNCHANGED chan
  /\ UNCHANGED <<fileTable, sizes, overlap, receiver>>

\* Follow pNext to the next node, copy and send it.
SendNode(t) ==
  /\ cursor[t] \in 0..(MaxFiles - 1)
  /\ torn \/ cursor[t] < length
  /\ cursor' = [cursor EXCEPT ![t] = @ + 1]
  /\ \E node \in NodesAt(cursor'[t]) : Send([size |-> -1, node |-> node])
  /\ UNCHANGED <<fileTable, sizes, overlap, receiver>>

\* pNext is NULL: the loop ends.
SendDone(t) ==
  /\ cursor[t] >= 0
  /\ torn \/ cursor[t] = length
  /\ cursor' = [cursor EXCEPT ![t] = -1]
  /\ UNCHANGED <<fileTable, chan, sizes, overlap, receiver>>

-----------------------------------------------------------------------------
(* The peer: peer_recvpkt in the loop of main.                             *)

Receive ==
  /\ main = "running"
  /\ chan # <<>>
  /\ chan' = Tail(chan)
  /\ UNCHANGED tracker

\* Mutant: the loop over the nodes starts from 1.
RecvSize_OneLess ==
  /\ Receive
  /\ left = 0
  /\ IF Head(chan).size > 1
     THEN left' = Head(chan).size - 1 /\ UNCHANGED tables
     ELSE left' = 0 /\ tables' = Append(tables, <<>>)
  /\ UNCHANGED <<main, got>>

\* The first packet of a call is taken for a size; one without nodes makes an
\* empty table.
RecvSize ==
  /\ Receive
  /\ left = 0
  /\ IF Head(chan).size > 0
     THEN left' = Head(chan).size /\ UNCHANGED tables
     ELSE left' = 0 /\ tables' = Append(tables, <<>>)
  /\ UNCHANGED <<main, got>>

\* The others are taken for nodes.  The last one's pNext ends the walk over the
\* table, or leads it to an address of the tracker.
RecvNode ==
  /\ Receive
  /\ left > 0
  /\ LET node == Head(chan).node
         nodes == Append(got, node.file)
     IN  \/ /\ left > 1
            /\ left' = left - 1 /\ got' = nodes
            /\ UNCHANGED <<main, tables>>
         \/ /\ left = 1 /\ ~node.more
            /\ left' = 0 /\ got' = <<>>
            /\ tables' = Append(tables, nodes)
            /\ UNCHANGED main
         \/ /\ left = 1 /\ node.more
            /\ main' = "wildPointer"
            /\ UNCHANGED <<left, got, tables>>

Next ==
  \/ \E t \in Threads : \/ FindTail(t)
                        \/ LinkNode(t)
                        \/ FillNode(t)
                        \/ SendSize(t)
                        \/ SendNode(t)
                        \/ SendDone(t)
  \/ RecvSize
  \/ RecvNode

Spec == Init /\ [][Next]_vars

-----------------------------------------------------------------------------

Quiet == chan = <<>> /\ \A t \in Threads : cursor[t] = -1

\* However the packets of several threads are mixed, and however the table grows
\* under them, the main thread is never left inside a table: with all packets read
\* it waits for a size, so the next broadcast is understood again (peer_recvpkt).
\* Only two overlapping appends can make a walk shorter than the count before it.
ReceiverResynchronises == Quiet /\ main = "running" /\ ~torn => left = 0

\* Tables that are sent one at a time, of a list that is not touched meanwhile and
\* was never appended to by two threads at a time, arrive whole and in order, and
\* never lead the peer astray: the missing locks are the only cause of garbled
\* tables (tracker_sendpkt, peer_recvpkt).
WholeUnlessOverlap ==
  ~overlap =>
    /\ main = "running"
    /\ \A k \in 1..Len(tables) : tables[k] = [i \in 1..sizes[k] |-> i]
=============================================================================
