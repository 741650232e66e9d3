----------------------------- MODULE UpdateStream -----------------------------
(***************************************************************************)
(* How a table travels from a peer to the tracker: peer_sendpkt            *)
(* (common/pkt.c) on the peer's monitor thread, while its main thread      *)
(* appends nodes to the same list (add) and its keep_alive thread writes   *)
(* to the same socket, and at the other end the handshake thread           *)
(* (tracker/tracker.c) that puts the table together again.                 *)
(*                                                                         *)
(* Nodes of the list are only ever appended, so a node is its position and *)
(* the list is its length.  A node is sent as a copy of the C structure,   *)
(* pNext included: more says that pNext was not NULL when it was copied.   *)
(* The tracker overwrites the pNext of every node but the last.            *)
(***************************************************************************)
EXTENDS Integers, Sequences

CONSTANTS
  MaxFiles,    \* bound on the length of the peer's table
  MaxUpdates,  \* bound on the number of tables announced
  ChanCap      \* packets that the connection holds

ASSUME BoundsAssumption ==
  MaxFiles \in Nat /\ MaxUpdates \in Nat /\ ChanCap \in Nat \ {0}

VARIABLES
  length,           \* peer: nodes in the file table
  sending,          \* peer: the monitor thread is in the loop of peer_sendpkt
  sent,             \* peer: nodes already sent by that loop
  conn,             \* the peer's end of the connection: "up" or "closed"
  chan,             \* packets on their way to the tracker
  thread,           \* handshake thread: "running", "ended" or how it failed
  counter,          \* handshake: nodes received, -1 between two tables
  file_table_size,  \* handshake: nodes announced, -1 between two tables
  live,             \* handshake: peer_ft points to an allocated table
  nodes,            \* handshake: the nodes linked to peer_ft
  announced,        \* history: sizes of the tables announced
  merged,           \* history: tables given to update_filetable
  raced             \* history: the list has grown while it was being sent

peer == <<length, sending, sent, conn>>
handshake == <<thread, counter, file_table_size, live, nodes, merged>>
vars == <<peer, chan, handshake, announced, raced>>

Node == [file : 1..MaxFiles, more : BOOLEAN]
Packet == [type : {"KEEP_ALIVE"}]
            \cup [type : {"SIZE"}, size : 1..MaxFiles]
            \cup [type : {"NODE"}, node : Node]

\* Each variable has a value of its type.
TypeOK ==
  /\ length \in 0..MaxFiles
  /\ sending \in BOOLEAN
  /\ sent \in 0..MaxFiles
  /\ conn \in {"up", "closed"}
  /\ chan \in Seq(Packet) /\ Len(chan) <= ChanCap
  /\ thread \in {"running", "ended", "staleTable", "wildPointer"}
  /\ counter \in -1..MaxFiles
  /\ file_table_size \in -1..MaxFiles
  /\ live \in BOOLEAN
  /\ nodes \in Seq(Node)
  /\ announced \in Seq(1..MaxFiles)
  /\ merged \in Seq(Seq(1..MaxFiles))
  /\ raced \in BOOLEAN

Init ==
  /\ length = 0
  /\ sending = FALSE /\ sent = 0
  /\ conn = "up" /\ chan = <<>>
  /\ thread = "running"
  /\ counter = -1 /\ file_table_size = -1
  /\ live = FALSE /\ nodes = <<>>
  /\ announced = <<>> /\ merged = <<>>
  /\ raced = FALSE

-----------------------------------------------------------------------------
(* The peer.                                                               *)

Send(packet) ==
  /\ conn = "up"
  /\ Len(chan) < ChanCap
  /\ chan' = Append(chan, packet)

\* Main thread: add, for a file that it is about to download.
AddNode ==
  /\ conn = "up"
  /\ length < MaxFiles
  /\ length' = length + 1
  /\ raced' = (raced \/ sending)
  /\ UNCHANGED <<sending, sent, conn, chan, handshake, announced>>

\* Mutant: the count stops at the last node instead of behind it.
SendSize_OneLess(new) ==
  /\ ~sending
  /\ Len(announced) < MaxUpdates
  /\ length + new \in 2..MaxFiles
  /\ length' = length + new
  /\ Send([type |-> "SIZE", size |-> length' - 1])
  /\ announced' = Append(announced, length' - 1)
  /\ sending' = TRUE
  /\ sent' = 0
  /\ UNCHANGED <<conn, handshake, raced>>

\* Mutant: the count starts from 1.
SendSize_OneMore(new) ==
  /\ ~sending
  /\ Len(announced) < MaxUpdates
  /\ length + new \in 1..(MaxFiles - 1)
  /\ length' = length + new
  /\ Send([type |-> "SIZE", size |-> length' + 1])
  /\ announced' = Append(announced, length' + 1)
  /\ sending' = TRUE
  /\ sent' = 0
  /\ UNCHANGED <<conn, handshake, raced>>

\* Monitor thread: fileAdded appends a node (new = 1), fileModified and
\* fileDeleted change one (new = 0); then peer_sendpkt counts the nodes and
\* sends the count.
SendSize(new) ==
  /\ ~sending
  /\ Len(announced) < MaxUpdates
  /\ length + new \in 1..MaxFiles
  /\ length' = length + new
  /\ Send([type |-> "SIZE", size |-> length'])
  /\ announced' = Append(announced, length')
  /\ sending' = TRUE
  /\ sent' = 0
  /\ UNCHANGED <<conn, handshake, raced>>

\* The loop of peer_sendpkt: follow pNext to the next node, copy and send it.
SendNode ==
  /\ sending
  /\ sent < length
  /\ sent' = sent + 1
  /\ Send([type |-> "NODE",
           node |-> [file |-> sent', more |-> sent' < length]])
  /\ UNCHANGED <<length, sending, conn, handshake, announced, raced>>

\* pNext is NULL: the loop ends.
SendDone ==
  /\ sending
  /\ sent = length
  /\ sending' = FALSE
  /\ UNCHANGED <<length, sent, conn, chan, handshake, announced, raced>>

\* keep_alive thread.
SendKeepAlive ==
  /\ Send([type |-> "KEEP_ALIVE"])
  /\ UNCHANGED <<peer, handshake, announced, raced>>

\* The peer ends or loses its connection, between any two packets.
PeerGone ==
  /\ conn = "up"
  /\ conn' = "closed"
  /\ sending' = FALSE
  /\ UNCHANGED <<length, sent, chan, handshake, announced, raced>>

-----------------------------------------------------------------------------
(* The handshake thread.                                                   *)

Receive(type) ==
  /\ thread = "running"
  /\ chan # <<>>
  /\ Head(chan).type = type
  /\ chan' = Tail(chan)
  /\ UNCHANGED <<peer, announced, raced>>

Assembling(count, size, list) ==
  /\ counter' = count
  /\ file_table_size' = size
  /\ live' = TRUE
  /\ nodes' = list
  /\ UNCHANGED <<thread, merged>>

\* Mutant: counter and file_table_size keep their values.
Complete_NoReset(list) ==
  /\ merged' = Append(merged, [i \in 1..Len(list) |-> list[i].file])
  /\ live' = FALSE /\ nodes' = <<>>
  /\ UNCHANGED <<thread, counter, file_table_size>>

\* counter = file_table_size: update_filetable walks the list behind peer_ft,
\* whatever it is, to the first NULL; then the table is freed.
Complete(list) ==
  \/ /\ live /\ ~list[Len(list)].more
     /\ merged' = Append(merged, [i \in 1..Len(list) |-> list[i].file])
     /\ counter' = -1 /\ file_table_size' = -1
     /\ live' = FALSE /\ nodes' = <<>>
     /\ UNCHANGED thread
  \/ /\ live /\ list[Len(list)].more
     /\ thread' = "wildPointer"
     /\ UNCHANGED <<counter, file_table_size, live, nodes, merged>>
  \/ /\ ~live
     /\ thread' = "staleTable"
     /\ UNCHANGED <<counter, file_table_size, live, nodes, merged>>

\* A size is taken between two tables only.
RecvSize ==
  /\ Receive("SIZE")
  /\ IF counter = -1
     THEN Assembling(0, Head(chan).size, <<>>)
     ELSE UNCHANGED handshake

\* A node is linked to the table, if one is expected; the test for the last
\* node is made in any case.
RecvNode ==
  /\ Receive("NODE")
  /\ LET expected == counter < file_table_size
         count == IF expected THEN counter + 1 ELSE counter
         list == IF expected THEN Append(nodes, Head(chan).node) ELSE nodes
     IN  IF count = file_table_size
         THEN Complete(list)
         ELSE Assembling(count, file_table_size, list)

\* heard_peer does not touch the table.
RecvKeepAlive ==
  /\ Receive("KEEP_ALIVE")
  /\ UNCHANGED handshake

\* End of the stream: the thread ends, and a table cut short is dropped.
EndOfStream ==
  /\ thread = "running"
  /\ conn = "closed"
  /\ chan = <<>>
  /\ thread' = "ended"
  /\ UNCHANGED <<peer, chan, counter, file_table_size, live, nodes, merged,
                 announced, raced>>

Recv == RecvSize \/ RecvNode \/ RecvKeepAlive \/ EndOfStream

Next ==
  \/ AddNode
  \/ \E new \in {0, 1} : SendSize(new)
  \/ SendNode \/ SendDone
  \/ SendKeepAlive
  \/ PeerGone
  \/ Recv

Spec == Init /\ [][Next]_vars

\* The sending loop and the handshake thread run; a peer need not send
\* anything else and may stop at any time.  The loop competes with keep_alive
\* for the room in the connection, so it is enough for it to be enabled again
\* and again.
Fairness == SF_vars(SendNode) /\ WF_vars(SendDone) /\ WF_vars(Recv)

FairSpec == Spec /\ Fairness

-----------------------------------------------------------------------------

\* The k-th table given to update_filetable is the k-th one announced, whole
\* and in order: neither heartbeats between its packets, nor nodes appended
\* while it is sent, nor a connection lost half-way make it longer, shorter or
\* different (handshake).
MergedAsAnnounced ==
  /\ Len(merged) <= Len(announced)
  /\ \A k \in 1..Len(merged) : merged[k] = [i \in 1..announced[k] |-> i]

\* A peer whose list does not grow while it is being sent never makes the
\* handshake thread use a table it does not have or a pointer of the peer:
\* the unlocked list is the only cause of the failures.
FailsOnlyAfterRace == thread \in {"staleTable", "wildPointer"} => raced

\* Every table announced is merged, unless the connection is lost or the
\* thread has failed (peer_sendpkt sends what the size promises, and handshake
\* recognises the last node).
AnnouncedIsMerged ==
  \A k \in 1..MaxUpdates :
    (Len(announced) >= k) ~>
      (Len(merged) >= k \/ conn = "closed" \/ thread # "running")
=============================================================================
