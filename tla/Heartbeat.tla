----------------------------- MODULE Heartbeat -----------------------------
(***************************************************************************)
(* The heartbeats in time (tracker/tracker.c, peer/peer.c): each peer's    *)
(* keep_alive thread, the handshake thread that reads what it sends unless *)
(* it is blocked in a broadcast, and the heartbeat thread that expires     *)
(* peers.  Tracker has the steps of these threads, but not how their       *)
(* clocks go together.                                                     *)
(*                                                                         *)
(* From the end of keep_alive's sleep to heard_peer it takes MaxDelay at   *)
(* most, while there is a network and the handshake thread is not blocked; *)
(* that is all that is assumed about time.                                 *)
(***************************************************************************)
EXTENDS Integers

CONSTANTS
  Socks,               \* connections, each with a peer at the other end
  HEARTBEAT_INTERVAL,
  HEARTBEAT_TIMEOUT,
  MaxDelay,
  NoSock,              \* no connection
  Recv,                \* a handshake thread waits for a packet
  Ended                \* it has left its loop

ASSUME HeartbeatAssumption ==
  /\ HEARTBEAT_INTERVAL \in Nat \ {0}
  /\ MaxDelay \in Nat
  /\ HEARTBEAT_TIMEOUT \in Nat
  /\ HEARTBEAT_INTERVAL + MaxDelay <= HEARTBEAT_TIMEOUT

ASSUME ThreadAssumption == Recv \notin Socks /\ Ended # Recv

VARIABLES
  peer_head,  \* the socket of the first cell, or NoSock
  age,        \* for each socket that has a cell, the time since last_time_stamp
  freed,      \* the head has been freed: what follows is in Tracker
  remote,     \* the peer is "new", "up", "cut" (from the network) or "closed"
  alarm,      \* time until keep_alive's sleep ends
  mail,       \* heartbeats sent and not handled yet
  thread,     \* handshake: Recv, Ended, or the peer that a send is blocked on
  closed,     \* sockets that delete_peer has closed
  check,      \* time until the heartbeat thread's sleep ends
  troubled    \* history: peers that were cut off, or whose thread was blocked

peers == <<remote, alarm, mail>>
vars == <<peer_head, age, freed, peers, thread, closed, check, troubled>>

\* The time after which a peer must have been found, whatever happens.
Deadline == HEARTBEAT_TIMEOUT + HEARTBEAT_INTERVAL

\* More heartbeats than this need not be told apart.
MaxMail == MaxDelay + 1

\* The sockets that have a cell; their order matters to nothing but the head.
Listed == DOMAIN age

\* Each variable has a value of its type.
TypeOK ==
  /\ peer_head \in Socks \cup {NoSock}
  /\ Listed \subseteq Socks /\ age \in [Listed -> 0..(Deadline + 1)]
  /\ freed \in BOOLEAN
  /\ remote \in [Socks -> {"new", "up", "cut", "closed"}]
  /\ alarm \in [Socks -> 0..HEARTBEAT_INTERVAL]
  /\ mail \in [Socks -> 0..MaxMail]
  /\ thread \in [Socks -> Socks \cup {Recv, Ended}]
  /\ closed \subseteq Socks
  /\ check \in 0..HEARTBEAT_INTERVAL
  /\ troubled \subseteq Socks

Init ==
  /\ peer_head = NoSock /\ age = [s \in {} |-> 0] /\ freed = FALSE
  /\ remote = [s \in Socks |-> "new"]
  /\ alarm = [s \in Socks |-> HEARTBEAT_INTERVAL]
  /\ mail = [s \in Socks |-> 0]
  /\ thread = [s \in Socks |-> Recv]
  /\ closed = {} /\ troubled = {}
  /\ check \in 0..HEARTBEAT_INTERVAL

-----------------------------------------------------------------------------
(* The peers and the network.                                              *)

\* accept, add_peer with the current time, and the start of the threads.
Connect(s) ==
  /\ ~freed
  /\ remote[s] = "new"
  /\ remote' = [remote EXCEPT ![s] = "up"]
  /\ peer_head' = IF Listed = {} THEN s ELSE peer_head
  /\ age' = [t \in Listed \cup {s} |-> IF t = s THEN 0 ELSE age[t]]
  /\ UNCHANGED <<freed, alarm, mail, thread, closed, check, troubled>>

\* keep_alive: its packet goes into the connection, whether it arrives or not.
KeepAlive(s) ==
  /\ ~freed
  /\ remote[s] \in {"up", "cut"} /\ alarm[s] = 0
  /\ mail' = [mail EXCEPT ![s] = IF @ < MaxMail THEN @ + 1 ELSE @]
  /\ alarm' = [alarm EXCEPT ![s] = HEARTBEAT_INTERVAL]
  /\ UNCHANGED <<peer_head, age, freed, remote, thread, closed, check, troubled>>

Cut(s) ==
  /\ ~freed
  /\ remote[s] = "up"
  /\ remote' = [remote EXCEPT ![s] = "cut"]
  /\ troubled' = troubled \cup {s}
  /\ UNCHANGED <<peer_head, age, freed, alarm, mail, thread, closed, check>>

Heal(s) ==
  /\ ~freed
  /\ remote[s] = "cut"
  /\ remote' = [remote EXCEPT ![s] = "up"]
  /\ UNCHANGED <<peer_head, age, freed, alarm, mail, thread, closed, check, troubled>>

\* The tracker's side has closed the connection and no recv keeps it open:
\* peer_recvpkt fails, and the peer stops.
SeesEnd(s) ==
  /\ ~freed
  /\ remote[s] = "up" /\ s \in closed /\ thread[s] # Recv
  /\ remote' = [remote EXCEPT ![s] = "closed"]
  /\ mail' = [mail EXCEPT ![s] = 0]
  /\ alarm' = [alarm EXCEPT ![s] = HEARTBEAT_INTERVAL]
  /\ UNCHANGED <<peer_head, age, freed, thread, closed, check, troubled>>

-----------------------------------------------------------------------------
(* The handshake threads.                                                  *)

Reading(s) == remote[s] = "up" /\ thread[s] = Recv

\* heard_peer.
HeardPeer(s) ==
  /\ ~freed
  /\ Reading(s) /\ mail[s] > 0 /\ s \notin closed
  /\ mail' = [mail EXCEPT ![s] = @ - 1]
  /\ age' = [age EXCEPT ![s] = 0]
  /\ UNCHANGED <<peer_head, freed, remote, alarm, thread, closed, check, troubled>>

\* Mutant: the thread goes on reading the socket that was closed.
Woken_GoesOn(s) ==
  /\ ~freed
  /\ Reading(s) /\ mail[s] > 0 /\ s \in closed
  /\ mail' = [mail EXCEPT ![s] = @ - 1]
  /\ UNCHANGED <<peer_head, age, freed, remote, alarm, thread, closed, check, troubled>>

\* tracker_receiver takes byte by byte.  A recv goes on when another thread closes
\* the socket, and gets a byte of the next packet; the one after it fails.
Woken(s) ==
  /\ ~freed
  /\ Reading(s) /\ mail[s] > 0 /\ s \in closed
  /\ thread' = [thread EXCEPT ![s] = Ended]
  /\ UNCHANGED <<peer_head, age, freed, peers, closed, check, troubled>>

\* Peer s announces, and the broadcast blocks on a peer q that takes no more.
Block(s, q) ==
  /\ ~freed
  /\ Reading(s) /\ s \notin closed
  /\ q \in Listed /\ remote[q] = "cut"
  /\ thread' = [thread EXCEPT ![s] = q]
  /\ troubled' = troubled \cup {s}
  /\ UNCHANGED <<peer_head, age, freed, peers, closed, check>>

\* The peer takes packets again, or is closed and the send fails; the thread's own
\* socket may have been closed meanwhile.
Unblock(s) ==
  /\ ~freed
  /\ thread[s] \in Socks
  /\ remote[thread[s]] \in {"up", "closed"}
  /\ thread' = [thread EXCEPT ![s] = IF s \in closed THEN Ended ELSE Recv]
  /\ UNCHANGED <<peer_head, age, freed, peers, closed, check, troubled>>

-----------------------------------------------------------------------------
(* delete_peer and the heartbeat thread.                                   *)

\* delete_peer for the sockets of a set, in the order of the list: a lone peer
\* stays, and the head is freed but stays.
Delete(gone) ==
  IF Listed \subseteq {peer_head}
  THEN UNCHANGED <<peer_head, age, freed, closed>>
  ELSE /\ freed' = (peer_head \in gone)
       /\ age' = [s \in (Listed \ gone) \cup {peer_head} |-> age[s]]
       /\ closed' = closed \cup (gone \cap Listed)
       /\ UNCHANGED peer_head

\* TCP has tried for long enough to reach a peer: recv and send fail for it.
GiveUp(q) ==
  /\ ~freed
  /\ remote[q] = "cut"
  /\ \E s \in Socks : thread[s] = q
  /\ remote' = [remote EXCEPT ![q] = "closed"]
  /\ Delete({q})
  /\ thread' = [s \in Socks |-> IF s = q /\ thread[s] = Recv THEN Ended ELSE thread[s]]
  /\ mail' = [mail EXCEPT ![q] = 0]
  /\ alarm' = [alarm EXCEPT ![q] = HEARTBEAT_INTERVAL]
  /\ UNCHANGED <<check, troubled>>

\* Mutant: a peer is overdue at the timeout.
Overdue_AtTimeout == {s \in Listed : age[s] >= HEARTBEAT_TIMEOUT}

\* Peers not heard of for longer than the timeout.
Overdue == {s \in Listed : age[s] > HEARTBEAT_TIMEOUT}

\* Mutant: the first cell is looked at, and no other.
Check_First ==
  /\ ~freed
  /\ check = 0
  /\ Delete(Overdue \cap {peer_head})
  /\ check' = HEARTBEAT_INTERVAL
  /\ UNCHANGED <<peers, thread, troubled>>

\* heartbeat: one traversal of the list.
Check ==
  /\ ~freed
  /\ check = 0
  /\ Delete(Overdue)
  /\ check' = HEARTBEAT_INTERVAL
  /\ UNCHANGED <<peers, thread, troubled>>

-----------------------------------------------------------------------------
(* Time.                                                                   *)

\* How long ago the sleep before the first unhandled heartbeat ended.
Waiting(s) == (HEARTBEAT_INTERVAL - alarm[s]) + (mail[s] - 1) * HEARTBEAT_INTERVAL

Tick ==
  /\ ~freed
  /\ check > 0
  /\ \A s \in Socks :
       /\ remote[s] \in {"up", "cut"} => alarm[s] > 0
       /\ Reading(s) /\ mail[s] > 0 => Waiting(s) < MaxDelay
  /\ check' = check - 1
  /\ alarm' = [s \in Socks |-> IF remote[s] \in {"up", "cut"} THEN alarm[s] - 1 ELSE alarm[s]]
  /\ age' = [s \in Listed |-> IF age[s] > Deadline THEN age[s] ELSE age[s] + 1]
  /\ UNCHANGED <<peer_head, freed, remote, mail, thread, closed, troubled>>

Next ==
  \/ \E s \in Socks :
       \/ Connect(s) \/ KeepAlive(s) \/ Cut(s) \/ Heal(s) \/ SeesEnd(s)
       \/ HeardPeer(s) \/ Woken(s) \/ Unblock(s) \/ GiveUp(s)
       \/ \E q \in Socks : Block(s, q)
  \/ Check \/ Tick

Spec == Init /\ [][Next]_vars

\* Time passes, and threads that can run do.
FairSpec ==
  /\ Spec
  /\ SF_vars(Tick) /\ WF_vars(Check)
  /\ \A s \in Socks :
       /\ WF_vars(KeepAlive(s)) /\ WF_vars(SeesEnd(s))
       /\ WF_vars(HeardPeer(s)) /\ WF_vars(Woken(s))

-----------------------------------------------------------------------------
(* Properties.                                                             *)

\* No peer is expired, nor would be at the next check, while its heartbeats can
\* be read: what expires has been cut off, or its handshake thread was blocked in a
\* broadcast to a peer that was.  60 s and 240 s leave that much room, exactly.
LivePeersKept ==
  /\ Overdue \subseteq troubled
  /\ \A s \in Socks : remote[s] # "new" /\ s \notin Listed => s \in troubled

\* A peer that is not heard of is off the list one interval after the timeout at the
\* latest, however the checks fall; unless it is the head, which cannot be taken out.
FoundInTime == \A s \in Listed \ {peer_head} : age[s] <= Deadline

\* A peer that was expired although it runs finds out, and stops: it does not go on
\* announcing and asking on a connection that the tracker has given up.
ExpiredPeerStops ==
  \A s \in Socks :
    (s \in closed /\ remote[s] = "up") ~> (freed \/ remote[s] \in {"cut", "closed"})
=============================================================================
