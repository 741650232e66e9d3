------------------------------- MODULE Accept -------------------------------
(***************************************************************************)
(* How the tracker's connections find their threads (tracker/tracker.c):   *)
(* main hands the number of a connection to its new handshake thread by a  *)
(* pointer to its own variable, and a number that one thread has closed is *)
(* given out again by accept, while another may still use it.              *)
(*                                                                         *)
(* Tracker takes it that each thread reads its own connection.  Here that  *)
(* is a property.  A step is one system call; a read takes one byte.       *)
(***************************************************************************)
EXTENDS Integers, Sequences, FiniteSets, SequencesExt

CONSTANTS
  Conns,     \* connections; the thread that is created for one has its name
  Fds,       \* file descriptors, numbers
  MaxBytes,  \* bound on the bytes that are on their way
  None

ASSUME FdsAssumption == Fds \subseteq Nat /\ MaxBytes \in Nat
ASSUME NoneAssumption == None \notin Conns

NoFd == -1

VARIABLES
  open,        \* the connection behind each descriptor, or None
  peer_head,   \* descriptors in the list of peers
  freed,       \* the head has been freed: what follows is in Tracker
  connection,  \* main's variable
  handing,     \* the connection that main has accepted and has no thread for yet
  at,          \* a thread is "none", "new", in its "loop", in "recv", or "ended"
  fd,          \* its own variable connection
  wait,        \* the connection that its recv waits for
  remote,      \* a peer is "new", "up" or "closed"
  unread,      \* the bytes that it has sent and no thread has read
  strangers,   \* history: threads that have read bytes of another connection
  expired,     \* history: connections closed by another thread than their own
  overwritten  \* history: a thread has read another number than its own

main == <<connection, handing>>
threads == <<at, fd, wait>>
peers == <<remote, unread>>
history == <<strangers, expired, overwritten>>
vars == <<open, peer_head, freed, main, threads, peers, history>>

\* Each variable has a value of its type.
TypeOK ==
  /\ open \in [Fds -> Conns \cup {None}]
  /\ peer_head \in Seq(Fds) /\ freed \in BOOLEAN
  /\ connection \in Fds \cup {NoFd} /\ handing \in Conns \cup {None}
  /\ at \in [Conns -> {"none", "new", "loop", "recv", "ended"}]
  /\ fd \in [Conns -> Fds \cup {NoFd}]
  /\ wait \in [Conns -> Conns \cup {None}]
  /\ remote \in [Conns -> {"new", "up", "closed"}]
  /\ unread \in [Conns -> 0..MaxBytes]
  /\ strangers \subseteq Conns
  /\ expired \subseteq Conns /\ overwritten \in BOOLEAN

Init ==
  /\ open = [f \in Fds |-> None]
  /\ peer_head = <<>> /\ freed = FALSE
  /\ connection = NoFd /\ handing = None
  /\ at = [t \in Conns |-> "none"]
  /\ fd = [t \in Conns |-> NoFd] /\ wait = [t \in Conns |-> None]
  /\ remote = [c \in Conns |-> "new"]
  /\ unread = [c \in Conns |-> 0]
  /\ strangers = {} /\ expired = {} /\ overwritten = FALSE

Goto(t, where) == at' = [at EXCEPT ![t] = where]
Open == {open[f] : f \in Fds} \ {None}

\* What a step closes.
Closed == Open \ Open'

-----------------------------------------------------------------------------
(* main.                                                                   *)

\* accept gives out the lowest free number.
Lowest(f) == open[f] = None /\ \A g \in Fds : g < f => open[g] # None

\* accept into connection, and add_peer, whose scan leaves out the last cell.
Accept(c, f) ==
  /\ handing = None /\ remote[c] = "new" /\ Lowest(f)
  /\ remote' = [remote EXCEPT ![c] = "up"]
  /\ open' = [open EXCEPT ![f] = c]
  /\ connection' = f /\ handing' = c
  /\ peer_head' = IF \E i \in 1..(Len(peer_head) - 1) : peer_head[i] = f
                  THEN peer_head ELSE Append(peer_head, f)
  /\ UNCHANGED <<freed, threads, unread, history>>

\* Mutant: a thread is created for the first connection only.
Create_First ==
  /\ handing # None
  /\ handing' = None
  /\ IF \E t \in Conns : at[t] \in {"loop", "recv"} THEN UNCHANGED at ELSE Goto(handing, "new")
  /\ UNCHANGED <<open, peer_head, freed, connection, fd, wait, peers, history>>

\* pthread_create, with a pointer to connection.
Create ==
  /\ handing # None
  /\ Goto(handing, "new")
  /\ handing' = None
  /\ UNCHANGED <<open, peer_head, freed, connection, fd, wait, peers, history>>

-----------------------------------------------------------------------------
(* handshake.                                                              *)

ReadPointer(t) ==
  /\ at[t] = "new"
  /\ fd' = [fd EXCEPT ![t] = connection]
  /\ Goto(t, "loop")
  /\ overwritten' = (overwritten \/ open[connection] # t)
  /\ UNCHANGED <<open, peer_head, freed, main, wait, peers, strangers, expired>>

\* Mutant: the thread reads through the pointer each time.
CallRecv_Pointer(t) ==
  /\ at[t] = "loop" /\ open[connection] # None
  /\ wait' = [wait EXCEPT ![t] = open[connection]]
  /\ Goto(t, "recv")
  /\ UNCHANGED <<open, peer_head, freed, main, fd, peers, history>>

\* recv keeps the connection, not the number.
CallRecv(t) ==
  /\ at[t] = "loop" /\ open[fd[t]] # None
  /\ wait' = [wait EXCEPT ![t] = open[fd[t]]]
  /\ Goto(t, "recv")
  /\ UNCHANGED <<open, peer_head, freed, main, fd, peers, history>>

RecvByte(t) ==
  /\ at[t] = "recv" /\ unread[wait[t]] > 0
  /\ unread' = [unread EXCEPT ![wait[t]] = @ - 1]
  /\ strangers' = strangers \cup ({t} \ {wait[t]})
  /\ wait' = [wait EXCEPT ![t] = None]
  /\ Goto(t, "loop")
  /\ UNCHANGED <<open, peer_head, freed, main, fd, remote, expired, overwritten>>

\* delete_peer: a lone peer's descriptor stays open, the head is freed but stays.
Close(f) ==
  IF Len(peer_head) < 2 \/ ~Contains(peer_head, f)
  THEN UNCHANGED <<open, peer_head, freed>>
  ELSE /\ open' = [open EXCEPT ![f] = None]
       /\ freed' = (f = peer_head[1])
       /\ peer_head' = IF f = peer_head[1] THEN peer_head ELSE Remove(peer_head, f)

RecvFails(t) ==
  \/ at[t] = "recv" /\ unread[wait[t]] = 0 /\ remote[wait[t]] = "closed"
  \/ at[t] = "loop" /\ open[fd[t]] = None

\* Mutant: the last peer of the list is deleted.
Leave_DeleteLast(t) ==
  /\ RecvFails(t)
  /\ Close(peer_head[Len(peer_head)])
  /\ Goto(t, "ended")
  /\ fd' = [fd EXCEPT ![t] = NoFd] /\ wait' = [wait EXCEPT ![t] = None]
  /\ expired' = expired \cup (Closed \ {t})
  /\ UNCHANGED <<main, peers, strangers, overwritten>>

\* The end of the stream, or a number that is closed, ends the thread.
Leave(t) ==
  /\ RecvFails(t)
  /\ Close(fd[t])
  /\ Goto(t, "ended")
  /\ fd' = [fd EXCEPT ![t] = NoFd] /\ wait' = [wait EXCEPT ![t] = None]
  /\ expired' = expired \cup (Closed \ {t})
  /\ UNCHANGED <<main, peers, strangers, overwritten>>

-----------------------------------------------------------------------------
(* The other threads of the tracker, and the peers.                        *)

\* delete_peer by the heartbeat thread, or by a thread whose broadcast has failed.
DeleteOther(f) ==
  /\ open[f] # None
  /\ Close(f)
  /\ expired' = expired \cup Closed
  /\ UNCHANGED <<main, threads, peers, strangers, overwritten>>

PeerSends(c) ==
  /\ remote[c] = "up" /\ unread[c] < MaxBytes
  /\ unread' = [unread EXCEPT ![c] = @ + 1]
  /\ UNCHANGED <<open, peer_head, freed, main, threads, remote, history>>

PeerCloses(c) ==
  /\ remote[c] = "up"
  /\ remote' = [remote EXCEPT ![c] = "closed"]
  /\ UNCHANGED <<open, peer_head, freed, main, threads, unread, history>>

Handshake(t) == ReadPointer(t) \/ CallRecv(t) \/ RecvByte(t) \/ Leave(t)

\* What follows on an overwritten number, a data race, is not looked at.
Next ==
  /\ ~freed /\ ~overwritten
  /\ \/ Create
     \/ \E c \in Conns : \/ Handshake(c) \/ PeerSends(c) \/ PeerCloses(c)
                         \/ \E f \in Fds : Accept(c, f)
     \/ \E f \in Fds : DeleteOther(f)

Spec == Init /\ [][Next]_vars

\* main and the handshake threads run.
FairSpec ==
  /\ Spec
  /\ WF_vars(~freed /\ ~overwritten /\ Create)
  /\ \A t \in Conns : WF_vars(~freed /\ ~overwritten /\ Handshake(t))

-----------------------------------------------------------------------------
(* Properties.                                                             *)

\* Every byte of a connection is read by its own thread, unless main had accepted
\* the next one before the thread looked at the number; or by a thread whose own
\* connection was closed by another thread and whose number was given out again.
OwnThreadReads ==
  overwritten \/ strangers \subseteq expired

\* A thread that ends takes no connection of a running peer with it, neither another
\* one nor its own, unless its own had been closed by another thread before and its
\* number given out again.
OthersStayOpen ==
  [][\A t \in Conns, c \in Closed :
       at[t] # "ended" /\ at'[t] = "ended" /\ remote[c] = "up" => t \in expired]_vars

\* What a peer sends is read in the end, while its connection is open.
BytesAreRead ==
  \A c \in Conns : (unread[c] > 0) ~> (unread[c] = 0 \/ c \notin Open \/ freed \/ overwritten)
=============================================================================
