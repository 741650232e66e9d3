----------------------------- MODULE AcceptProofs -----------------------------
(***************************************************************************)
(* Theorems about the tracker's connections and threads, for any number of *)
(* them and any order of accepts, reads and closes.                        *)
(*                                                                         *)
(* Which thread may do damage is known before it does: one whose number    *)
(* was overwritten, or one whose connection was closed by another thread   *)
(* before it was done with the number.  The invariant says that any other  *)
(* thread still has its own connection under its number.                   *)
(***************************************************************************)
EXTENDS Accept, TLAPS

Types ==
  /\ open \in [Fds -> Conns \cup {None}]
  /\ connection \in Fds \cup {NoFd} /\ handing \in Conns \cup {None}
  /\ at \in [Conns -> {"none", "new", "loop", "recv", "ended"}]
  /\ fd \in [Conns -> Fds \cup {NoFd}]
  /\ wait \in [Conns -> Conns \cup {None}]
  /\ remote \in [Conns -> {"new", "up", "closed"}]
  /\ strangers \subseteq Conns /\ expired \subseteq Conns

\* A connection has one number, and a peer at its other end.
OneNumber ==
  \A f, g \in Fds : open[f] # None => /\ remote[open[f]] # "new"
                                      /\ open[f] = open[g] => f = g

\* There is a number to read when a thread is about to read it, or has read it.
Numbered ==
  /\ handing # None => connection \in Fds
  /\ \A t \in Conns : /\ at[t] = "new" => connection \in Fds
                      /\ at[t] \in {"loop", "recv"} => fd[t] \in Fds
                      /\ at[t] = "recv" => wait[t] \in Conns

\* A thread whose connection nobody else has closed has it under its number.
OwnNumber ==
  ~overwritten =>
    \A t \in Conns \ expired :
      /\ at[t] \in {"loop", "recv"} => open[fd[t]] = t
      /\ at[t] = "recv" => wait[t] = t

IInv == Types /\ OneNumber /\ Numbered /\ OwnNumber /\ OwnThreadReads

\* What delete_peer may do to the descriptors.
LEMMA CloseLemma ==
  ASSUME Types, NEW f \in Fds, Close(f)
  PROVE  /\ open' = open \/ open' = [open EXCEPT ![f] = None]
         /\ open' \in [Fds -> Conns \cup {None}]
         /\ Closed \subseteq {open[f]} \ {None}
         /\ open[f] # None /\ open' # open => \A g \in Fds : open[g] = open[f] => g = f \/ open[f] \notin Closed
<1>1. open' = open \/ open' = [open EXCEPT ![f] = None]
  BY DEF Close
<1>2. open' \in [Fds -> Conns \cup {None}]
  BY <1>1 DEF Types
<1>3. \A g \in Fds : g # f => open'[g] = open[g]
  BY <1>1 DEF Types
<1>4. Closed \subseteq {open[f]} \ {None}
  BY <1>3 DEF Closed, Open
<1>5. \A g \in Fds : open[g] = open[f] /\ open[f] # None /\ g # f => open[f] \notin Closed
  BY <1>3 DEF Closed, Open
<1> QED
  BY <1>1, <1>2, <1>4, <1>5

\* A number is closed that was open, and what it stood for counts as closed.
LEMMA CloseKeeps ==
  ASSUME Types, OneNumber, NEW f \in Fds, Close(f), remote' = remote
  PROVE  /\ OneNumber'
         /\ \A g \in Fds : open'[g] = open[g] \/ (open'[g] = None /\ g = f)
         /\ open[f] # None /\ open'[f] # open[f] => open[f] \in Closed
<1>1. /\ open' = open \/ open' = [open EXCEPT ![f] = None]
      /\ open' \in [Fds -> Conns \cup {None}]
  BY CloseLemma
<1>2. \A g \in Fds : open'[g] = open[g] \/ (open'[g] = None /\ g = f)
  BY <1>1 DEF Types
<1>3. OneNumber'
  BY <1>2 DEF OneNumber
<1>4. ASSUME open[f] # None, open'[f] # open[f]
      PROVE  open[f] \in Closed
  <2>1. \A g \in Fds : open'[g] # open[f]
    BY <1>2, <1>4 DEF OneNumber
  <2> QED
    BY <1>4, <2>1 DEF Closed, Open
<1> QED
  BY <1>2, <1>3, <1>4

LEMMA InitIInv == Init => IInv
  BY NoneAssumption
  DEF Init, IInv, Types, OneNumber, Numbered, OwnNumber, OwnThreadReads, NoFd

LEMMA StepIInv == IInv /\ [Next]_vars => IInv'
<1> SUFFICES ASSUME IInv, [Next]_vars
             PROVE  IInv'
  OBVIOUS
<1> USE NoneAssumption
<1>0. Types /\ OneNumber /\ Numbered /\ OwnNumber /\ OwnThreadReads
  BY DEF IInv
<1>1. ASSUME NEW c \in Conns, NEW f \in Fds, Accept(c, f), ~overwritten
      PROVE  IInv'
  <2>1. /\ handing = None /\ remote[c] = "new" /\ open[f] = None
        /\ remote' = [remote EXCEPT ![c] = "up"] /\ open' = [open EXCEPT ![f] = c]
        /\ connection' = f /\ handing' = c
        /\ UNCHANGED <<at, fd, wait, strangers, expired, overwritten>>
    BY <1>1 DEF Accept, Lowest, threads, history
  <2>2. Types'
    BY <1>0, <2>1 DEF Types
  <2>3. \A g \in Fds : open'[g] = IF g = f THEN c ELSE open[g]
    BY <1>0, <2>1 DEF Types
  <2>4. \A d \in Conns : remote'[d] = IF d = c THEN "up" ELSE remote[d]
    BY <1>0, <2>1 DEF Types
  <2>5. \A g \in Fds : open[g] # c
    BY <1>0, <2>1 DEF OneNumber
  <2>6. OneNumber'
    BY <1>0, <2>3, <2>4, <2>5 DEF OneNumber, Types
  <2>7. Numbered' /\ OwnThreadReads'
    BY <1>0, <2>1 DEF Numbered, OwnThreadReads
  <2>8. OwnNumber'
    BY <1>0, <1>1, <2>1, <2>3 DEF OwnNumber, Numbered, Types
  <2> QED
    BY <2>2, <2>6, <2>7, <2>8 DEF IInv
<1>2. CASE Create
  <2>1. /\ handing # None /\ handing' = None /\ at' = [at EXCEPT ![handing] = "new"]
        /\ UNCHANGED <<open, connection, fd, wait, remote, strangers, expired, overwritten>>
    BY <1>2 DEF Create, Goto, peers, history
  <2>2. Types'
    BY <1>0, <2>1 DEF Types
  <2>3. Numbered' /\ OwnNumber'
    BY <1>0, <2>1 DEF Types, Numbered, OwnNumber
  <2> QED
    BY <1>0, <2>1, <2>2, <2>3 DEF IInv, OneNumber, OwnThreadReads
<1>3. ASSUME NEW t \in Conns, ReadPointer(t), ~overwritten
      PROVE  IInv'
  <2>1. /\ at[t] = "new" /\ fd' = [fd EXCEPT ![t] = connection]
        /\ at' = [at EXCEPT ![t] = "loop"]
        /\ ~overwritten' => open[connection] = t
        /\ UNCHANGED <<open, connection, handing, wait, remote, strangers, expired>>
    BY <1>3 DEF ReadPointer, Goto, main, peers
  <2>2. Types'
    BY <1>0, <2>1 DEF Types
  <2>3. Numbered' /\ OwnNumber'
    BY <1>0, <1>3, <2>1 DEF Types, Numbered, OwnNumber
  <2>4. OneNumber' /\ OwnThreadReads'
    BY <1>0, <1>3, <2>1 DEF OneNumber, OwnThreadReads
  <2> QED
    BY <2>2, <2>3, <2>4 DEF IInv
<1>4. ASSUME NEW t \in Conns, CallRecv(t)
      PROVE  IInv'
  <2>1. /\ at[t] = "loop" /\ open[fd[t]] # None
        /\ wait' = [wait EXCEPT ![t] = open[fd[t]]] /\ at' = [at EXCEPT ![t] = "recv"]
        /\ UNCHANGED <<open, connection, handing, fd, remote, strangers, expired, overwritten>>
    BY <1>4 DEF CallRecv, Goto, main, peers, history
  <2>2. open[fd[t]] \in Conns
    BY <1>0, <2>1 DEF Types, Numbered
  <2>3. Types'
    BY <1>0, <2>1, <2>2 DEF Types
  <2>4. Numbered' /\ OwnNumber'
    BY <1>0, <2>1, <2>2 DEF Types, Numbered, OwnNumber
  <2> QED
    BY <1>0, <2>1, <2>3, <2>4 DEF IInv, OneNumber, OwnThreadReads
<1>5. ASSUME NEW t \in Conns, RecvByte(t), ~overwritten
      PROVE  IInv'
  <2>1. /\ at[t] = "recv" /\ wait' = [wait EXCEPT ![t] = None]
        /\ strangers' = strangers \cup ({t} \ {wait[t]})
        /\ at' = [at EXCEPT ![t] = "loop"]
        /\ UNCHANGED <<open, connection, handing, fd, remote, expired, overwritten>>
    BY <1>5 DEF RecvByte, Goto, main
  <2>2. Types'
    BY <1>0, <2>1 DEF Types
  <2>3. Numbered' /\ OwnNumber'
    BY <1>0, <2>1 DEF Types, Numbered, OwnNumber
  <2>4. t \notin expired => wait[t] = t
    BY <1>0, <1>5, <2>1 DEF OwnNumber
  <2>5. OwnThreadReads'
    BY <1>0, <1>5, <2>1, <2>4 DEF OwnThreadReads
  <2> QED
    BY <1>0, <2>1, <2>2, <2>3, <2>5 DEF IInv, OneNumber
<1>6. ASSUME NEW t \in Conns, Leave(t)
      PROVE  IInv'
  <2>1. /\ at[t] \in {"loop", "recv"} /\ Close(fd[t]) /\ at' = [at EXCEPT ![t] = "ended"]
        /\ fd' = [fd EXCEPT ![t] = NoFd] /\ wait' = [wait EXCEPT ![t] = None]
        /\ expired' = expired \cup (Closed \ {t})
        /\ UNCHANGED <<connection, handing, remote, strangers, overwritten>>
    BY <1>6 DEF Leave, RecvFails, Goto, main, peers
  <2>2. fd[t] \in Fds
    BY <1>0, <2>1 DEF Numbered
  <2>3. /\ open' \in [Fds -> Conns \cup {None}]
        /\ Closed \subseteq {open[fd[t]]} \ {None}
    BY <1>0, <2>1, <2>2, CloseLemma
  <2>4. /\ OneNumber'
        /\ \A g \in Fds : open'[g] = open[g] \/ (open'[g] = None /\ g = fd[t])
        /\ open[fd[t]] # None /\ open'[fd[t]] # open[fd[t]] => open[fd[t]] \in Closed
    BY <1>0, <2>1, <2>2, CloseKeeps
  <2>5. Types'
    <3>1. Closed \subseteq Conns
      BY <1>0, <2>2, <2>3 DEF Types
    <3> QED
      BY <1>0, <2>1, <2>3, <3>1 DEF Types
  <2>6. Numbered'
    BY <1>0, <2>1 DEF Types, Numbered
  <2>7. OwnNumber'
    <3> SUFFICES ASSUME ~overwritten, NEW u \in Conns \ expired', at'[u] \in {"loop", "recv"}
                 PROVE  open'[fd'[u]] = u /\ (at'[u] = "recv" => wait'[u] = u)
      BY <2>1 DEF OwnNumber
    <3>1. u # t /\ u \notin expired /\ at'[u] = at[u] /\ fd'[u] = fd[u] /\ wait'[u] = wait[u]
      BY <1>0, <2>1 DEF Types
    <3>2. open[fd[u]] = u /\ fd[u] \in Fds /\ (at[u] = "recv" => wait[u] = u)
      BY <1>0, <3>1 DEF OwnNumber, Numbered
    <3>3. u \notin Closed
      BY <2>1, <3>1
    <3>4. open'[fd[u]] = u
      BY <2>4, <3>2, <3>3
    <3> QED
      BY <3>1, <3>2, <3>4
  <2>8. OwnThreadReads'
    BY <1>0, <2>1 DEF OwnThreadReads
  <2> QED
    BY <2>4, <2>5, <2>6, <2>7, <2>8 DEF IInv
<1>7. ASSUME NEW f \in Fds, DeleteOther(f)
      PROVE  IInv'
  <2>1. /\ Close(f) /\ expired' = expired \cup Closed
        /\ UNCHANGED <<connection, handing, at, fd, wait, remote, strangers, overwritten>>
    BY <1>7 DEF DeleteOther, main, threads, peers
  <2>2. /\ open' \in [Fds -> Conns \cup {None}]
        /\ Closed \subseteq {open[f]} \ {None}
    BY <1>0, <2>1, CloseLemma
  <2>3. /\ OneNumber'
        /\ \A g \in Fds : open'[g] = open[g] \/ (open'[g] = None /\ g = f)
        /\ open[f] # None /\ open'[f] # open[f] => open[f] \in Closed
    BY <1>0, <2>1, CloseKeeps
  <2>4. Types'
    <3>1. Closed \subseteq Conns
      BY <1>0, <2>2 DEF Types
    <3> QED
      BY <1>0, <2>1, <2>2, <3>1 DEF Types
  <2>5. Numbered'
    BY <1>0, <2>1 DEF Numbered
  <2>6. OwnNumber'
    <3> SUFFICES ASSUME ~overwritten, NEW u \in Conns \ expired', at[u] \in {"loop", "recv"}
                 PROVE  open'[fd[u]] = u /\ (at[u] = "recv" => wait[u] = u)
      BY <2>1 DEF OwnNumber
    <3>1. open[fd[u]] = u /\ fd[u] \in Fds /\ (at[u] = "recv" => wait[u] = u) /\ u \notin Closed
      BY <1>0, <2>1 DEF OwnNumber, Numbered
    <3> QED
      BY <2>3, <3>1
  <2>7. OwnThreadReads'
    BY <1>0, <2>1 DEF OwnThreadReads
  <2> QED
    BY <2>3, <2>4, <2>5, <2>6, <2>7 DEF IInv
<1>8. ASSUME NEW c \in Conns, PeerSends(c) \/ PeerCloses(c)
      PROVE  IInv'
  <2>1. /\ remote' = remote \/ remote' = [remote EXCEPT ![c] = "closed"]
        /\ UNCHANGED <<open, connection, handing, at, fd, wait, strangers, expired, overwritten>>
    BY <1>8 DEF PeerSends, PeerCloses, main, threads, history
  <2>2. Types' /\ OneNumber'
    BY <1>0, <2>1 DEF Types, OneNumber
  <2> QED
    BY <1>0, <2>1, <2>2 DEF IInv, Numbered, OwnNumber, OwnThreadReads
<1>9. CASE UNCHANGED vars
  BY <1>0, <1>9
  DEF vars, main, threads, peers, history, IInv, Types, OneNumber, Numbered, OwnNumber,
      OwnThreadReads
<1> QED
  BY <1>1, <1>2, <1>3, <1>4, <1>5, <1>6, <1>7, <1>8, <1>9 DEF Next, Handshake

\* In every reachable state a connection has one number, and a thread whose connection
\* nobody else has closed, and whose number main has not overwritten, has it under its
\* number.
THEOREM Invariance == Spec => []IInv
  BY InitIInv, StepIInv, PTL DEF Spec

\* A thread reads bytes of its own connection only, as long as main has not
\* overwritten a number and no other thread has closed its connection (handshake,
\* tracker_receiver), for any number of connections.
THEOREM ThreadsKeepApart == Spec => []OwnThreadReads
<1>1. IInv => OwnThreadReads
  BY DEF IInv
<1> QED
  BY <1>1, Invariance, PTL

\* A thread that ends and was not expired before closes no connection of a running
\* peer (handshake, delete_peer).
THEOREM EndingThreadsAreHarmless == Spec => OthersStayOpen
<1>1. IInv /\ [Next]_vars
      => [\A t \in Conns, c \in Closed :
            at[t] # "ended" /\ at'[t] = "ended" /\ remote[c] = "up" => t \in expired]_vars
  <2> SUFFICES ASSUME IInv, Next, NEW t \in Conns, NEW c \in Closed,
                      at[t] # "ended", at'[t] = "ended", remote[c] = "up", t \notin expired
               PROVE  FALSE
    OBVIOUS
  <2>1. Types /\ Numbered /\ OwnNumber /\ ~overwritten
    BY DEF IInv, Next
  <2>2. Leave(t)
    <3>1. PICK d \in Conns : \/ Create
                             \/ Handshake(d) \/ PeerSends(d) \/ PeerCloses(d)
                             \/ \E f \in Fds : Accept(d, f) \/ DeleteOther(f)
      BY DEF Next
    <3>2. CASE Create \/ ReadPointer(d) \/ CallRecv(d) \/ RecvByte(d)
      <4>1. PICK u \in Conns \cup {None}, where \in {"new", "loop", "recv"} :
              at' = [at EXCEPT ![u] = where]
        BY <2>1, <3>2 DEF Create, ReadPointer, CallRecv, RecvByte, Goto, Types
      <4> QED
        BY <2>1, <4>1 DEF Types
    <3>3. CASE PeerSends(d) \/ PeerCloses(d) \/ \E f \in Fds : Accept(d, f) \/ DeleteOther(f)
      BY <3>3 DEF PeerSends, PeerCloses, Accept, DeleteOther, threads
    <3>4. CASE Leave(d)
      BY <2>1, <3>4 DEF Leave, Goto, Types
    <3> QED
      BY <3>1, <3>2, <3>3, <3>4 DEF Handshake
  <2>3. at[t] \in {"loop", "recv"} /\ Close(fd[t]) /\ RecvFails(t)
    BY <2>2 DEF Leave, RecvFails
  <2>4. fd[t] \in Fds /\ open[fd[t]] = t /\ (at[t] = "recv" => wait[t] = t)
    BY <2>1, <2>3 DEF Numbered, OwnNumber
  <2>5. c = t
    BY <2>1, <2>3, <2>4, CloseLemma
  <2> QED
    BY <2>3, <2>4, <2>5, NoneAssumption DEF RecvFails
<1> QED
  BY <1>1, Invariance, PTL DEF Spec, OthersStayOpen
=============================================================================
