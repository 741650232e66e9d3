--------------------------- MODULE HeartbeatProofs ---------------------------
(***************************************************************************)
(* Theorems about the heartbeats, for any number of peers and any interval,*)
(* timeout and delay that leave one another the room constant.h leaves.    *)
(*                                                                         *)
(* A clock that runs up is bounded by clocks that run down.  What a cell   *)
(* says of a peer is as old as the heartbeats on their way and the sleep   *)
(* of keep_alive account for (Alive); and any cell but the head's was fresh*)
(* enough at the last check, and gets older until the next one (Tail).     *)
(***************************************************************************)
EXTENDS Heartbeat, TLAPS

HeadListed == Listed # {} => peer_head \in Listed

\* Of a peer that has not connected there is no trace.
NewPeers ==
  \A s \in Socks : remote[s] = "new" =>
    /\ alarm[s] = HEARTBEAT_INTERVAL /\ mail[s] = 0 /\ thread[s] = Recv
    /\ s \notin closed /\ s \notin Listed

\* The heartbeats of peer s are read in time.
Punctual(s) ==
  /\ remote[s] = "up" /\ thread[s] = Recv /\ s \notin closed
  /\ s \in Listed
  /\ age[s] <= (HEARTBEAT_INTERVAL - alarm[s]) + mail[s] * HEARTBEAT_INTERVAL
  /\ mail[s] > 0 => Waiting(s) <= MaxDelay

Alive == \A s \in Socks : remote[s] # "new" /\ s \notin troubled => Punctual(s)

Tail == \A s \in Listed \ {peer_head} : age[s] + check <= Deadline

IInv == TypeOK /\ HeadListed /\ NewPeers /\ Alive /\ Tail

-----------------------------------------------------------------------------
(* Operators.                                                              *)

\* What the products in Punctual come to.
LEMMA Products ==
  ASSUME NEW m \in Nat
  PROVE  /\ m * HEARTBEAT_INTERVAL \in Nat
         /\ (m + 1) * HEARTBEAT_INTERVAL = m * HEARTBEAT_INTERVAL + HEARTBEAT_INTERVAL
         /\ (m - 1) * HEARTBEAT_INTERVAL = m * HEARTBEAT_INTERVAL - HEARTBEAT_INTERVAL
         /\ m <= m * HEARTBEAT_INTERVAL
         /\ 0 * HEARTBEAT_INTERVAL = 0
<1>1. HEARTBEAT_INTERVAL \in Nat /\ HEARTBEAT_INTERVAL > 0
  BY HeartbeatAssumption
<1>2. m <= m * HEARTBEAT_INTERVAL
  BY <1>1, SMT
<1> QED
  BY <1>1, <1>2, SMT

\* A punctual peer is not overdue.
LEMMA PunctualLemma ==
  ASSUME TypeOK, NewPeers, Alive
  PROVE  LivePeersKept
<1>1. ASSUME NEW s \in Socks, s \notin troubled, remote[s] # "new"
      PROVE  s \in Listed /\ ~(age[s] > HEARTBEAT_TIMEOUT)
  <2>1. Punctual(s)
    BY <1>1 DEF Alive
  <2> DEFINE m == mail[s]
             P == m * HEARTBEAT_INTERVAL
             a == alarm[s]
  <2>2. m \in Nat /\ a \in Nat /\ a <= HEARTBEAT_INTERVAL /\ age[s] \in Nat
    BY <1>1, <2>1, HeartbeatAssumption DEF TypeOK, MaxMail, Deadline, Punctual
  <2>3. /\ P \in Nat
        /\ (m - 1) * HEARTBEAT_INTERVAL = P - HEARTBEAT_INTERVAL
        /\ 0 * HEARTBEAT_INTERVAL = 0
    BY <2>2, Products
  <2>4. age[s] <= (HEARTBEAT_INTERVAL - a) + P
    BY <2>1 DEF Punctual
  <2>5. m > 0 => (HEARTBEAT_INTERVAL - a) + (P - HEARTBEAT_INTERVAL) <= MaxDelay
    BY <2>1, <2>3 DEF Punctual, Waiting
  <2>6. m = 0 => P = 0
    BY <2>3
  <2> HIDE DEF m, P, a
  <2>7. age[s] <= HEARTBEAT_TIMEOUT
    BY <2>2, <2>3, <2>4, <2>5, <2>6, HeartbeatAssumption
  <2> QED
    BY <2>1, <2>2, <2>7, HeartbeatAssumption DEF Punctual
<1>2. Listed \subseteq Socks
  BY DEF TypeOK
<1>3. \A s \in Listed : remote[s] # "new"
  BY <1>2 DEF NewPeers
<1> QED
  BY <1>1, <1>2, <1>3 DEF LivePeersKept, Overdue

\* delete_peer takes out only what it is asked to, and all of that but the head.
LEMMA DeleteLemma ==
  ASSUME TypeOK, HeadListed, NEW gone, Delete(gone)
  PROVE  /\ peer_head' = peer_head /\ freed' \in BOOLEAN
         /\ Listed' \subseteq Listed /\ HeadListed'
         /\ age' \in [Listed' -> 0..(Deadline + 1)]
         /\ \A s \in Listed' : age'[s] = age[s] /\ (s \in gone => s = peer_head)
         /\ \A s \in Listed : s \notin gone => s \in Listed'
         /\ closed' \subseteq Socks
         /\ \A s \in Socks : s \notin gone /\ s \notin closed => s \notin closed'
         /\ closed \subseteq closed'
<1>1. CASE Listed \subseteq {peer_head}
  BY <1>1 DEF Delete, Listed, HeadListed, TypeOK
<1>2. CASE ~(Listed \subseteq {peer_head})
  <2>1. peer_head \in Listed
    BY <1>2 DEF HeadListed
  <2>2. /\ freed' = (peer_head \in gone)
        /\ age' = [s \in (Listed \ gone) \cup {peer_head} |-> age[s]]
        /\ closed' = closed \cup (gone \cap Listed)
        /\ peer_head' = peer_head
    BY <1>2 DEF Delete
  <2>3. Listed' = (Listed \ gone) \cup {peer_head}
    BY <2>2 DEF Listed
  <2>4. \A s \in Listed' : s \in Listed /\ age'[s] = age[s]
    BY <2>1, <2>2, <2>3
  <2>5. \A s \in Listed : age[s] \in 0..(Deadline + 1)
    BY DEF TypeOK
  <2>6. age' \in [Listed' -> 0..(Deadline + 1)]
    BY <2>1, <2>2, <2>3, <2>5
  <2>7. closed' \subseteq Socks
    BY <2>2 DEF TypeOK
  <2> QED
    BY <2>1, <2>2, <2>3, <2>4, <2>6, <2>7 DEF HeadListed
<1> QED
  BY <1>1, <1>2

-----------------------------------------------------------------------------
(* Steps.                                                                  *)

LEMMA InitLemma == ASSUME Init PROVE IInv
<1>1. Listed = {}
  BY DEF Init, Listed
<1>2. age \in [Listed -> 0..(Deadline + 1)]
  BY <1>1 DEF Init
<1>3. 0 \in 0..MaxMail /\ HEARTBEAT_INTERVAL \in 0..HEARTBEAT_INTERVAL
  BY HeartbeatAssumption DEF MaxMail
<1>4. TypeOK
  BY <1>1, <1>2, <1>3 DEF Init, TypeOK
<1> QED
  BY <1>1, <1>4 DEF Init, IInv, HeadListed, NewPeers, Alive, Tail

\* What a step leaves alone of a peer, it leaves punctual.
Same(s) ==
  /\ remote'[s] = remote[s] /\ alarm'[s] = alarm[s] /\ mail'[s] = mail[s]
  /\ thread'[s] = thread[s]
  /\ s \in closed' => s \in closed
  /\ s \in Listed <=> s \in Listed'
  /\ s \in Listed => age'[s] = age[s]

LEMMA SameLemma ==
  ASSUME NEW s \in Socks, Same(s), Punctual(s)
  PROVE  Punctual(s)'
  BY DEF Same, Punctual, Waiting

\* A step after which each peer is as before, or punctual, or in trouble.
LEMMA FrameLemma ==
  ASSUME NewPeers, Alive, troubled \subseteq troubled',
         \A t \in Socks : \/ Same(t)
                          \/ Punctual(t)'
                          \/ t \in troubled' /\ remote'[t] # "new"
  PROVE  NewPeers' /\ Alive'
<1>1. ASSUME NEW t \in Socks, remote'[t] = "new"
      PROVE  /\ alarm'[t] = HEARTBEAT_INTERVAL /\ mail'[t] = 0 /\ thread'[t] = Recv
             /\ t \notin closed' /\ t \notin Listed'
  <2>1. Same(t)
    BY <1>1 DEF Punctual
  <2> QED
    BY <1>1, <2>1 DEF Same, NewPeers
<1>2. ASSUME NEW t \in Socks, remote'[t] # "new", t \notin troubled'
      PROVE  Punctual(t)'
  <2>1. CASE Same(t)
    <3>1. Punctual(t)
      BY <1>2, <2>1 DEF Same, Alive
    <3> QED
      BY <2>1, <3>1, SameLemma
  <2> QED
    BY <1>2, <2>1
<1> QED
  BY <1>1, <1>2 DEF NewPeers, Alive

LEMMA ConnectLemma ==
  ASSUME IInv, NEW s \in Socks, Connect(s)
  PROVE  IInv'
<1>1. TypeOK /\ HeadListed /\ NewPeers /\ Alive /\ Tail
  BY DEF IInv
<1>2. Listed' = Listed \cup {s}
  BY DEF Connect, Listed
<1>3. s \notin Listed /\ s \notin closed /\ mail[s] = 0 /\ thread[s] = Recv
      /\ alarm[s] = HEARTBEAT_INTERVAL
  BY <1>1 DEF Connect, NewPeers
<1>4. \A t \in Listed' : age'[t] = IF t = s THEN 0 ELSE age[t]
  BY <1>2 DEF Connect
<1>5. 0 \in 0..(Deadline + 1) /\ check \in Nat /\ check <= Deadline
  BY <1>1, HeartbeatAssumption DEF Deadline, TypeOK
<1>6. TypeOK'
  <2>1. \A t \in Listed' : age'[t] \in 0..(Deadline + 1)
    BY <1>1, <1>2, <1>4, <1>5 DEF TypeOK
  <2>2. age' \in [Listed' -> 0..(Deadline + 1)]
    BY <2>1, <1>2 DEF Connect
  <2>3. peer_head' \in Socks \cup {NoSock} /\ Listed' \subseteq Socks
    BY <1>1, <1>2 DEF Connect, TypeOK
  <2>4. remote' \in [Socks -> {"new", "up", "cut", "closed"}]
    BY <1>1 DEF Connect, TypeOK
  <2> QED
    BY <1>1, <2>2, <2>3, <2>4 DEF Connect, TypeOK, MaxMail
<1>7. HeadListed'
  BY <1>1, <1>2 DEF Connect, HeadListed
<1>8. ASSUME NEW t \in Socks PROVE Same(t) \/ Punctual(t)'
  <2>1. CASE t = s
    <3>1. remote'[s] = "up"
      BY <1>1 DEF Connect, TypeOK
    <3>2. age'[s] = 0
      BY <1>2, <1>4
    <3>3. 0 <= (HEARTBEAT_INTERVAL - HEARTBEAT_INTERVAL) + 0 * HEARTBEAT_INTERVAL
      BY HeartbeatAssumption
    <3>4. mail'[s] = 0 /\ alarm'[s] = HEARTBEAT_INTERVAL /\ thread'[s] = Recv /\ s \notin closed'
      BY <1>3 DEF Connect
    <3>5. age'[s] <= (HEARTBEAT_INTERVAL - alarm'[s]) + mail'[s] * HEARTBEAT_INTERVAL
      BY <3>2, <3>3, <3>4
    <3> QED
      BY <1>2, <2>1, <3>1, <3>4, <3>5 DEF Punctual
  <2>2. CASE t # s
    <3>1. remote'[t] = remote[t]
      BY <1>1, <2>2 DEF Connect, TypeOK
    <3> QED
      BY <1>2, <1>4, <2>2, <3>1 DEF Connect, Same
  <2> QED
    BY <2>1, <2>2
<1>9. NewPeers' /\ Alive'
  BY <1>1, <1>8, FrameLemma DEF Connect
<1>10. Tail'
  <2> SUFFICES ASSUME NEW t \in Listed' \ {peer_head'} PROVE age'[t] + check' <= Deadline
    BY DEF Tail, Deadline
  <2>1. CASE t = s
    BY <1>2, <1>4, <1>5, <2>1 DEF Connect
  <2>2. CASE t # s
    <3>1. t \in Listed \ {peer_head}
      BY <1>2, <2>2 DEF Connect
    <3> QED
      BY <1>1, <1>4, <2>2, <3>1 DEF Connect, Tail
  <2> QED
    BY <2>1, <2>2
<1> QED
  BY <1>6, <1>7, <1>9, <1>10 DEF IInv

\* keep_alive sends in time: what the cell may be behind grows by the interval that
\* its clock has run down.
LEMMA KeepAliveLemma ==
  ASSUME IInv, NEW s \in Socks, KeepAlive(s)
  PROVE  IInv'
<1>1. TypeOK /\ HeadListed /\ NewPeers /\ Alive /\ Tail
  BY DEF IInv
<1>2. Listed' = Listed
  BY DEF KeepAlive, Listed
<1>3. mail[s] \in Nat /\ MaxMail \in Nat /\ HEARTBEAT_INTERVAL \in Nat /\ alarm[s] = 0
  BY <1>1, HeartbeatAssumption DEF TypeOK, MaxMail, KeepAlive
<1>4. mail'[s] = (IF mail[s] < MaxMail THEN mail[s] + 1 ELSE mail[s])
      /\ alarm'[s] = HEARTBEAT_INTERVAL
  BY <1>1 DEF KeepAlive, TypeOK
<1>5. TypeOK'
  <2>1. alarm' \in [Socks -> 0..HEARTBEAT_INTERVAL]
    BY <1>1, <1>3 DEF KeepAlive, TypeOK
  <2>2. (IF mail[s] < MaxMail THEN mail[s] + 1 ELSE mail[s]) \in 0..MaxMail
    BY <1>1, <1>3 DEF TypeOK
  <2>3. mail' \in [Socks -> 0..MaxMail]
    BY <1>1, <2>2 DEF KeepAlive, TypeOK
  <2> QED
    BY <1>1, <1>2, <2>1, <2>3 DEF KeepAlive, TypeOK, Deadline
<1>6. ASSUME NEW t \in Socks
      PROVE  Same(t) \/ Punctual(t)' \/ (t \in troubled' /\ remote'[t] # "new")
  <2>1. CASE t # s
    BY <1>1, <1>2, <2>1 DEF KeepAlive, TypeOK, Same
  <2>2. CASE t = s /\ s \in troubled
    BY <2>2 DEF KeepAlive
  <2>3. CASE t = s /\ s \notin troubled
    <3>1. Punctual(s)
      BY <1>1, <2>3 DEF KeepAlive, Alive
    <3> DEFINE m == mail[s]
               P == m * HEARTBEAT_INTERVAL
    <3>2. /\ P \in Nat /\ m <= P
          /\ (m + 1) * HEARTBEAT_INTERVAL = P + HEARTBEAT_INTERVAL
          /\ (m - 1) * HEARTBEAT_INTERVAL = P - HEARTBEAT_INTERVAL
          /\ 0 * HEARTBEAT_INTERVAL = 0
      BY <1>3, Products
    <3>3. age[s] \in Nat /\ age[s] <= (HEARTBEAT_INTERVAL - 0) + P
      BY <1>1, <1>3, <3>1, HeartbeatAssumption DEF Punctual, TypeOK, Deadline
    <3>4. m > 0 => (HEARTBEAT_INTERVAL - 0) + (P - HEARTBEAT_INTERVAL) <= MaxDelay
      BY <1>3, <3>1, <3>2 DEF Punctual, Waiting
    <3>5. m = 0 => P = 0
      BY <3>2
    <3>6. m \in Nat
      BY <1>3
    <3>7. mail'[s] = IF m < MaxMail THEN m + 1 ELSE m
      BY <1>4
    <3> HIDE DEF m, P
    <3>9. P <= MaxDelay
      BY <1>3, <3>2, <3>4, <3>5, <3>6, HeartbeatAssumption
    <3>10. mail'[s] = m + 1
      BY <3>2, <3>6, <3>7, <3>9, HeartbeatAssumption DEF MaxMail
    <3>11. age[s] <= (HEARTBEAT_INTERVAL - HEARTBEAT_INTERVAL) + (m + 1) * HEARTBEAT_INTERVAL
      BY <1>3, <3>2, <3>3
    <3>13. Waiting(s)' = (HEARTBEAT_INTERVAL - alarm'[s])
                           + (mail'[s] - 1) * HEARTBEAT_INTERVAL
      BY DEF Waiting
    <3>14. mail'[s] - 1 = m /\ HEARTBEAT_INTERVAL - alarm'[s] = 0
      BY <1>3, <1>4, <3>6, <3>10
    <3>15. Waiting(s)' <= MaxDelay
      BY <3>2, <3>9, <3>13, <3>14 DEF P
    <3> QED
      BY <1>2, <1>4, <2>3, <3>1, <3>10, <3>11, <3>15 DEF Punctual, KeepAlive
  <2> QED
    BY <2>1, <2>2, <2>3
<1>7. NewPeers' /\ Alive'
  BY <1>1, <1>6, FrameLemma DEF KeepAlive
<1> QED
  BY <1>1, <1>2, <1>5, <1>7 DEF IInv, HeadListed, Tail, KeepAlive, Deadline

\* heard_peer: one heartbeat less on its way, and a cell that is new.
LEMMA HeardPeerLemma ==
  ASSUME IInv, NEW s \in Socks, HeardPeer(s)
  PROVE  IInv'
<1>1. TypeOK /\ HeadListed /\ NewPeers /\ Alive /\ Tail
  BY DEF IInv
<1>2. Listed' = Listed
  BY DEF HeardPeer, Listed
<1>3. mail[s] \in Nat /\ mail[s] > 0 /\ mail'[s] = mail[s] - 1 /\ mail[s] <= MaxMail
  BY <1>1, HeartbeatAssumption DEF TypeOK, MaxMail, HeardPeer
<1>4. \A t \in Listed : age'[t] = IF t = s THEN 0 ELSE age[t]
  BY <1>1 DEF HeardPeer, Listed, TypeOK
<1>5. 0 \in 0..(Deadline + 1) /\ check \in Nat /\ check <= Deadline /\ MaxMail \in Nat
  BY <1>1, HeartbeatAssumption DEF Deadline, TypeOK, MaxMail
<1>6. TypeOK'
  <2>1. \A t \in Listed' : age'[t] \in 0..(Deadline + 1)
    BY <1>1, <1>2, <1>4, <1>5 DEF TypeOK
  <2>2. age' \in [Listed' -> 0..(Deadline + 1)]
    BY <1>1, <1>2, <1>5 DEF HeardPeer, TypeOK
  <2>3. mail' \in [Socks -> 0..MaxMail]
    <3>1. mail[s] - 1 \in 0..MaxMail
      BY <1>3, <1>5
    <3> QED
      BY <1>1, <3>1 DEF HeardPeer, TypeOK
  <2> QED
    BY <1>1, <1>2, <2>2, <2>3 DEF HeardPeer, TypeOK, Deadline
<1>7. ASSUME NEW t \in Socks
      PROVE  Same(t) \/ Punctual(t)' \/ (t \in troubled' /\ remote'[t] # "new")
  <2>1. CASE t # s
    BY <1>1, <1>2, <1>4, <2>1 DEF HeardPeer, TypeOK, Same
  <2>2. CASE t = s /\ s \in troubled
    BY <2>2 DEF HeardPeer, Reading
  <2>3. CASE t = s /\ s \notin troubled
    <3>1. Punctual(s)
      BY <1>1, <2>3 DEF HeardPeer, Reading, Alive
    <3> DEFINE m == mail[s]
               P == m * HEARTBEAT_INTERVAL
               Q == (m - 1) * HEARTBEAT_INTERVAL
               R == (m - 1 - 1) * HEARTBEAT_INTERVAL
               a == alarm[s]
    <3>2. m \in Nat /\ m > 0 /\ m - 1 \in Nat
      BY <1>3
    <3>3. P \in Nat /\ Q \in Nat /\ Q = P - HEARTBEAT_INTERVAL /\ R = Q - HEARTBEAT_INTERVAL
      BY <3>2, Products
    <3>4. a \in Nat /\ a <= HEARTBEAT_INTERVAL
      BY <1>1, HeartbeatAssumption DEF TypeOK
    <3>5. (HEARTBEAT_INTERVAL - a) + Q <= MaxDelay
      BY <3>1, <3>2 DEF Punctual, Waiting
    <3>6. Waiting(s)' = (HEARTBEAT_INTERVAL - a) + R
      BY <1>3 DEF Waiting, HeardPeer
    <3>7. mail'[s] * HEARTBEAT_INTERVAL = Q
      BY <1>3
    <3> HIDE DEF m, P, Q, R, a
    <3>8. Waiting(s)' <= MaxDelay
      BY <3>3, <3>4, <3>5, <3>6, HeartbeatAssumption
    <3>9. 0 <= (HEARTBEAT_INTERVAL - a) + Q
      BY <3>3, <3>4, HeartbeatAssumption
    <3>10. age'[s] <= (HEARTBEAT_INTERVAL - alarm'[s]) + mail'[s] * HEARTBEAT_INTERVAL
      BY <1>4, <3>1, <3>7, <3>9 DEF HeardPeer, Punctual, a
    <3> QED
      BY <1>2, <2>3, <3>1, <3>8, <3>10 DEF Punctual, HeardPeer
  <2> QED
    BY <2>1, <2>2, <2>3
<1>8. NewPeers' /\ Alive'
  BY <1>1, <1>7, FrameLemma DEF HeardPeer
<1>9. Tail'
  <2> SUFFICES ASSUME NEW t \in Listed \ {peer_head} PROVE age'[t] + check <= Deadline
    BY <1>2 DEF Tail, Deadline, HeardPeer
  <2>1. CASE t = s
    BY <1>4, <1>5, <2>1
  <2>2. CASE t # s
    BY <1>1, <1>4, <2>2 DEF Tail
  <2> QED
    BY <2>1, <2>2
<1> QED
  BY <1>1, <1>2, <1>6, <1>8, <1>9 DEF IInv, HeadListed, HeardPeer

\* The steps of the network, of a peer that stops and of threads that block or end
\* disturb nobody who is not in trouble.
LEMMA TroubleLemma ==
  ASSUME IInv, NEW s \in Socks,
         \/ Cut(s) \/ Heal(s) \/ SeesEnd(s) \/ Woken(s) \/ Unblock(s)
         \/ \E q \in Socks : Block(s, q)
  PROVE  IInv'
<1>1. TypeOK /\ HeadListed /\ NewPeers /\ Alive /\ Tail
  BY DEF IInv
<1>2. /\ UNCHANGED <<peer_head, age, freed, closed, check>> /\ Listed' = Listed
      /\ troubled \subseteq troubled'
  BY DEF Cut, Heal, SeesEnd, Woken, Unblock, Block, peers, Listed
<1>3. 0 \in 0..MaxMail /\ HEARTBEAT_INTERVAL \in 0..HEARTBEAT_INTERVAL
  BY HeartbeatAssumption DEF MaxMail
<1>4. /\ remote' \in [Socks -> {"new", "up", "cut", "closed"}]
      /\ thread' \in [Socks -> Socks \cup {Recv, Ended}]
      /\ alarm' \in [Socks -> 0..HEARTBEAT_INTERVAL] /\ mail' \in [Socks -> 0..MaxMail]
      /\ troubled' \subseteq Socks
  BY <1>1, <1>3 DEF Cut, Heal, SeesEnd, Woken, Unblock, Block, peers, TypeOK
<1>5. TypeOK'
  BY <1>1, <1>2, <1>4 DEF TypeOK, Deadline, MaxMail
<1>6. ASSUME NEW t \in Socks, t # s PROVE Same(t)
  BY <1>1, <1>2, <1>6 DEF Cut, Heal, SeesEnd, Woken, Unblock, Block, peers, TypeOK, Same
<1>7. remote[s] # "new"
  BY <1>1, ThreadAssumption
     DEF Cut, Heal, SeesEnd, Woken, Unblock, Block, Reading, NewPeers
<1>8. remote'[s] # "new"
  BY <1>1, <1>7 DEF Cut, Heal, SeesEnd, Woken, Unblock, Block, peers, TypeOK
<1>9. s \in troubled'
  <2>1. CASE s \in troubled
    BY <1>2, <2>1
  <2>2. CASE s \notin troubled
    <3>1. remote[s] = "up" /\ thread[s] = Recv /\ s \notin closed
      BY <1>1, <1>7, <2>2 DEF Alive, Punctual
    <3> QED
      BY <3>1, ThreadAssumption DEF Cut, Heal, SeesEnd, Woken, Unblock, Block
  <2> QED
    BY <2>1, <2>2
<1>10. NewPeers' /\ Alive'
  BY <1>1, <1>2, <1>6, <1>8, <1>9, FrameLemma
<1> QED
  BY <1>1, <1>2, <1>5, <1>10 DEF IInv, HeadListed, Tail, Deadline

\* A connection that TCP gives up was cut.
LEMMA GiveUpLemma ==
  ASSUME IInv, NEW q \in Socks, GiveUp(q)
  PROVE  IInv'
<1>1. TypeOK /\ HeadListed /\ NewPeers /\ Alive /\ Tail
  BY DEF IInv
<1>2. Delete({q})
  BY DEF GiveUp
<1>3. /\ peer_head' = peer_head /\ freed' \in BOOLEAN
      /\ Listed' \subseteq Listed /\ HeadListed'
      /\ age' \in [Listed' -> 0..(Deadline + 1)]
      /\ closed' \subseteq Socks
  BY <1>1, <1>2, DeleteLemma
<1>4. \A t \in Listed' : age'[t] = age[t]
  BY <1>1, <1>2, DeleteLemma
<1>5. \A t \in Socks : t # q => /\ t \in Listed => t \in Listed'
                                /\ t \notin closed => t \notin closed'
  BY <1>1, <1>2, DeleteLemma
<1>6. TypeOK'
  <2>1. 0 \in 0..MaxMail /\ HEARTBEAT_INTERVAL \in 0..HEARTBEAT_INTERVAL
    BY HeartbeatAssumption DEF MaxMail
  <2>2. /\ remote' \in [Socks -> {"new", "up", "cut", "closed"}]
        /\ thread' \in [Socks -> Socks \cup {Recv, Ended}]
        /\ alarm' \in [Socks -> 0..HEARTBEAT_INTERVAL] /\ mail' \in [Socks -> 0..MaxMail]
    BY <1>1, <2>1 DEF GiveUp, TypeOK
  <2>3. peer_head' \in Socks \cup {NoSock} /\ Listed' \subseteq Socks
    BY <1>1, <1>3 DEF TypeOK
  <2>4. check' \in 0..HEARTBEAT_INTERVAL /\ troubled' \subseteq Socks
    BY <1>1 DEF GiveUp, TypeOK
  <2> QED
    BY <1>3, <2>2, <2>3, <2>4 DEF TypeOK, Deadline, MaxMail
<1>7. ASSUME NEW t \in Socks, t # q PROVE Same(t)
  BY <1>1, <1>3, <1>4, <1>5, <1>7 DEF GiveUp, TypeOK, Same
<1>8. q \in troubled' /\ remote'[q] # "new"
  BY <1>1 DEF GiveUp, TypeOK, Alive, Punctual
<1>9. NewPeers' /\ Alive'
  BY <1>1, <1>7, <1>8, FrameLemma DEF GiveUp
<1>10. Tail'
  BY <1>1, <1>3, <1>4 DEF Tail, GiveUp, Deadline
<1> QED
  BY <1>3, <1>6, <1>9, <1>10 DEF IInv

\* The check: what it takes out is in trouble, and what it leaves is as fresh as the
\* timeout wants it.
LEMMA CheckLemma ==
  ASSUME IInv, Check
  PROVE  IInv'
<1>1. TypeOK /\ HeadListed /\ NewPeers /\ Alive /\ Tail
  BY DEF IInv
<1>2. Delete(Overdue) /\ check' = HEARTBEAT_INTERVAL
      /\ UNCHANGED <<remote, alarm, mail, thread, troubled>>
  BY DEF Check, peers
<1>3. /\ peer_head' = peer_head /\ freed' \in BOOLEAN
      /\ Listed' \subseteq Listed /\ HeadListed'
      /\ age' \in [Listed' -> 0..(Deadline + 1)]
      /\ closed' \subseteq Socks
  BY <1>1, <1>2, DeleteLemma
<1>4. \A t \in Listed' : age'[t] = age[t] /\ (t \in Overdue => t = peer_head)
  BY <1>1, <1>2, DeleteLemma
<1>5. \A t \in Socks : t \notin Overdue => /\ t \in Listed => t \in Listed'
                                           /\ t \notin closed => t \notin closed'
  BY <1>1, <1>2, DeleteLemma
<1>6. TypeOK'
  <2>1. check' \in 0..HEARTBEAT_INTERVAL
    BY <1>2, HeartbeatAssumption
  <2>2. peer_head' \in Socks \cup {NoSock} /\ Listed' \subseteq Socks
    BY <1>1, <1>3 DEF TypeOK
  <2> QED
    BY <1>1, <1>2, <1>3, <2>1, <2>2 DEF TypeOK, Deadline, MaxMail
<1>7. Overdue \subseteq troubled
  BY <1>1, PunctualLemma DEF LivePeersKept
<1>8. ASSUME NEW t \in Socks
      PROVE  Same(t) \/ (t \in troubled' /\ remote'[t] # "new")
  <2>1. CASE t \in Overdue
    BY <1>1, <1>2, <1>7, <2>1 DEF Overdue, NewPeers
  <2>2. CASE t \notin Overdue
    BY <1>2, <1>3, <1>4, <1>5, <2>2 DEF Same
  <2> QED
    BY <2>1, <2>2
<1>9. NewPeers' /\ Alive'
  BY <1>1, <1>2, <1>8, FrameLemma
<1>10. Tail'
  <2> SUFFICES ASSUME NEW t \in Listed' \ {peer_head'}
               PROVE  age'[t] + HEARTBEAT_INTERVAL <= Deadline
    BY <1>2 DEF Tail, Deadline
  <2>1. t \in Listed /\ t \notin Overdue /\ age'[t] = age[t]
    BY <1>3, <1>4
  <2>2. age[t] \in Nat
    BY <1>1, <2>1, HeartbeatAssumption DEF TypeOK, Deadline
  <2>3. age[t] <= HEARTBEAT_TIMEOUT
    BY <2>1, <2>2, HeartbeatAssumption DEF Overdue
  <2> QED
    BY <2>1, <2>2, <2>3, HeartbeatAssumption DEF Deadline
<1> QED
  BY <1>3, <1>6, <1>9, <1>10 DEF IInv

\* A tick is within the delay of every peer that is read.
LEMMA TickLemma ==
  ASSUME IInv, Tick
  PROVE  IInv'
<1>1. TypeOK /\ HeadListed /\ NewPeers /\ Alive /\ Tail
  BY DEF IInv
<1>2. /\ UNCHANGED <<peer_head, freed, remote, mail, thread, closed, troubled>>
      /\ check > 0 /\ check' = check - 1
  BY DEF Tick
<1>3. Listed' = Listed
  BY DEF Tick, Listed
<1>4. \A t \in Listed : age'[t] = IF age[t] > Deadline THEN age[t] ELSE age[t] + 1
  BY DEF Tick
<1>5. /\ Deadline \in Nat /\ HEARTBEAT_INTERVAL \in Nat
      /\ check \in Nat /\ check <= HEARTBEAT_INTERVAL
      /\ \A t \in Listed : age[t] \in Nat /\ age[t] <= Deadline + 1
      /\ \A t \in Socks : alarm[t] \in Nat /\ alarm[t] <= HEARTBEAT_INTERVAL
  BY <1>1, HeartbeatAssumption DEF TypeOK, Deadline
<1>6. \A t \in Socks : alarm'[t] = IF remote[t] \in {"up", "cut"} THEN alarm[t] - 1 ELSE alarm[t]
  BY DEF Tick
<1>7. TypeOK'
  <2>1. ASSUME NEW t \in Listed
        PROVE  (IF age[t] > Deadline THEN age[t] ELSE age[t] + 1) \in 0..(Deadline + 1)
    <3> DEFINE a == age[t]
               d == Deadline
    <3>1. a \in Nat /\ a <= d + 1 /\ d \in Nat
      BY <1>5
    <3> HIDE DEF a, d
    <3>2. (IF a > d THEN a ELSE a + 1) \in 0..(d + 1)
      BY <3>1
    <3> QED
      BY <3>2 DEF a, d
  <2>2. age' \in [Listed' -> 0..(Deadline + 1)]
    BY <1>3, <2>1 DEF Tick
  <2>3. ASSUME NEW t \in Socks
        PROVE  (IF remote[t] \in {"up", "cut"} THEN alarm[t] - 1 ELSE alarm[t])
                 \in 0..HEARTBEAT_INTERVAL
    BY <1>5 DEF Tick
  <2>4. alarm' \in [Socks -> 0..HEARTBEAT_INTERVAL]
    BY <2>3 DEF Tick
  <2>5. check' \in 0..HEARTBEAT_INTERVAL
    BY <1>2, <1>5
  <2> QED
    BY <1>1, <1>2, <1>3, <2>2, <2>4, <2>5 DEF TypeOK, Deadline, MaxMail
<1>8. ASSUME NEW t \in Socks
      PROVE  Same(t) \/ Punctual(t)' \/ (t \in troubled' /\ remote'[t] # "new")
  <2>1. CASE remote[t] = "new"
    <3>1. t \notin Listed
      BY <1>1, <2>1 DEF NewPeers
    <3> QED
      BY <1>2, <1>3, <1>6, <2>1, <3>1 DEF Same
  <2>2. CASE remote[t] # "new" /\ t \in troubled
    BY <1>2, <2>2
  <2>3. CASE remote[t] # "new" /\ t \notin troubled
    <3>1. Punctual(t)
      BY <1>1, <2>3 DEF Alive
    <3> DEFINE m == mail[t]
               P == m * HEARTBEAT_INTERVAL
               Q == (m - 1) * HEARTBEAT_INTERVAL
               a == alarm[t]
    <3>2. m \in Nat
      BY <1>1, HeartbeatAssumption DEF TypeOK, MaxMail
    <3>3. P \in Nat /\ Q = P - HEARTBEAT_INTERVAL
      BY <3>2, Products
    <3>4. a \in Nat /\ a <= HEARTBEAT_INTERVAL /\ a > 0 /\ alarm'[t] = a - 1
      BY <1>5, <1>6, <3>1 DEF Punctual, Tick
    <3>5. m > 0 => (HEARTBEAT_INTERVAL - a) + Q < MaxDelay
      BY <3>1 DEF Punctual, Tick, Reading, Waiting
    <3>6. Waiting(t)' = (HEARTBEAT_INTERVAL - alarm'[t]) + Q
      BY <1>2 DEF Waiting
    <3>7. mail'[t] = m /\ mail'[t] * HEARTBEAT_INTERVAL = P
      BY <1>2
    <3>8. age[t] <= (HEARTBEAT_INTERVAL - a) + P
      BY <3>1 DEF Punctual
    <3>9. age[t] \in Nat /\ age'[t] <= age[t] + 1
      BY <1>4, <1>5, <3>1 DEF Punctual
    <3>10. age'[t] \in Nat
      BY <1>4, <1>5, <3>1 DEF Punctual
    <3> HIDE DEF m, P, Q, a
    <3>11. m > 0 => Waiting(t)' <= MaxDelay
      BY <1>5, <3>3, <3>4, <3>5, <3>6, HeartbeatAssumption
    <3>12. age'[t] <= (HEARTBEAT_INTERVAL - (a - 1)) + P
      BY <1>5, <3>3, <3>4, <3>8, <3>9, <3>10
    <3>13. age'[t] <= (HEARTBEAT_INTERVAL - alarm'[t]) + mail'[t] * HEARTBEAT_INTERVAL
      BY <3>4, <3>7, <3>12
    <3> QED
      BY <1>2, <1>3, <3>1, <3>7, <3>11, <3>13 DEF Punctual
  <2> QED
    BY <2>1, <2>2, <2>3
<1>9. NewPeers' /\ Alive'
  BY <1>1, <1>2, <1>8, FrameLemma
<1>10. Tail'
  <2> SUFFICES ASSUME NEW t \in Listed \ {peer_head} PROVE age'[t] + (check - 1) <= Deadline
    BY <1>2, <1>3 DEF Tail, Deadline
  <2>1. age[t] + check <= Deadline
    BY <1>1 DEF Tail
  <2>2. age'[t] = age[t] + 1 /\ age[t] \in Nat
    BY <1>2, <1>4, <1>5, <2>1
  <2> QED
    BY <1>5, <2>1, <2>2
<1> QED
  BY <1>1, <1>2, <1>3, <1>7, <1>9, <1>10 DEF IInv, HeadListed

-----------------------------------------------------------------------------
(* Theorems.                                                               *)

\* The clocks that run up stay within those that run down, in every reachable state.
THEOREM Invariance == Spec => []IInv
<1>1. Init => IInv
  BY InitLemma
<1>2. IInv /\ [Next]_vars => IInv'
  <2> SUFFICES ASSUME IInv, [Next]_vars PROVE IInv'
    OBVIOUS
  <2>1. CASE \E s \in Socks : Connect(s)
    BY <2>1, ConnectLemma
  <2>2. CASE \E s \in Socks : KeepAlive(s)
    BY <2>2, KeepAliveLemma
  <2>3. CASE \E s \in Socks : HeardPeer(s)
    BY <2>3, HeardPeerLemma
  <2>4. CASE \E s \in Socks :
               \/ Cut(s) \/ Heal(s) \/ SeesEnd(s) \/ Woken(s) \/ Unblock(s)
               \/ \E q \in Socks : Block(s, q)
    BY <2>4, TroubleLemma
  <2>5. CASE \E q \in Socks : GiveUp(q)
    BY <2>5, GiveUpLemma
  <2>6. CASE Check
    BY <2>6, CheckLemma
  <2>7. CASE Tick
    BY <2>7, TickLemma
  <2>8. CASE UNCHANGED vars
    BY <2>8 DEF vars, peers, IInv, TypeOK, HeadListed, NewPeers, Alive, Punctual, Waiting,
                Tail, Listed, Deadline, MaxMail
  <2> QED
    BY <2>1, <2>2, <2>3, <2>4, <2>5, <2>6, <2>7, <2>8 DEF Next
<1> QED
  BY <1>1, <1>2, PTL DEF Spec

\* However late a heartbeat may be within the room that the timeout leaves, no peer
\* is expired, nor overdue, that was never cut off and whose handshake thread was
\* never blocked in a broadcast.
THEOREM PunctualPeersStay == Spec => []LivePeersKept
<1>1. IInv => LivePeersKept
  BY PunctualLemma DEF IInv
<1> QED
  BY <1>1, Invariance, PTL

\* However the checks fall, and whatever other peers are expired or block a broadcast,
\* a silent peer behind the head is off the list in time.
THEOREM SilentPeersGo == Spec => []FoundInTime
<1>1. IInv => FoundInTime
  <2> SUFFICES ASSUME IInv, NEW s \in Listed \ {peer_head} PROVE age[s] <= Deadline
    BY DEF FoundInTime
  <2>1. age[s] + check <= Deadline
    BY DEF IInv, Tail
  <2>2. age[s] \in Nat /\ check \in Nat /\ Deadline \in Nat
    BY HeartbeatAssumption DEF IInv, TypeOK, Deadline
  <2> QED
    BY <2>1, <2>2
<1> QED
  BY <1>1, Invariance, PTL
=============================================================================
