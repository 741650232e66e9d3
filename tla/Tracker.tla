------------------------------- MODULE Tracker -------------------------------
(***************************************************************************)
(* The tracker (tracker/tracker.c): the accept loop, one handshake thread  *)
(* per connection, the heartbeat thread, the list of peers and the file    *)
(* table, in an environment of peers that connect, announce their files,   *)
(* stop, or fall silent.                                                   *)
(*                                                                         *)
(* A step is one turn of a thread: a packet (for FILE_UPDATE, a complete   *)
(* announced table) received and handled, one peer expired, one connection *)
(* accepted.  Two things that C leaves undefined are kept as choices: what *)
(* becomes of the head of the list after delete_peer has freed it (heap),  *)
(* and whether a send to a peer that is gone succeeds, fails or raises     *)
(* SIGPIPE, for which the tracker has no handler.                          *)
(***************************************************************************)
EXTENDS FileTable, FiniteSets

CONSTANTS
  Socks,             \* socket numbers the kernel hands out
  NoIp,              \* no address: an empty peer_ip, or one overwritten by free
  Announcements,     \* the tables that peers may announce
  HEARTBEAT_TIMEOUT  \* how many ticks of silence a peer is granted

ASSUME SocksAssumption == Socks \subseteq Nat
ASSUME NoIpAssumption == NoIp \notin Ips
ASSUME AnnouncementsAssumption == Announcements \subseteq PeerTable
ASSUME NoVersionAssumption == NoFile \notin Nat \X Nat
ASSUME TimeoutAssumption == HEARTBEAT_TIMEOUT \in Nat

VARIABLES
  ft,         \* the tracker's file table
  peer_head,  \* the list of peers, first to last
  heap,       \* the head cell: "sound", "dangling" (freed), "reused" by calloc,
              \* or "corrupt" (freed twice, and nobody noticed)
  open,       \* sockets that the tracker has not closed
  thread,     \* sockets with a running handshake thread
  heard,      \* handshake threads that have received a packet
  ipOf,       \* the address of the peer at the other end
  remote,     \* that peer is "up", has "closed", or is "silent" for good
  behind,     \* sockets of peers that are up and missed a new version
  alive       \* the tracker process runs

conns == <<thread, heard, ipOf, remote>>
vars == <<ft, peer_head, heap, open, conns, behind, alive>>

\* age is the number of ticks since last_time_stamp, up to "too long ago".
Ages == 0..(HEARTBEAT_TIMEOUT + 1)
TrackerPeer == [sockfd : Socks, ip : Ips \cup {NoIp}, age : Ages]

Heaps == {"sound", "dangling", "reused", "corrupt"}

\* Each variable has a value of its type.
TypeOK ==
  /\ ft \in TrackerTable
  /\ peer_head \in Seq(TrackerPeer)
  /\ heap \in Heaps
  /\ open \subseteq Socks
  /\ thread \subseteq Socks
  /\ heard \subseteq thread
  /\ ipOf \in [Socks -> Ips \cup {NoIp}]
  /\ remote \in [Socks -> {"up", "closed", "silent"}]
  /\ behind \subseteq Socks
  /\ alive \in BOOLEAN

Init ==
  /\ ft = [n \in Names |-> NoFile]
  /\ peer_head = <<>>
  /\ heap = "sound"
  /\ open = {} /\ thread = {} /\ heard = {} /\ behind = {}
  /\ ipOf = [s \in Socks |-> NoIp]
  /\ remote = [s \in Socks |-> "closed"]
  /\ alive = TRUE

-----------------------------------------------------------------------------
(* The list of peers.                                                      *)

Listed == {peer_head[i].sockfd : i \in 1..Len(peer_head)}

\* Positions of socket s in the list, the head excepted.
TailPositions(s) == {i \in 2..Len(peer_head) : peer_head[i].sockfd = s}

Without(list, i) ==
  [j \in 1..(Len(list) - 1) |-> IF j < i THEN list[j] ELSE list[j + 1]]

\* Freeing the head a second time: the allocator aborts the process, or, if the
\* cell lies in the cache of another thread, does not notice.
FreeTwice ==
  \/ /\ alive' = FALSE
     /\ UNCHANGED <<peer_head, heap>>
  \/ /\ heap' = "corrupt"
     /\ peer_head' = [peer_head EXCEPT ![1].ip = NoIp]
     /\ UNCHANGED alive

\* The head is freed but stays where peer_head points, its address overwritten.
\* Nothing is known of the allocator after a second free.
FreeHead ==
  \/ heap \in {"dangling", "corrupt"} /\ FreeTwice
  \/ /\ heap \in {"sound", "reused"}
     /\ heap' = "dangling"
     /\ peer_head' = [peer_head EXCEPT ![1].ip = NoIp]
     /\ UNCHANGED alive

\* Mutant: the cell is unlinked but its socket is left open.
Unlink_Leak(s) ==
  /\ IF TailPositions(s) # {}
     THEN peer_head' = Without(peer_head, CHOOSE i \in TailPositions(s) : TRUE)
     ELSE UNCHANGED peer_head
  /\ UNCHANGED <<heap, open, alive>>

\* Mutant: the socket is closed but its cell stays in the list.
Unlink_KeepCell(s) ==
  /\ open' = IF TailPositions(s) # {} THEN open \ {s} ELSE open
  /\ UNCHANGED <<peer_head, heap, alive>>

\* The second half of delete_peer.  The loop runs while temp->next # NULL, so
\* a peer that is alone in the list stays there, its socket open.
Unlink(s) ==
  LET alone == Len(peer_head) < 2
      first == peer_head # <<>> /\ peer_head[1].sockfd = s
  IN  \/ /\ ~alone /\ first
         /\ open' = open \ {s}
         /\ FreeHead
      \/ /\ ~alone /\ ~first
         /\ \E i \in TailPositions(s) :
              /\ \A j \in TailPositions(s) : i <= j
              /\ peer_head' = Without(peer_head, i)
         /\ open' = open \ {s}
         /\ UNCHANGED <<heap, alive>>
      \/ /\ alone \/ (~first /\ TailPositions(s) = {})
         /\ UNCHANGED <<peer_head, heap, open, alive>>

\* Mutant: the file table is left alone.
DeletePeer_KeepHolder(table, s, ip) == ft' = table /\ Unlink(s)

\* delete_peer.
DeletePeer(table, s, ip) == ft' = ForgetPeer(table, ip) /\ Unlink(s)

\* Mutant: last_time_stamp is left as calloc made it, long ago.
AddPeer_NoStamp(s, ip) ==
  /\ peer_head' = Append(peer_head, [sockfd |-> s, ip |-> ip,
                                     age |-> HEARTBEAT_TIMEOUT + 2])
  /\ UNCHANGED heap

\* add_peer.  The scan for a duplicate leaves out the last cell.  calloc may
\* return the freed head, which then becomes first and last of the list.
AddPeer(s, ip) ==
  LET cell == [sockfd |-> s, ip |-> ip, age |-> 0]
  IN  IF \E i \in 1..(Len(peer_head) - 1) : peer_head[i].sockfd = s
      THEN UNCHANGED <<peer_head, heap>>
      ELSE \/ /\ peer_head' = Append(peer_head, cell)
              /\ UNCHANGED heap
           \/ /\ heap \in {"dangling", "corrupt"}
              /\ peer_head' = <<cell>>
              /\ heap' = IF heap = "dangling" THEN "reused" ELSE heap

\* heard_peer.
HeardPeer(s) ==
  peer_head' = [i \in 1..Len(peer_head) |->
                  IF /\ peer_head[i].sockfd = s
                     /\ \A j \in 1..(i - 1) : peer_head[j].sockfd # s
                  THEN [peer_head[i] EXCEPT !.age = 0]
                  ELSE peer_head[i]]

-----------------------------------------------------------------------------
(* tracker_sendpkt on socket s: what send may return.  A peer that is gone *)
(* takes packets until its reset arrives; then send fails, and the next    *)
(* one raises SIGPIPE.                                                     *)

SendOk(s) == s \in open
SendFails(s) == s \notin open \/ remote[s] # "up"
SendKills(s) == s \in open /\ remote[s] # "up"

Versions(table) ==
  [n \in Names |-> IF table[n] = NoFile
                   THEN NoFile
                   ELSE <<table[n].timestamp, table[n].size>>]

\* broadcast_filetable of the new table: the first k peers get it, and the
\* next one, if there is one, ends the broadcast.
Broadcast(table) ==
  \E k \in 0..Len(peer_head) :
    /\ \A i \in 1..k : SendOk(peer_head[i].sockfd)
    /\ behind' = (behind \cup IF Versions(table) = Versions(ft)
                              THEN {} ELSE {s \in Listed : remote[s] = "up"})
                 \ {peer_head[i].sockfd : i \in 1..k}
    /\ \/ /\ k = Len(peer_head)
          /\ ft' = table
          /\ UNCHANGED <<peer_head, heap, open, alive>>
       \/ /\ k < Len(peer_head)
          /\ SendFails(peer_head[k + 1].sockfd)
          /\ DeletePeer(table, peer_head[k + 1].sockfd, peer_head[k + 1].ip)
       \/ /\ k < Len(peer_head)
          /\ SendKills(peer_head[k + 1].sockfd)
          /\ ft' = table
          /\ alive' = FALSE
          /\ UNCHANGED <<peer_head, heap, open>>

-----------------------------------------------------------------------------
(* The accept loop of main.                                                *)

NoLivePeerAt(i) == \A t \in thread : ipOf[t] = i => remote[t] # "up"

\* A peer at address i connects and gets the lowest free number.  A thread
\* that still runs for a closed socket of that number waits for ever for a
\* silent peer; for any other such thread the number is not taken yet.
Accept(s, i) ==
  /\ alive
  /\ s \notin open
  /\ \A t \in Socks : t < s => t \in open
  /\ s \in thread => remote[s] = "silent"
  /\ NoLivePeerAt(i)
  /\ open' = open \cup {s}
  /\ AddPeer(s, i)
  /\ thread' = thread \cup {s}
  /\ heard' = heard \ {s}
  /\ ipOf' = [ipOf EXCEPT ![s] = i]
  /\ remote' = [remote EXCEPT ![s] = "up"]
  /\ behind' = behind \ {s}
  /\ UNCHANGED <<ft, alive>>

-----------------------------------------------------------------------------
(* The handshake thread of socket s.                                       *)

\* What the peer sent before it closed can still be received.
CanReceive(s) ==
  /\ alive
  /\ s \in thread \cap open
  /\ remote[s] # "silent"
  /\ heard' = heard \cup {s}
  /\ UNCHANGED <<thread, ipOf, remote>>

\* REGISTER is answered with the file table.
RecvRegister(s) ==
  /\ CanReceive(s)
  /\ \/ /\ SendOk(s)
        /\ behind' = behind \ {s}
        /\ UNCHANGED <<ft, peer_head, heap, open, alive>>
     \/ /\ SendFails(s)
        /\ DeletePeer(ft, s, ipOf[s])
        /\ UNCHANGED behind
     \/ /\ SendKills(s)
        /\ alive' = FALSE
        /\ UNCHANGED <<ft, peer_head, heap, open, behind>>

\* The last FILE_UPDATE packet of the table peer_ft: merge and broadcast.
RecvUpdate(s, peer_ft) ==
  /\ CanReceive(s)
  /\ Broadcast(MergeTable(ft, peer_ft, ipOf[s]))

\* KEEP_ALIVE.
RecvKeepAlive(s) ==
  /\ CanReceive(s)
  /\ HeardPeer(s)
  /\ UNCHANGED <<ft, heap, open, behind, alive>>

\* tracker_recvpkt fails: the peer has closed, or the socket was closed by
\* another thread and the peer's next byte has woken this one.  The address
\* deleted is the one in the last packet received, if there was one.
HandshakeExit(s) ==
  /\ alive
  /\ s \in thread
  /\ remote[s] = "closed" \/ (s \notin open /\ remote[s] = "up")
  /\ DeletePeer(ft, s, IF s \in heard THEN ipOf[s] ELSE NoIp)
  /\ thread' = thread \ {s}
  /\ heard' = heard \ {s}
  /\ ipOf' = [ipOf EXCEPT ![s] = NoIp]
  /\ remote' = [remote EXCEPT ![s] = "closed"]
  /\ behind' = behind \ {s}

-----------------------------------------------------------------------------
(* The heartbeat thread and the clock.                                     *)

\* Mutant: the peer is taken off the list but is still offered as a holder.
HeartbeatExpire_KeepHolder(i) ==
  /\ alive
  /\ i \in 1..Len(peer_head)
  /\ peer_head[i].age > HEARTBEAT_TIMEOUT
  /\ DeletePeer(ft, peer_head[i].sockfd, NoIp)
  /\ UNCHANGED <<conns, behind>>

\* One peer found by the traversal to be silent for too long.
HeartbeatExpire(i) ==
  /\ alive
  /\ i \in 1..Len(peer_head)
  /\ peer_head[i].age > HEARTBEAT_TIMEOUT
  /\ DeletePeer(ft, peer_head[i].sockfd, peer_head[i].ip)
  /\ UNCHANGED <<conns, behind>>

Tick ==
  /\ alive
  /\ peer_head' =
       [i \in 1..Len(peer_head) |->
          [peer_head[i] EXCEPT
             !.age = IF @ > HEARTBEAT_TIMEOUT THEN @ ELSE @ + 1]]
  /\ UNCHANGED <<ft, heap, open, conns, behind, alive>>

-----------------------------------------------------------------------------
(* The peers: a process ends and its socket closes, or its host is lost.   *)

PeerGoes(s, how) ==
  /\ alive
  /\ s \in thread
  /\ remote[s] = "up"
  /\ remote' = [remote EXCEPT ![s] = how]
  /\ behind' = behind \ {s}
  /\ UNCHANGED <<ft, peer_head, heap, open, thread, heard, ipOf, alive>>

PeerCloses(s) == PeerGoes(s, "closed")
PeerSilent(s) == PeerGoes(s, "silent")

Next ==
  \/ \E s \in Socks : \/ \E i \in Ips : Accept(s, i)
                      \/ RecvRegister(s)
                      \/ \E peer_ft \in Announcements : RecvUpdate(s, peer_ft)
                      \/ RecvKeepAlive(s)
                      \/ HandshakeExit(s)
                      \/ PeerCloses(s)
                      \/ PeerSilent(s)
  \/ \E i \in 1..Len(peer_head) : HeartbeatExpire(i)
  \/ Tick

Spec == Init /\ [][Next]_vars

\* The threads of the tracker run and time passes; no peer has to do anything.
Fairness ==
  /\ \A s \in Socks : WF_vars(HandshakeExit(s))
  /\ \A i \in 1..Cardinality(Socks) : WF_vars(HeartbeatExpire(i))
  /\ WF_vars(Tick)

FairSpec == Spec /\ Fairness

-----------------------------------------------------------------------------
(* Safety.                                                                 *)

\* A holder list fits its array and names no peer twice, whatever order the
\* announcements, the expiries and the disconnections come in
\* (update_filetable, delete_peer).
HoldersProper ==
  \A n \in Names : ft[n] # NoFile =>
    LET list == ft[n].newpeerip
    IN  /\ Len(list) <= MAX_PEER_NUM
        /\ \A i, j \in 1..Len(list) : list[i] = list[j] => i = j

\* The tracker runs, and has not gone on with a cell that was freed twice.
Intact == alive /\ heap # "corrupt"

\* The tracker sends downloaders only to addresses that it still has a
\* connection to: however sessions of one peer overlap, and whoever deletes the
\* peer, its thread, a failed broadcast or the heartbeat, no address outlives
\* the last open session that announced it, as long as the head of the list has
\* not been freed twice.
HoldersOnline ==
  Intact => \A n \in Names : ft[n] # NoFile =>
    \A ip \in Holders(ft[n].newpeerip) : \E s \in heard \cap open : ipOf[s] = ip

\* Until the head cell is freed, the list of peers and the sockets the tracker
\* holds open are the same set, one cell for each: no broadcast goes to a
\* closed socket and no connection is left out of broadcasts (add_peer,
\* delete_peer).
SocketsMatchPeerList ==
  heap = "sound" =>
    /\ open = Listed
    /\ \A i, j \in 1..Len(peer_head) :
         peer_head[i].sockfd = peer_head[j].sockfd => i = j

\* No socket is listed twice, unless the freed head is one of the two: the scan of
\* add_peer leaves out the last cell, but what it adds is a number that accept has
\* just given out, and delete_peer closes no number whose cell it leaves behind but
\* the head's.
ListedOnce ==
  Intact => \A i, j \in 1..Len(peer_head) :
    i < j /\ peer_head[i].sockfd = peer_head[j].sockfd => i = 1 /\ heap = "dangling"

\* No step replaces a version of a file by an older one, nor forgets a file
\* (update_filetable: UPDATE_FILE_VERSION).
VersionsNeverRegress ==
  [][\A n \in Names : ft[n] # NoFile =>
       /\ ft'[n] # NoFile
       /\ SameVersion(ft'[n], ft[n]) \/ Newer(ft'[n], ft[n])]_vars

\* When a file gets a new version, the list of its holders starts again from
\* the peer that announced it (or is empty, if that peer was deleted in the
\* same step): no holder of the old version is offered for the new one.
NewVersionSoleHolder ==
  [][\A n \in Names :
       /\ ft'[n] # NoFile
       /\ ft[n] # NoFile => ~SameVersion(ft'[n], ft[n])
       => Len(ft'[n].newpeerip) <= 1]_vars

-----------------------------------------------------------------------------
(* Liveness.                                                               *)

Offered(ip) ==
  \E n \in Names : ft[n] # NoFile /\ ip \in Holders(ft[n].newpeerip)

\* An address at which no peer is up any more, whether it closed or fell
\* silent, is eventually offered to nobody, unless a peer comes up there again,
\* the tracker dies, or the list of peers was damaged (handshake, heartbeat).
GoneHoldersDelisted ==
  \A ip \in Ips :
    (alive /\ NoLivePeerAt(ip)) ~>
      (~Offered(ip) \/ ~NoLivePeerAt(ip) \/ ~alive \/ heap # "sound")

-----------------------------------------------------------------------------
(* What all this is for (module Registry).                                 *)

\* The addresses of connections that are open and have been heard.
Online == {ipOf[s] : s \in heard \cap open}

Promise == INSTANCE Registry WITH
  version <- [n \in Names |-> IF ft[n] = NoFile THEN NoFile
                              ELSE <<ft[n].timestamp, ft[n].size>>],
  holders <- [n \in Names |-> IF ft[n] = NoFile THEN {} ELSE Holders(ft[n].newpeerip)],
  online <- Online,
  running <- Intact,
  Capacity <- MAX_PEER_NUM

\* Threads, sockets, list and freed head together behave as the registry: each
\* packet and each failure is one announcement or one departure of one address, and
\* the newest versions and their holders are what those amount to.  A tracker that
\* has freed the head twice does not run any more in the sense of Registry: only
\* its versions are accounted for.
ImplementsRegistry == Promise!Spec

-----------------------------------------------------------------------------
(* What comments of the code say, and the code does not do.                *)

\* tracker.c:110, "send tracker filetable to all peer's in peers_list": new
\* versions are sent to every peer of the list that is up.
BroadcastReachesAll == alive => behind = {}
=============================================================================
