---------------------------- MODULE TrackerProofs ----------------------------
(***************************************************************************)
(* Theorems about the tracker, for all sets of sockets, addresses, names   *)
(* and announcements, and all values of the two limits.                    *)
(*                                                                         *)
(* HoldersOnline is not inductive: that deleting the peer of a cell takes  *)
(* the right address off the holder lists depends on what the cells of the *)
(* list know, and that in turn on which cells may be stale.  The cell      *)
(* freed by delete_peer and still in the list is the one exception.        *)
(***************************************************************************)
EXTENDS Tracker, FiniteSetTheorems, TLAPS

-----------------------------------------------------------------------------
(* What the operations of FileTable preserve, for every list of holders    *)
(* and every table.                                                        *)

\* A list of holders that fits its array and names no peer twice.
ProperList(list) ==
  /\ Len(list) <= MAX_PEER_NUM
  /\ \A i, j \in 1..Len(list) : list[i] = list[j] => i = j

\* A node whose holder list, if there is a node, is proper.
ProperNode(node) == node # NoFile => ProperList(node.newpeerip)

NodeHolders(node) == IF node = NoFile THEN {} ELSE Holders(node.newpeerip)

-----------------------------------------------------------------------------
(* Lists of holders.                                                       *)

\* Enlist adds the given peer if there is room, and keeps the list proper.
LEMMA EnlistLemma ==
  ASSUME NEW list \in Seq(Ips), NEW ip \in Ips
  PROVE  /\ Enlist(list, ip) \in Seq(Ips)
         /\ Holders(Enlist(list, ip)) =
              IF Len(list) < MAX_PEER_NUM THEN Holders(list) \cup {ip} ELSE Holders(list)
         /\ ProperList(list) => ProperList(Enlist(list, ip))
<1>1. CASE ip \in Holders(list) \/ Len(list) >= MAX_PEER_NUM
  <2>1. Enlist(list, ip) = list
    BY <1>1 DEF Enlist
  <2>2. Len(list) < MAX_PEER_NUM => ip \in Holders(list)
    BY <1>1, MaxPeerNumAssumption
  <2> QED
    BY <2>1, <2>2
<1>2. CASE ~(ip \in Holders(list) \/ Len(list) >= MAX_PEER_NUM)
  <2> DEFINE new == Append(list, ip)
  <2>1. Enlist(list, ip) = new
    BY <1>2 DEF Enlist
  <2>2. /\ new \in Seq(Ips)
        /\ Len(new) = Len(list) + 1
        /\ \A i \in 1..Len(list) : new[i] = list[i]
        /\ new[Len(new)] = ip
    OBVIOUS
  <2>3. Holders(new) = Holders(list) \cup {ip} /\ Len(list) < MAX_PEER_NUM
    BY <1>2, <2>2, MaxPeerNumAssumption DEF Holders
  <2>4. ASSUME ProperList(list) PROVE ProperList(new)
    <3>1. Len(new) <= MAX_PEER_NUM
      BY <1>2, <2>2, MaxPeerNumAssumption
    <3>2. \A i \in 1..Len(list) : list[i] # ip
      BY <1>2 DEF Holders
    <3> QED
      BY <2>2, <2>4, <3>1, <3>2 DEF ProperList
  <2> QED
    BY <2>1, <2>2, <2>3, <2>4
<1> QED
  BY <1>1, <1>2

\* Delist removes no holder but the given peer, removes that one from a list
\* that names it once, and keeps a proper list proper.
LEMMA DelistLemma ==
  ASSUME NEW list \in Seq(Ips), NEW ip
  PROVE  /\ Delist(list, ip) \in Seq(Ips)
         /\ Holders(Delist(list, ip)) \subseteq Holders(list)
         /\ Holders(list) \ {ip} \subseteq Holders(Delist(list, ip))
         /\ Len(Delist(list, ip)) <= Len(list)
         /\ ProperList(list) => /\ ProperList(Delist(list, ip))
                                /\ ip \notin Holders(Delist(list, ip))
<1>1. CASE ip \notin Holders(list)
  BY <1>1 DEF Delist
<1>2. CASE ip \in Holders(list)
  <2> DEFINE last == Len(list)
             index == CHOOSE i \in 1..last : list[i] = ip
             moved == [list EXCEPT ![index] = list[last]]
             new == SubSeq(moved, 1, last - 1)
  <2>1. Delist(list, ip) = new
    BY <1>2 DEF Delist
  <2>2. /\ last \in Nat \ {0}
        /\ index \in 1..last
        /\ list[index] = ip
    BY <1>2 DEF Holders
  <2> HIDE DEF index
  <2>3. /\ moved \in Seq(Ips)
        /\ Len(moved) = last
        /\ \A i \in 1..last :
             moved[i] = IF i = index THEN list[last] ELSE list[i]
    BY <2>2
  <2> HIDE DEF moved
  <2>4. /\ new \in Seq(Ips)
        /\ Len(new) = last - 1
        /\ \A i \in 1..(last - 1) : new[i] = moved[i]
    BY <2>2, <2>3
  <2> HIDE DEF new
  <2>5. \A i \in 1..(last - 1) :
          new[i] = IF i = index THEN list[last] ELSE list[i]
    BY <2>3, <2>4, <2>2
  <2>6. Holders(new) \subseteq Holders(list)
    BY <2>2, <2>4, <2>5 DEF Holders
  <2>7. ASSUME NEW i \in 1..last, list[i] # ip PROVE list[i] \in Holders(new)
    <3>1. CASE i = last
      <4>1. index \in 1..(last - 1) /\ new[index] = list[i]
        BY <2>2, <2>5, <2>7, <3>1
      <4> QED
        BY <2>4, <4>1 DEF Holders
    <3>2. CASE i # last
      <4>1. i \in 1..(last - 1) /\ new[i] = list[i]
        BY <2>2, <2>5, <2>7, <3>2
      <4> QED
        BY <2>4, <4>1 DEF Holders
    <3> QED
      BY <3>1, <3>2
  <2>8. Holders(list) \ {ip} \subseteq Holders(new)
    BY <2>7 DEF Holders
  <2>9. ASSUME ProperList(list)
        PROVE  ProperList(new) /\ ip \notin Holders(new)
    <3>1. Len(new) <= MAX_PEER_NUM
      BY <2>2, <2>4, <2>9, MaxPeerNumAssumption DEF ProperList
    <3>2. \A i, j \in 1..last : list[i] = list[j] => i = j
      BY <2>9 DEF ProperList
    <3>3. ASSUME NEW i \in 1..(last - 1), NEW j \in 1..(last - 1),
                 new[i] = new[j]
          PROVE  i = j
      BY <2>2, <2>5, <3>2, <3>3
    <3>4. ASSUME NEW i \in 1..(last - 1) PROVE new[i] # ip
      BY <2>2, <2>5, <3>2
    <3> QED
      BY <2>2, <2>4, <3>1, <3>3, <3>4 DEF ProperList, Holders
  <2>10. Len(new) <= Len(list)
    BY <2>2, <2>4
  <2> QED
    BY <2>1, <2>4, <2>6, <2>9, <2>10, <2>8
<1> QED
  BY <1>1, <1>2

-----------------------------------------------------------------------------
(* Tables.                                                                 *)

\* A merged table is a table; its nodes stay proper; each node's holders are
\* old holders and the announcing peer; no version is replaced by an older one;
\* a new version has one holder.
LEMMA MergeTableLemma ==
  ASSUME NEW table \in TrackerTable, NEW peer_ft \in PeerTable, NEW ip \in Ips
  PROVE  /\ MergeTable(table, peer_ft, ip) \in TrackerTable
         /\ \A n \in Names :
              LET new == MergeTable(table, peer_ft, ip)[n]
              IN  /\ ProperNode(table[n]) => ProperNode(new)
                  /\ NodeHolders(new) \subseteq NodeHolders(table[n]) \cup {ip}
                  /\ table[n] # NoFile =>
                       /\ new # NoFile
                       /\ SameVersion(new, table[n]) \/ Newer(new, table[n])
                  /\ /\ new # NoFile
                     /\ table[n] # NoFile => ~SameVersion(new, table[n])
                     => Len(new.newpeerip) <= 1
<1> DEFINE new(n) == MergeTable(table, peer_ft, ip)[n]
<1>1. ASSUME NEW n \in Names
      PROVE  /\ new(n) \in TrackerNode \cup {NoFile}
             /\ ProperNode(table[n]) => ProperNode(new(n))
             /\ NodeHolders(new(n)) \subseteq NodeHolders(table[n]) \cup {ip}
             /\ table[n] # NoFile =>
                  /\ new(n) # NoFile
                  /\ SameVersion(new(n), table[n]) \/ Newer(new(n), table[n])
             /\ /\ new(n) # NoFile
                /\ table[n] # NoFile => ~SameVersion(new(n), table[n])
                => Len(new(n).newpeerip) <= 1
  <2> DEFINE mine == table[n]
             node == peer_ft[n]
  <2>1. mine \in TrackerNode \cup {NoFile} /\ node \in PeerNode \cup {NoFile}
    BY DEF TrackerTable, PeerTable
  <2>2. new(n) = IF node = NoFile THEN mine ELSE MergeNode(mine, node, ip)
    BY DEF MergeTable
  <2>3. CASE node = NoFile
    BY <2>1, <2>2, <2>3 DEF SameVersion
  <2>4. CASE node # NoFile /\ (mine = NoFile \/ Newer(node, mine))
    <3>1. new(n) = FreshNode(node, ip)
      BY <2>2, <2>4 DEF MergeNode
    <3>2. <<ip>> \in Seq(Ips) /\ Len(<<ip>>) = 1 /\ <<ip>>[1] = ip
      OBVIOUS
    <3>3. /\ FreshNode(node, ip) \in TrackerNode
          /\ FreshNode(node, ip).newpeerip = <<ip>>
          /\ FreshNode(node, ip).timestamp = node.timestamp
          /\ FreshNode(node, ip).size = node.size
      BY <2>1, <2>4, <3>2 DEF FreshNode, TrackerNode, PeerNode
    <3>4. FreshNode(node, ip) # NoFile
      BY <3>3, NoFileAssumption
    <3>5. ProperNode(new(n))
      BY <3>1, <3>2, <3>3, MaxPeerNumAssumption DEF ProperNode, ProperList
    <3>6. NodeHolders(new(n)) \subseteq {ip}
      BY <3>1, <3>2, <3>3, <3>4 DEF NodeHolders, Holders
    <3>7. ASSUME mine # NoFile PROVE Newer(new(n), mine)
      BY <2>4, <3>1, <3>3, <3>7 DEF Newer
    <3> QED
      BY <3>1, <3>2, <3>3, <3>4, <3>5, <3>6, <3>7
  <2>5. CASE /\ node # NoFile /\ mine # NoFile
             /\ ~Newer(node, mine) /\ SameVersion(node, mine)
    <3>1. new(n) = [mine EXCEPT !.newpeerip = Enlist(@, ip)]
      BY <2>2, <2>5 DEF MergeNode
    <3>2. mine \in TrackerNode /\ mine.newpeerip \in Seq(Ips)
      BY <2>1, <2>5 DEF TrackerNode
    <3>3. Enlist(mine.newpeerip, ip) \in Seq(Ips)
      BY <3>2, EnlistLemma
    <3>4. /\ new(n) \in TrackerNode
          /\ new(n).newpeerip = Enlist(mine.newpeerip, ip)
          /\ new(n).timestamp = mine.timestamp
          /\ new(n).size = mine.size
      BY <3>1, <3>2, <3>3 DEF TrackerNode
    <3>5. new(n) # NoFile
      BY <3>4, NoFileAssumption
    <3> HIDE DEF new
    <3>6. NodeHolders(new(n)) \subseteq NodeHolders(mine) \cup {ip}
      BY <2>5, <3>2, <3>4, <3>5, EnlistLemma DEF NodeHolders
    <3>7. ProperNode(mine) => ProperNode(new(n))
      BY <2>5, <3>2, <3>4, EnlistLemma DEF ProperNode
    <3> QED
      BY <2>5, <3>4, <3>5, <3>6, <3>7 DEF SameVersion
  <2>6. CASE /\ node # NoFile /\ mine # NoFile
             /\ ~Newer(node, mine) /\ ~SameVersion(node, mine)
    BY <2>1, <2>2, <2>6 DEF MergeNode, SameVersion
  <2> QED
    BY <2>3, <2>4, <2>5, <2>6
<1>2. MergeTable(table, peer_ft, ip) = [n \in Names |-> new(n)]
  BY DEF MergeTable
<1>3. MergeTable(table, peer_ft, ip) \in TrackerTable
  BY <1>1, <1>2 DEF TrackerTable
<1> QED
  BY <1>1, <1>3

\* Forgetting a peer keeps versions, nodes and proper lists; it removes no other
\* holder, and removes that peer from every proper list.
LEMMA ForgetPeerLemma ==
  ASSUME NEW table \in TrackerTable, NEW ip
  PROVE  /\ ForgetPeer(table, ip) \in TrackerTable
         /\ \A n \in Names :
              LET new == ForgetPeer(table, ip)[n]
              IN  /\ new = NoFile <=> table[n] = NoFile
                  /\ NodeHolders(new) \subseteq NodeHolders(table[n])
                  /\ NodeHolders(table[n]) \ {ip} \subseteq NodeHolders(new)
                  /\ ProperNode(table[n]) =>
                       ProperNode(new) /\ ip \notin NodeHolders(new)
                  /\ table[n] # NoFile =>
                       /\ new.timestamp = table[n].timestamp
                       /\ new.size = table[n].size
                       /\ Len(new.newpeerip) <= Len(table[n].newpeerip)
<1> DEFINE new(n) == ForgetPeer(table, ip)[n]
<1>1. ASSUME NEW n \in Names
      PROVE  /\ new(n) \in TrackerNode \cup {NoFile}
             /\ new(n) = NoFile <=> table[n] = NoFile
             /\ NodeHolders(new(n)) \subseteq NodeHolders(table[n])
             /\ NodeHolders(table[n]) \ {ip} \subseteq NodeHolders(new(n))
             /\ ProperNode(table[n]) =>
                  ProperNode(new(n)) /\ ip \notin NodeHolders(new(n))
             /\ table[n] # NoFile =>
                  /\ new(n).timestamp = table[n].timestamp
                  /\ new(n).size = table[n].size
                  /\ Len(new(n).newpeerip) <= Len(table[n].newpeerip)
  <2> DEFINE mine == table[n]
  <2>1. mine \in TrackerNode \cup {NoFile}
    BY DEF TrackerTable
  <2>2. CASE mine = NoFile
    BY <2>2 DEF ForgetPeer, NodeHolders, ProperNode
  <2>3. CASE mine # NoFile
    <3>1. new(n) = [mine EXCEPT !.newpeerip = Delist(@, ip)]
      BY <2>3 DEF ForgetPeer
    <3>2. mine \in TrackerNode /\ mine.newpeerip \in Seq(Ips)
      BY <2>1, <2>3 DEF TrackerNode
    <3>3. Delist(mine.newpeerip, ip) \in Seq(Ips)
      BY <3>2, DelistLemma
    <3>4. /\ new(n) \in TrackerNode
          /\ new(n).newpeerip = Delist(mine.newpeerip, ip)
          /\ new(n).timestamp = mine.timestamp
          /\ new(n).size = mine.size
      BY <3>1, <3>2, <3>3 DEF TrackerNode
    <3>5. new(n) # NoFile
      BY <3>4, NoFileAssumption
    <3> HIDE DEF new
    <3>6. /\ NodeHolders(new(n)) \subseteq NodeHolders(mine)
          /\ NodeHolders(mine) \ {ip} \subseteq NodeHolders(new(n))
      BY <2>3, <3>2, <3>4, <3>5, DelistLemma DEF NodeHolders
    <3>7. ProperNode(mine) => ProperNode(new(n)) /\ ip \notin NodeHolders(new(n))
      BY <2>3, <3>2, <3>4, <3>5, DelistLemma DEF ProperNode, NodeHolders
    <3>8. Len(new(n).newpeerip) <= Len(mine.newpeerip)
      BY <3>2, <3>4, DelistLemma
    <3> QED
      BY <2>3, <3>4, <3>5, <3>6, <3>7, <3>8
  <2> QED
    BY <2>2, <2>3
<1>2. ForgetPeer(table, ip) = [n \in Names |-> new(n)]
  BY DEF ForgetPeer
<1>3. ForgetPeer(table, ip) \in TrackerTable
  BY <1>1, <1>2 DEF TrackerTable
<1> QED
  BY <1>1, <1>3

-----------------------------------------------------------------------------
(* The list of peers and the sockets.                                      *)

\* The cell at position i may be stale: it is the head, whose memory has been freed.
\* Once that has been freed twice, any cell may.
FreedHead(i) == heap = "corrupt" \/ (i = 1 /\ heap = "dangling")

\* Every other cell is for an open socket,
CellsOpen ==
  \A i \in 1..Len(peer_head) : peer_head[i].sockfd \in open \/ FreedHead(i)

\* has a socket of its own,
CellsDistinct ==
  \A i, j \in 1..Len(peer_head) :
    i < j /\ peer_head[i].sockfd = peer_head[j].sockfd => FreedHead(i)

\* and knows the address of the peer that a thread is serving there.
CellsKnowIp ==
  \A i \in 1..Len(peer_head) :
    peer_head[i].sockfd \in thread \cap open =>
      peer_head[i].ip = ipOf[peer_head[i].sockfd] \/ FreedHead(i)

CellsInv == CellsOpen /\ CellsDistinct /\ CellsKnowIp

\* A thread has a peer with an address.
IpKnown == \A s \in thread : ipOf[s] \in Ips

IInv ==
  /\ TypeOK
  /\ IpKnown
  /\ HoldersProper
  /\ HoldersOnline
  /\ SocketsMatchPeerList
  /\ alive => CellsInv

-----------------------------------------------------------------------------
(* The list of peers.                                                      *)

\* Cells of the new list are freed, or were there and not freed.
CellsKept ==
  \A i \in 1..Len(peer_head') :
    \/ FreedHead(i)'
    \/ \E j \in 1..Len(peer_head) :
         ~FreedHead(j) /\ peer_head'[i] = peer_head[j]

\* Overwriting the address of the head.
LEMMA ForgottenIp ==
  ASSUME peer_head \in Seq(TrackerPeer), 1 \in 1..Len(peer_head)
  PROVE  [peer_head EXCEPT ![1].ip = NoIp] \in Seq(TrackerPeer)
<1>1. peer_head[1] \in TrackerPeer
  OBVIOUS
<1>2. [peer_head[1] EXCEPT !.ip = NoIp] \in TrackerPeer
  BY <1>1 DEF TrackerPeer
<1> QED
  BY <1>2

\* After the head has been freed twice, the list is still one of cells, and the
\* given socket is the only one that is closed.
LEMMA UnlinkCorrupt ==
  ASSUME TypeOK, heap = "corrupt", alive, NEW s \in Socks, Unlink(s)
  PROVE  /\ peer_head' \in Seq(TrackerPeer)
         /\ heap' = "corrupt" /\ heap' \in Heaps
         /\ alive' \in BOOLEAN
         /\ open \ {s} \subseteq open'
         /\ open' \subseteq open
         /\ SocketsMatchPeerList'
         /\ CellsOpen' /\ CellsDistinct' /\ CellsKept
<1>1. peer_head \in Seq(TrackerPeer) /\ Len(peer_head) \in Nat
  BY DEF TypeOK
<1>2. heap' = "corrupt" /\ alive' \in BOOLEAN
  BY DEF Unlink, FreeHead, FreeTwice
<1>3. open \ {s} \subseteq open' /\ open' \subseteq open
  BY DEF Unlink
<1>4. peer_head' \in Seq(TrackerPeer)
  <2>1. CASE peer_head' = peer_head
    BY <1>1, <2>1
  <2>2. ASSUME NEW i \in TailPositions(s), peer_head' = Without(peer_head, i)
        PROVE  peer_head' \in Seq(TrackerPeer)
    <3>1. i \in 2..Len(peer_head)
      BY DEF TailPositions
    <3>2. Len(peer_head) - 1 \in Nat
      BY <1>1, <3>1
    <3>3. \A j \in 1..(Len(peer_head) - 1) :
            (IF j < i THEN peer_head[j] ELSE peer_head[j + 1]) \in TrackerPeer
      BY <1>1, <3>1
    <3> QED
      BY <2>2, <3>2, <3>3 DEF Without
  <2>3. ASSUME ~(Len(peer_head) < 2), FreeHead PROVE peer_head' \in Seq(TrackerPeer)
    <3>1. 1 \in 1..Len(peer_head)
      BY <1>1, <2>3
    <3> QED
      BY <1>1, <2>3, <3>1, ForgottenIp DEF FreeHead, FreeTwice
  <2> QED
    BY <2>1, <2>2, <2>3 DEF Unlink
<1>5. \A i : FreedHead(i)'
  BY <1>2 DEF FreedHead
<1> QED
  BY <1>2, <1>3, <1>4, <1>5 DEF Heaps, SocketsMatchPeerList, CellsOpen, CellsDistinct, CellsKept

\* What the second half of delete_peer does to the list: it closes at most the
\* given socket, keeps the other cells, and leaves no stale cell behind but the
\* freed head; deleting the freed head a second time is the end of the process, or
\* of what is known of the list.
LEMMA UnlinkLemma ==
  ASSUME TypeOK, CellsOpen, CellsDistinct, SocketsMatchPeerList, alive,
         NEW s \in Socks, Unlink(s)
  PROVE  /\ peer_head' \in Seq(TrackerPeer)
         /\ heap' \in Heaps
         /\ alive' \in BOOLEAN
         /\ open \ {s} \subseteq open'
         /\ open' \subseteq open
         /\ SocketsMatchPeerList'
         /\ alive' => CellsOpen' /\ CellsDistinct' /\ CellsKept
         /\ heap = "corrupt" => heap' = "corrupt"
         /\ peer_head # <<>> /\ peer_head[1].sockfd = s /\ heap = "dangling"
              => ~Intact' \/ open' = open
<1> DEFINE alone == Len(peer_head) < 2
           first == peer_head # <<>> /\ peer_head[1].sockfd = s
<1>0. /\ peer_head \in Seq(TrackerPeer) /\ Len(peer_head) \in Nat
      /\ heap \in Heaps /\ open \subseteq Socks
      /\ \A i \in 1..Len(peer_head) : peer_head[i] \in TrackerPeer
  BY DEF TypeOK
<1>a. ~alone => 1 \in 1..Len(peer_head)
  BY <1>0
<1>b. CASE heap = "corrupt"
  BY <1>b, UnlinkCorrupt
<1>1. CASE ~alone /\ first /\ open' = open \ {s} /\ FreeHead /\ heap # "corrupt"
  <2>1. CASE heap = "dangling"
    <3>1. \/ alive' = FALSE /\ peer_head' = peer_head /\ heap' = heap
          \/ /\ alive' = alive /\ heap' = "corrupt"
             /\ peer_head' = [peer_head EXCEPT ![1].ip = NoIp]
      BY <1>1, <2>1 DEF FreeHead, FreeTwice
    <3>2. peer_head' \in Seq(TrackerPeer)
      BY <1>0, <1>1, <1>a, <3>1, ForgottenIp
    <3>3. heap' \in Heaps /\ ~Intact' /\ alive' \in BOOLEAN
      BY <2>1, <3>1 DEF Heaps, Intact
    <3>4. SocketsMatchPeerList'
      BY <2>1, <3>1 DEF SocketsMatchPeerList
    <3>5. alive' => CellsOpen' /\ CellsDistinct' /\ CellsKept
      BY <3>1 DEF CellsOpen, CellsDistinct, CellsKept, FreedHead
    <3> QED
      BY <1>0, <1>1, <2>1, <3>2, <3>3, <3>4, <3>5
  <2>2. CASE heap # "dangling"
    <3>1. /\ heap' = "dangling" /\ alive' = alive
          /\ peer_head' = [peer_head EXCEPT ![1].ip = NoIp]
      BY <1>1, <2>2 DEF FreeHead
    <3>2. [peer_head[1] EXCEPT !.ip = NoIp] \in TrackerPeer
      BY <1>0, <1>1 DEF TrackerPeer
    <3>3. /\ peer_head' \in Seq(TrackerPeer)
          /\ Len(peer_head') = Len(peer_head)
          /\ \A i \in 2..Len(peer_head) : peer_head'[i] = peer_head[i]
      BY <1>0, <1>1, <3>1, <3>2
    <3>4. \A i \in 2..Len(peer_head) : peer_head[i].sockfd # s
      BY <1>0, <1>1, <2>2 DEF CellsDistinct, FreedHead
    <3>5. CellsOpen'
      BY <1>0, <1>1, <2>2, <3>1, <3>3, <3>4 DEF CellsOpen, FreedHead
    <3>6. CellsDistinct'
      BY <1>0, <1>1, <2>2, <3>1, <3>3 DEF CellsDistinct, FreedHead
    <3>7. CellsKept
      BY <1>0, <1>1, <2>2, <3>1, <3>3 DEF CellsKept, FreedHead
    <3> QED
      BY <1>0, <1>1, <2>2, <3>1, <3>3, <3>5, <3>6, <3>7
      DEF SocketsMatchPeerList, Heaps, Intact
  <2> QED
    BY <2>1, <2>2
<1>2. CASE /\ ~alone /\ ~first
           /\ \E i \in TailPositions(s) :
                /\ \A j \in TailPositions(s) : i <= j
                /\ peer_head' = Without(peer_head, i)
           /\ open' = open \ {s}
           /\ UNCHANGED <<heap, alive>>
           /\ heap # "corrupt"
  <2>1. PICK k \in 2..Len(peer_head) :
          peer_head[k].sockfd = s /\ peer_head' = Without(peer_head, k)
    BY <1>2 DEF TailPositions
  <2>2. /\ peer_head' \in Seq(TrackerPeer)
        /\ Len(peer_head') = Len(peer_head) - 1
        /\ \A i \in 1..(Len(peer_head) - 1) :
             peer_head'[i] = IF i < k THEN peer_head[i] ELSE peer_head[i + 1]
    BY <1>0, <1>2, <2>1 DEF Without
  <2>3. \A i \in 1..Len(peer_head) : i # k => peer_head[i].sockfd # s
    <3> SUFFICES ASSUME NEW i \in 1..Len(peer_head), i # k, peer_head[i].sockfd = s
                 PROVE  FALSE
      OBVIOUS
    <3>1. FreedHead(1) /\ peer_head[1].sockfd = s
      <4>1. i \in Int /\ k \in Int /\ i \in 1..Len(peer_head) /\ k \in 1..Len(peer_head)
        BY <1>0
      <4>2. CASE i < k
        BY <1>2, <2>1, <4>1, <4>2 DEF CellsDistinct, FreedHead
      <4>3. CASE k < i
        <5>1. FreedHead(k)
          BY <2>1, <4>1, <4>3 DEF CellsDistinct
        <5> QED
          BY <1>2, <2>1, <5>1 DEF FreedHead
      <4> QED
        BY <4>1, <4>2, <4>3
    <3> QED
      BY <1>2, <2>1, <3>1
  <2>4. heap' = heap /\ alive' = alive
    BY <1>2
  <2>5. CellsOpen'
    BY <1>0, <1>2, <2>1, <2>2, <2>3, <2>4 DEF CellsOpen, FreedHead
  <2>6. CellsDistinct'
    <3> SUFFICES ASSUME NEW i \in 1..Len(peer_head'), NEW j \in 1..Len(peer_head'),
                        i < j, peer_head'[i].sockfd = peer_head'[j].sockfd
                 PROVE  FreedHead(i)'
      BY DEF CellsDistinct
    <3> DEFINE From(p) == IF p < k THEN p ELSE p + 1
    <3>1. /\ From(i) \in 1..Len(peer_head) /\ From(j) \in 1..Len(peer_head)
          /\ From(i) < From(j) /\ (From(i) = 1 => i = 1)
      BY <1>0, <2>2
    <3>2. peer_head'[i] = peer_head[From(i)] /\ peer_head'[j] = peer_head[From(j)]
      BY <1>0, <2>2
    <3> HIDE DEF From
    <3>3. FreedHead(From(i))
      BY <3>1, <3>2 DEF CellsDistinct
    <3> QED
      BY <2>4, <3>1, <3>3 DEF FreedHead
  <2>7. CellsKept
    BY <1>0, <1>2, <2>1, <2>2, <2>4 DEF CellsKept, FreedHead
  <2>8. SocketsMatchPeerList'
    <3> SUFFICES ASSUME heap = "sound"
                 PROVE  /\ open' = Listed'
                        /\ \A i, j \in 1..Len(peer_head') :
                             peer_head'[i].sockfd = peer_head'[j].sockfd => i = j
      BY <2>4 DEF SocketsMatchPeerList
    <3>1. open' \subseteq Listed'
      <4> SUFFICES ASSUME NEW t \in open' PROVE t \in Listed'
        OBVIOUS
      <4>1. PICK i \in 1..Len(peer_head) : peer_head[i].sockfd = t
        BY <1>2 DEF SocketsMatchPeerList, Listed
      <4>2. i # k
        BY <1>2, <2>1, <4>1
      <4>3. CASE i < k
        BY <1>0, <2>1, <2>2, <4>1, <4>3 DEF Listed
      <4>4. CASE i > k
        <5>1. i - 1 \in 1..(Len(peer_head) - 1) /\ ~(i - 1 < k)
          BY <1>0, <2>1, <4>4
        <5>2. peer_head'[i - 1] = peer_head[i]
          BY <1>0, <2>2, <5>1
        <5> QED
          BY <2>2, <4>1, <5>1, <5>2 DEF Listed
      <4> QED
        BY <1>0, <2>1, <4>2, <4>3, <4>4
    <3>2. Listed' \subseteq open'
      BY <2>4, <2>5 DEF CellsOpen, FreedHead, Listed
    <3>3. ASSUME NEW i \in 1..Len(peer_head'), NEW j \in 1..Len(peer_head'),
                 peer_head'[i].sockfd = peer_head'[j].sockfd
          PROVE  i = j
      BY <1>0, <2>2, <2>4, <2>6, <3>3 DEF CellsDistinct, FreedHead
    <3> QED
      BY <3>1, <3>2, <3>3
  <2> QED
    BY <1>0, <1>2, <2>2, <2>4, <2>5, <2>6, <2>7, <2>8
<1>3. CASE /\ alone \/ (~first /\ TailPositions(s) = {})
           /\ UNCHANGED <<peer_head, heap, open, alive>>
           /\ heap # "corrupt"
  BY <1>0, <1>3 DEF SocketsMatchPeerList, Listed, CellsOpen, CellsDistinct,
                    CellsKept, FreedHead
<1> QED
  BY <1>b, <1>1, <1>2, <1>3 DEF Unlink

-----------------------------------------------------------------------------
(* Deleting a peer.                                                        *)

\* Every holder in the table has a session among those in W.
Backed(table, W) ==
  \A n \in Names : \A ip \in NodeHolders(table[n]) : \E w \in W : ipOf[w] = ip

\* The two invariants about holders, in terms of the operators of the lemmas.
LEMMA HoldersRestated ==
  /\ HoldersProper <=> \A n \in Names : ProperNode(ft[n])
  /\ HoldersOnline <=> (Intact => Backed(ft, heard \cap open))
  BY DEF HoldersProper, HoldersOnline, ProperNode, ProperList, Backed, NodeHolders

\* delete_peer keeps the invariants of the list and of the table.  If the
\* address it is given is the one served at the socket it closes, every holder
\* left has a session whose socket is still open.
LEMMA DeletePeerLemma ==
  ASSUME TypeOK, CellsInv, SocketsMatchPeerList, alive,
         NEW table \in TrackerTable, \A n \in Names : ProperNode(table[n]),
         NEW W \in SUBSET (thread \cap open), Intact => Backed(table, W),
         NEW s \in Socks, NEW ip, DeletePeer(table, s, ip),
         s \in W => ip = ipOf[s] \/ ~Intact' \/ open' = open
  PROVE  /\ ft' \in TrackerTable
         /\ peer_head' \in Seq(TrackerPeer)
         /\ heap' \in Heaps
         /\ open' \subseteq Socks
         /\ alive' \in BOOLEAN
         /\ \A n \in Names : ProperNode(ft'[n])
         /\ SocketsMatchPeerList'
         /\ alive' => /\ CellsOpen' /\ CellsDistinct' /\ CellsKept
                      /\ open' \subseteq open
         /\ Intact' => /\ Intact
                       /\ Backed(ft', W \cap open')
                       /\ ip = ipOf[s] => Backed(ft', (W \cap open') \ {s})
<1>1. ft' = ForgetPeer(table, ip) /\ Unlink(s)
  BY DEF DeletePeer
<1>2. /\ peer_head' \in Seq(TrackerPeer)
      /\ heap' \in Heaps
      /\ alive' \in BOOLEAN
      /\ open \ {s} \subseteq open'
      /\ open' \subseteq open
      /\ SocketsMatchPeerList'
      /\ alive' => CellsOpen' /\ CellsDistinct' /\ CellsKept
      /\ Intact' => Intact
  BY <1>1, UnlinkLemma DEF CellsInv, Intact
<1>3. ft' \in TrackerTable /\ \A n \in Names : ProperNode(ft'[n])
  BY <1>1, ForgetPeerLemma
<1>4. ASSUME Intact', NEW n \in Names, NEW a \in NodeHolders(ft'[n])
      PROVE  a # ip /\ \E w \in W : ipOf[w] = a
  <2>1. a \in NodeHolders(table[n]) /\ a # ip
    BY <1>1, <1>4, ForgetPeerLemma
  <2> QED
    BY <1>2, <1>4, <2>1 DEF Backed
<1>5. ASSUME Intact' PROVE Backed(ft', W \cap open')
  <2> SUFFICES ASSUME NEW n \in Names, NEW a \in NodeHolders(ft'[n])
               PROVE  \E w \in W \cap open' : ipOf[w] = a
    BY DEF Backed
  <2>1. PICK w \in W : ipOf[w] = a
    BY <1>4, <1>5
  <2>2. w \in open'
    BY <1>2, <1>4, <1>5, <2>1
  <2> QED
    BY <2>1, <2>2
<1>6. ASSUME Intact', ip = ipOf[s] PROVE Backed(ft', (W \cap open') \ {s})
  <2> SUFFICES ASSUME NEW n \in Names, NEW a \in NodeHolders(ft'[n])
               PROVE  \E w \in (W \cap open') \ {s} : ipOf[w] = a
    BY DEF Backed
  <2>1. PICK w \in W : ipOf[w] = a
    BY <1>4, <1>6
  <2>2. w # s
    BY <1>4, <1>6, <2>1
  <2> QED
    BY <1>2, <2>1, <2>2
<1>7. open' \subseteq Socks
  BY <1>2 DEF TypeOK
<1> QED
  BY <1>2, <1>3, <1>5, <1>6, <1>7

\* The address in a cell is good enough for delete_peer of that cell's socket.
LEMMA DeleteCellLemma ==
  ASSUME TypeOK, CellsInv, SocketsMatchPeerList, alive,
         NEW k \in 1..Len(peer_head), Unlink(peer_head[k].sockfd)
  PROVE  peer_head[k].sockfd \in thread \cap open =>
           \/ peer_head[k].ip = ipOf[peer_head[k].sockfd]
           \/ ~Intact' \/ open' = open
<1>1. peer_head \in Seq(TrackerPeer) /\ peer_head[k].sockfd \in Socks
  <2>1. peer_head \in Seq(TrackerPeer)
    BY DEF TypeOK
  <2>2. peer_head[k] \in TrackerPeer
    BY <2>1
  <2> QED
    BY <2>1, <2>2 DEF TrackerPeer
<1>2. CASE FreedHead(k)
  <2>1. peer_head # <<>>
    BY <1>1
  <2> QED
    BY <1>1, <1>2, <2>1, UnlinkLemma DEF CellsInv, FreedHead, Intact
<1>3. CASE ~FreedHead(k)
  BY <1>3 DEF CellsInv, CellsKnowIp
<1> QED
  BY <1>2, <1>3

\* Cells that were kept know their addresses, if the threads that are left
\* serve the same peers as before.
LEMMA CellsKnowIpKept ==
  ASSUME CellsKnowIp, CellsKept, open' \subseteq open, thread' \subseteq thread,
         \A s \in thread' : ipOf'[s] = ipOf[s]
  PROVE  CellsKnowIp'
<1> SUFFICES ASSUME NEW i \in 1..Len(peer_head'), ~FreedHead(i)',
                    peer_head'[i].sockfd \in thread' \cap open'
             PROVE  peer_head'[i].ip = ipOf'[peer_head'[i].sockfd]
  BY DEF CellsKnowIp
<1>1. PICK j \in 1..Len(peer_head) :
        ~FreedHead(j) /\ peer_head'[i] = peer_head[j]
  BY DEF CellsKept
<1> QED
  BY <1>1 DEF CellsKnowIp

\* A step that changes no more of the list than ages keeps its invariants.
LEMMA AgesLemma ==
  ASSUME TypeOK, CellsInv, SocketsMatchPeerList,
         peer_head' \in Seq(TrackerPeer), Len(peer_head') = Len(peer_head),
         \A i \in 1..Len(peer_head) :
           /\ peer_head'[i].sockfd = peer_head[i].sockfd
           /\ peer_head'[i].ip = peer_head[i].ip,
         UNCHANGED <<heap, open, thread, ipOf>>
  PROVE  CellsInv' /\ SocketsMatchPeerList'
<1>1. CellsOpen' /\ CellsDistinct'
  BY DEF CellsInv, CellsOpen, CellsDistinct, FreedHead
<1>2. CellsKnowIp'
  BY DEF CellsInv, CellsKnowIp, FreedHead
<1>3. Listed' = Listed
  BY DEF Listed
<1>4. SocketsMatchPeerList'
  BY <1>3 DEF SocketsMatchPeerList
<1> QED
  BY <1>1, <1>2, <1>4 DEF CellsInv

-----------------------------------------------------------------------------
(* Broadcasting.                                                           *)

\* What update_filetable has just made of the table is kept by the broadcast
\* that follows, however far it gets.
LEMMA BroadcastLemma ==
  ASSUME TypeOK, CellsInv, SocketsMatchPeerList, alive,
         NEW table \in TrackerTable, \A n \in Names : ProperNode(table[n]),
         NEW W \in SUBSET (thread \cap open), Intact => Backed(table, W),
         Broadcast(table)
  PROVE  /\ ft' \in TrackerTable
         /\ peer_head' \in Seq(TrackerPeer)
         /\ heap' \in Heaps
         /\ open' \subseteq Socks
         /\ alive' \in BOOLEAN
         /\ behind' \subseteq Socks
         /\ \A n \in Names : ProperNode(ft'[n])
         /\ SocketsMatchPeerList'
         /\ alive' => /\ CellsOpen' /\ CellsDistinct' /\ CellsKept
                      /\ open' \subseteq open
         /\ Intact' => Backed(ft', W \cap open')
<1>0. /\ peer_head \in Seq(TrackerPeer) /\ Len(peer_head) \in Nat
      /\ \A i \in 1..Len(peer_head) : peer_head[i] \in TrackerPeer
  BY DEF TypeOK
<1>1. \A i \in 1..Len(peer_head) : peer_head[i].sockfd \in Socks
  BY <1>0 DEF TrackerPeer
<1>2. PICK k \in 0..Len(peer_head) :
        /\ behind' = (behind \cup IF Versions(table) = Versions(ft)
                                 THEN {} ELSE {s \in Listed : remote[s] = "up"})
                     \ {peer_head[i].sockfd : i \in 1..k}
        /\ \/ /\ ft' = table
              /\ alive' \in {alive, FALSE}
              /\ UNCHANGED <<peer_head, heap, open>>
           \/ /\ k < Len(peer_head)
              /\ DeletePeer(table, peer_head[k + 1].sockfd, peer_head[k + 1].ip)
  BY DEF Broadcast
<1>3. behind' \subseteq Socks
  <2>1. Listed \subseteq Socks
    BY <1>1 DEF Listed
  <2> QED
    BY <1>2, <2>1 DEF TypeOK
<1>4. CASE /\ ft' = table
           /\ alive' \in {alive, FALSE}
           /\ UNCHANGED <<peer_head, heap, open>>
  <2>1. CellsOpen' /\ CellsDistinct'
    BY <1>4 DEF CellsInv, CellsOpen, CellsDistinct, FreedHead
  <2>2. CellsKept
    BY <1>4 DEF CellsKept, FreedHead
  <2>3. SocketsMatchPeerList'
    BY <1>4 DEF SocketsMatchPeerList, Listed
  <2>4. Intact' => Backed(ft', W \cap open')
    BY <1>4 DEF Backed, Intact
  <2> QED
    BY <1>3, <1>4, <2>1, <2>2, <2>3, <2>4 DEF TypeOK
<1>5. CASE /\ k < Len(peer_head)
           /\ DeletePeer(table, peer_head[k + 1].sockfd, peer_head[k + 1].ip)
  <2> DEFINE s == peer_head[k + 1].sockfd
             ip == peer_head[k + 1].ip
  <2>1. k + 1 \in 1..Len(peer_head) /\ s \in Socks
    BY <1>0, <1>1, <1>5
  <2>2. Unlink(s)
    BY <1>5 DEF DeletePeer
  <2>3. s \in W => ip = ipOf[s] \/ ~Intact' \/ open' = open
    BY <2>1, <2>2, DeleteCellLemma
  <2>4. DeletePeer(table, s, ip)
    BY <1>5
  <2> HIDE DEF s, ip
  <2> QED
    BY <1>3, <2>1, <2>3, <2>4, DeletePeerLemma
<1> QED
  BY <1>2, <1>4, <1>5

-----------------------------------------------------------------------------
(* The inductive invariant.                                                *)

\* The invariants about holders hold after a step.
LEMMA HoldersAfter ==
  ASSUME \A n \in Names : ProperNode(ft'[n]),
         Intact' => \A n \in Names : \A a \in NodeHolders(ft'[n]) :
                      \E w \in heard' \cap open' : ipOf'[w] = a
  PROVE  HoldersProper' /\ HoldersOnline'
<1>1. HoldersProper'
  BY DEF HoldersProper, ProperNode, ProperList
<1>2. HoldersOnline'
  BY DEF HoldersOnline, NodeHolders
<1> QED
  BY <1>1, <1>2

LEMMA InitIInv == Init => IInv
<1> SUFFICES ASSUME Init PROVE IInv
  OBVIOUS
<1>1. TypeOK
  BY DEF Init, TypeOK, TrackerTable, Heaps
<1>2. Len(peer_head) = 0
  BY DEF Init
<1>3. HoldersProper /\ HoldersOnline
  BY DEF Init, HoldersProper, HoldersOnline
<1>4. SocketsMatchPeerList
  BY <1>2 DEF Init, SocketsMatchPeerList, Listed
<1>5. CellsInv
  BY <1>2 DEF CellsInv, CellsOpen, CellsDistinct, CellsKnowIp
<1> QED
  BY <1>1, <1>3, <1>4, <1>5 DEF IInv, IpKnown, Init

\* The accept loop: the socket is new, so the only cell that may already be
\* there for it is the freed head.
LEMMA AcceptIInv ==
  ASSUME IInv, NEW s \in Socks, NEW i \in Ips, Accept(s, i)
  PROVE  IInv'
<1> USE DEF IInv
<1>0. alive /\ TypeOK /\ CellsInv
  BY DEF Accept
<1>1. /\ s \notin open /\ open' = open \cup {s} /\ AddPeer(s, i)
      /\ thread' = thread \cup {s} /\ heard' = heard \ {s}
      /\ ipOf' = [ipOf EXCEPT ![s] = i]
      /\ remote' = [remote EXCEPT ![s] = "up"]
      /\ behind' = behind \ {s} /\ ft' = ft /\ alive' = alive
  BY DEF Accept
<1>2. /\ peer_head \in Seq(TrackerPeer) /\ Len(peer_head) \in Nat
      /\ ipOf \in [Socks -> Ips \cup {NoIp}]
  BY DEF TypeOK
<1>3. ipOf'[s] = i /\ \A t \in Socks \ {s} : ipOf'[t] = ipOf[t]
  BY <1>1, <1>2
<1>4. \A j \in 1..Len(peer_head) : peer_head[j].sockfd = s => FreedHead(j)
  BY <1>0, <1>1 DEF CellsInv, CellsOpen
<1> DEFINE cell == [sockfd |-> s, ip |-> i, age |-> 0]
<1>5. cell \in TrackerPeer
  BY TimeoutAssumption DEF TrackerPeer, Ages
<1>6. HoldersProper' /\ HoldersOnline'
  <2>1. \A n \in Names : ProperNode(ft'[n])
    BY <1>1, HoldersRestated
  <2>2. ASSUME Intact', NEW n \in Names, NEW a \in NodeHolders(ft'[n])
        PROVE  \E w \in heard' \cap open' : ipOf'[w] = a
    <3>0. Intact
      BY <1>0, <1>1, <2>2 DEF Intact, AddPeer
    <3>1. PICK w \in heard \cap open : ipOf[w] = a
      BY <1>1, <2>2, <3>0, HoldersRestated DEF Backed
    <3>2. w \in Socks \ {s}
      BY <1>1, <3>1 DEF TypeOK
    <3> QED
      BY <1>1, <1>3, <3>1, <3>2
  <2> QED
    BY <2>1, <2>2, HoldersAfter
<1>7. IpKnown'
  BY <1>1, <1>3 DEF IpKnown, TypeOK
<1>8. /\ peer_head' \in Seq(TrackerPeer)
      /\ heap' \in Heaps
      /\ CellsInv' /\ SocketsMatchPeerList'
  <2>0. CASE heap = "corrupt"
    <3>1. heap' = "corrupt"
      BY <1>1, <2>0 DEF AddPeer
    <3>2. peer_head' \in Seq(TrackerPeer)
      <4>1. \/ peer_head' = peer_head
            \/ peer_head' = Append(peer_head, cell)
            \/ peer_head' = <<cell>>
        BY <1>1 DEF AddPeer
      <4> HIDE DEF cell
      <4>2. Append(peer_head, cell) \in Seq(TrackerPeer) /\ <<cell>> \in Seq(TrackerPeer)
        BY <1>2, <1>5
      <4> QED
        BY <1>2, <4>1, <4>2
    <3>3. CellsInv' /\ SocketsMatchPeerList'
      BY <3>1 DEF CellsInv, CellsOpen, CellsDistinct, CellsKnowIp, FreedHead, SocketsMatchPeerList
    <3> QED
      BY <3>1, <3>2, <3>3 DEF Heaps
  <2>1. CASE peer_head' = peer_head /\ heap' = heap /\ heap = "dangling"
    <3>1. CellsOpen' /\ CellsDistinct'
      BY <1>0, <1>1, <2>1 DEF CellsInv, CellsOpen, CellsDistinct, FreedHead
    <3>2. CellsKnowIp'
      <4> SUFFICES ASSUME NEW j \in 1..Len(peer_head), ~FreedHead(j),
                          peer_head[j].sockfd \in thread' \cap open'
                   PROVE  peer_head[j].ip = ipOf'[peer_head[j].sockfd]
        BY <2>1 DEF CellsKnowIp, FreedHead
      <4>1. peer_head[j].sockfd # s
        BY <1>4
      <4>2. peer_head[j].sockfd \in thread \cap open
        BY <1>1, <4>1
      <4>3. peer_head[j].sockfd \in Socks \ {s}
        BY <4>1, <4>2 DEF TypeOK
      <4> QED
        BY <1>0, <1>3, <4>2, <4>3 DEF CellsInv, CellsKnowIp
    <3> QED
      BY <1>2, <2>1, <3>1, <3>2 DEF CellsInv, SocketsMatchPeerList, TypeOK
  <2>2. CASE peer_head' = Append(peer_head, cell) /\ heap' = heap
    <3>1. /\ peer_head' \in Seq(TrackerPeer)
          /\ Len(peer_head') = Len(peer_head) + 1
          /\ \A j \in 1..Len(peer_head) : peer_head'[j] = peer_head[j]
          /\ peer_head'[Len(peer_head) + 1] = cell
      BY <1>2, <1>5, <2>2
    <3>2. cell.sockfd = s /\ cell.ip = i
      OBVIOUS
    <3> HIDE DEF cell
    <3>3. CellsOpen'
      BY <1>0, <1>1, <1>2, <2>2, <3>1, <3>2
      DEF CellsInv, CellsOpen, FreedHead
    <3>4. CellsDistinct'
      BY <1>0, <1>2, <1>4, <2>2, <3>1, <3>2
      DEF CellsInv, CellsDistinct, FreedHead
    <3>5. CellsKnowIp'
      <4> SUFFICES ASSUME NEW j \in 1..(Len(peer_head) + 1), ~FreedHead(j),
                          peer_head'[j].sockfd \in thread' \cap open'
                   PROVE  peer_head'[j].ip = ipOf'[peer_head'[j].sockfd]
        BY <2>2, <3>1 DEF CellsKnowIp, FreedHead
      <4>1. CASE j = Len(peer_head) + 1
        BY <1>3, <3>1, <3>2, <4>1
      <4>2. CASE j \in 1..Len(peer_head)
        <5>1. peer_head'[j] = peer_head[j] /\ peer_head[j].sockfd # s
          BY <1>4, <3>1, <4>2
        <5>2. peer_head[j].sockfd \in thread \cap open
          BY <1>1, <5>1
        <5>3. peer_head[j].sockfd \in Socks \ {s}
          BY <5>1, <5>2 DEF TypeOK
        <5> QED
          BY <1>0, <1>3, <4>2, <5>1, <5>2, <5>3 DEF CellsInv, CellsKnowIp
      <4> QED
        BY <1>2, <4>1, <4>2
    <3>6. Listed' = Listed \cup {s}
      BY <1>2, <3>1, <3>2 DEF Listed
    <3>7. SocketsMatchPeerList'
      <4> SUFFICES ASSUME heap = "sound"
                   PROVE  /\ open' = Listed'
                          /\ \A j, k \in 1..Len(peer_head') :
                               peer_head'[j].sockfd = peer_head'[k].sockfd
                                 => j = k
        BY <2>2 DEF SocketsMatchPeerList
      <4>1. open' = Listed'
        BY <1>1, <3>6 DEF SocketsMatchPeerList
      <4> QED
        BY <1>2, <2>2, <3>1, <3>4, <4>1 DEF CellsDistinct, FreedHead
    <3> QED
      BY <1>2, <2>2, <3>1, <3>3, <3>4, <3>5, <3>7 DEF CellsInv, TypeOK
  <2>3. CASE peer_head' = <<cell>> /\ heap' = "reused" /\ heap # "corrupt"
    <3>1. /\ peer_head' \in Seq(TrackerPeer) /\ Len(peer_head') = 1
          /\ peer_head'[1].sockfd = s /\ peer_head'[1].ip = i
      BY <1>5, <2>3
    <3>2. CellsOpen' /\ CellsDistinct' /\ CellsKnowIp'
      BY <1>1, <1>3, <3>1 DEF CellsOpen, CellsDistinct, CellsKnowIp
    <3> QED
      BY <2>3, <3>1, <3>2 DEF CellsInv, SocketsMatchPeerList, Heaps
  <2>4. \A j \in 1..(Len(peer_head) - 1) :
          peer_head[j].sockfd = s => heap \in {"dangling", "corrupt"}
    BY <1>2, <1>4 DEF FreedHead
  <2> QED
    BY <1>1, <2>0, <2>1, <2>2, <2>3, <2>4 DEF AddPeer
<1>9. TypeOK'
  BY <1>1, <1>2, <1>8 DEF TypeOK
<1> QED
  BY <1>6, <1>7, <1>8, <1>9

\* The thread that receives counts among the sessions that back the holders.
LEMMA ReceiveBacks ==
  ASSUME IInv, NEW s \in Socks, CanReceive(s)
  PROVE  /\ alive /\ CellsInv /\ s \in thread /\ ipOf[s] \in Ips
         /\ heard' = heard \cup {s}
         /\ heard' \cap open \in SUBSET (thread \cap open)
         /\ s \in heard' \cap open
         /\ thread' = thread /\ ipOf' = ipOf /\ remote' = remote
         /\ Intact => Backed(ft, heard' \cap open)
<1>1. /\ alive /\ s \in thread \cap open /\ heard' = heard \cup {s}
      /\ UNCHANGED <<thread, ipOf, remote>>
  BY DEF CanReceive
<1>2. heard \subseteq thread /\ ipOf[s] \in Ips
  BY <1>1 DEF IInv, TypeOK, IpKnown
<1>3. Intact => Backed(ft, heard \cap open)
  BY HoldersRestated DEF IInv
<1>4. Intact => Backed(ft, heard' \cap open)
  BY <1>1, <1>3 DEF Backed
<1> QED
  BY <1>1, <1>2, <1>4 DEF IInv

\* After a step of a handshake thread that left the sessions as they are, the
\* invariant follows from what the lemmas on DeletePeer and Broadcast say.
LEMMA HandlerIInv ==
  ASSUME IInv, CellsInv, alive,
         thread' = thread, ipOf' = ipOf, remote' = remote,
         heard' \subseteq thread,
         ft' \in TrackerTable, peer_head' \in Seq(TrackerPeer),
         heap' \in Heaps,
         open' \subseteq Socks, alive' \in BOOLEAN, behind' \subseteq Socks,
         \A n \in Names : ProperNode(ft'[n]),
         SocketsMatchPeerList',
         alive' => /\ CellsOpen' /\ CellsDistinct' /\ CellsKept
                   /\ open' \subseteq open,
         Intact' => Backed(ft', heard' \cap open')
  PROVE  IInv'
<1>1. TypeOK'
  BY DEF IInv, TypeOK
<1>2. IpKnown'
  BY DEF IInv, IpKnown
<1>3. alive' => CellsInv'
  BY CellsKnowIpKept DEF CellsInv
<1>4. HoldersProper' /\ HoldersOnline'
  BY HoldersAfter DEF Backed
<1> QED
  BY <1>1, <1>2, <1>3, <1>4 DEF IInv

\* Nothing but the sessions heard of, and who is behind, has changed.
LEMMA ReceiveOnlyIInv ==
  ASSUME IInv, NEW s \in Socks, CanReceive(s),
         behind' \subseteq Socks, alive' \in BOOLEAN,
         UNCHANGED <<ft, peer_head, heap, open>>
  PROVE  IInv'
<1>1. /\ alive /\ CellsInv /\ heard' = heard \cup {s} /\ s \in thread
      /\ thread' = thread /\ ipOf' = ipOf /\ remote' = remote
      /\ Intact => Backed(ft, heard' \cap open)
  BY ReceiveBacks
<1>2. \A n \in Names : ProperNode(ft'[n])
  BY HoldersRestated DEF IInv
<1>3. CellsOpen' /\ CellsDistinct' /\ CellsKept
  BY <1>1 DEF CellsInv, CellsOpen, CellsDistinct, CellsKept, FreedHead
<1>4. SocketsMatchPeerList'
  BY DEF IInv, SocketsMatchPeerList, Listed
<1>5. Intact' => Backed(ft', heard' \cap open')
  BY <1>1 DEF Intact
<1>6. /\ ft' \in TrackerTable /\ peer_head' \in Seq(TrackerPeer)
      /\ heap' \in Heaps /\ open' \subseteq Socks
      /\ heard' \subseteq thread
  BY <1>1 DEF IInv, TypeOK
<1> QED
  BY <1>1, <1>2, <1>3, <1>4, <1>5, <1>6, HandlerIInv

LEMMA RecvRegisterIInv ==
  ASSUME IInv, NEW s \in Socks, RecvRegister(s)
  PROVE  IInv'
<1>1. CanReceive(s)
  BY DEF RecvRegister
<1>2. CASE /\ behind' \in {behind, behind \ {s}} /\ alive' \in {alive, FALSE}
           /\ UNCHANGED <<ft, peer_head, heap, open>>
  <2>1. behind' \subseteq Socks /\ alive' \in BOOLEAN
    BY <1>2 DEF IInv, TypeOK
  <2> QED
    BY <1>1, <1>2, <2>1, ReceiveOnlyIInv
<1>3. CASE DeletePeer(ft, s, ipOf[s]) /\ behind' = behind
  <2>1. /\ alive /\ CellsInv /\ thread' = thread /\ ipOf' = ipOf
        /\ remote' = remote /\ heard' = heard \cup {s} /\ s \in thread
        /\ heard' \cap open \in SUBSET (thread \cap open)
        /\ Intact => Backed(ft, heard' \cap open)
    BY <1>1, ReceiveBacks
  <2>2. \A n \in Names : ProperNode(ft[n])
    BY HoldersRestated DEF IInv
  <2>3. TypeOK /\ SocketsMatchPeerList /\ ft \in TrackerTable
    BY DEF IInv, TypeOK
  <2> DEFINE W == heard' \cap open
  <2>4. /\ ft' \in TrackerTable
        /\ peer_head' \in Seq(TrackerPeer)
        /\ heap' \in Heaps
        /\ open' \subseteq Socks
        /\ alive' \in BOOLEAN
        /\ \A n \in Names : ProperNode(ft'[n])
        /\ SocketsMatchPeerList'
        /\ alive' => /\ CellsOpen' /\ CellsDistinct' /\ CellsKept
                     /\ open' \subseteq open
        /\ Intact' => Backed(ft', W \cap open')
    <3> HIDE DEF W
    <3>1. W \in SUBSET (thread \cap open) /\ (Intact => Backed(ft, W))
      BY <2>1 DEF W
    <3> QED
      BY <1>3, <2>1, <2>2, <2>3, <3>1, DeletePeerLemma
  <2>5. Intact' => Backed(ft', heard' \cap open')
    BY <2>4 DEF Backed
  <2>6. behind' \subseteq Socks /\ heard' \subseteq thread
    BY <1>3, <2>1, <2>3 DEF TypeOK
  <2> QED
    BY <2>1, <2>4, <2>5, <2>6, HandlerIInv
<1> QED
  BY <1>2, <1>3 DEF RecvRegister

LEMMA RecvUpdateIInv ==
  ASSUME IInv, NEW s \in Socks, NEW peer_ft \in Announcements,
         RecvUpdate(s, peer_ft)
  PROVE  IInv'
<1>1. CanReceive(s)
  BY DEF RecvUpdate
<1>2. /\ alive /\ CellsInv /\ thread' = thread /\ ipOf' = ipOf
      /\ remote' = remote /\ heard' = heard \cup {s} /\ s \in thread
      /\ ipOf[s] \in Ips /\ s \in heard' \cap open
      /\ heard' \cap open \in SUBSET (thread \cap open)
      /\ Intact => Backed(ft, heard' \cap open)
  BY <1>1, ReceiveBacks
<1>3. TypeOK /\ SocketsMatchPeerList /\ ft \in TrackerTable
  BY DEF IInv, TypeOK
<1>4. peer_ft \in PeerTable
  BY AnnouncementsAssumption
<1> DEFINE table == MergeTable(ft, peer_ft, ipOf[s])
           W == heard' \cap open
<1>5. Broadcast(table)
  BY DEF RecvUpdate
<1>6. table \in TrackerTable /\ \A n \in Names : ProperNode(table[n])
  BY <1>2, <1>3, <1>4, HoldersRestated, MergeTableLemma DEF IInv
<1>7. Intact => Backed(table, W)
  <2> SUFFICES ASSUME Intact, NEW n \in Names, NEW a \in NodeHolders(table[n])
               PROVE  \E w \in W : ipOf[w] = a
    BY DEF Backed
  <2>1. a \in NodeHolders(ft[n]) \cup {ipOf[s]}
    BY <1>2, <1>3, <1>4, MergeTableLemma
  <2> QED
    BY <1>2, <2>1 DEF Backed
<1>8. /\ ft' \in TrackerTable
      /\ peer_head' \in Seq(TrackerPeer)
      /\ heap' \in Heaps
      /\ open' \subseteq Socks
      /\ alive' \in BOOLEAN
      /\ behind' \subseteq Socks
      /\ \A n \in Names : ProperNode(ft'[n])
      /\ SocketsMatchPeerList'
      /\ alive' => /\ CellsOpen' /\ CellsDistinct' /\ CellsKept
                   /\ open' \subseteq open
      /\ Intact' => Backed(ft', W \cap open')
  <2> HIDE DEF table, W
  <2>1. W \in SUBSET (thread \cap open)
    BY <1>2 DEF W
  <2> QED
    BY <1>2, <1>3, <1>5, <1>6, <1>7, <2>1, BroadcastLemma
<1>9. Intact' => Backed(ft', heard' \cap open')
  BY <1>8 DEF Backed
<1>10. heard' \subseteq thread
  BY <1>2, <1>3 DEF TypeOK
<1> QED
  BY <1>2, <1>8, <1>9, <1>10, HandlerIInv

\* A step that changes only ages, and perhaps adds a session heard of.
LEMMA AgesIInv ==
  ASSUME IInv, alive, heard \subseteq heard', heard' \subseteq thread,
         peer_head' \in Seq(TrackerPeer), Len(peer_head') = Len(peer_head),
         \A i \in 1..Len(peer_head) :
           /\ peer_head'[i].sockfd = peer_head[i].sockfd
           /\ peer_head'[i].ip = peer_head[i].ip,
         UNCHANGED <<ft, heap, open, thread, ipOf, remote, behind, alive>>
  PROVE  IInv'
<1>1. CellsInv' /\ SocketsMatchPeerList'
  BY AgesLemma DEF IInv
<1>2. HoldersProper' /\ HoldersOnline'
  BY DEF IInv, HoldersProper, HoldersOnline, Intact
<1>3. TypeOK' /\ IpKnown'
  BY DEF IInv, TypeOK, IpKnown
<1> QED
  BY <1>1, <1>2, <1>3 DEF IInv

\* Only the age of a list cell changes.
LEMMA CellAge ==
  ASSUME NEW c \in TrackerPeer, NEW a \in Ages
  PROVE  /\ [c EXCEPT !.age = a] \in TrackerPeer
         /\ [c EXCEPT !.age = a].sockfd = c.sockfd
         /\ [c EXCEPT !.age = a].ip = c.ip
  BY DEF TrackerPeer

LEMMA RecvKeepAliveIInv ==
  ASSUME IInv, NEW s \in Socks, RecvKeepAlive(s)
  PROVE  IInv'
<1>1. /\ alive /\ s \in thread /\ heard' = heard \cup {s} /\ HeardPeer(s)
      /\ UNCHANGED <<ft, heap, open, thread, ipOf, remote, behind, alive>>
  BY DEF RecvKeepAlive, CanReceive
<1>2. /\ peer_head \in Seq(TrackerPeer) /\ Len(peer_head) \in Nat
      /\ \A i \in 1..Len(peer_head) : peer_head[i] \in TrackerPeer
      /\ heard \subseteq thread
  BY DEF IInv, TypeOK
<1> DEFINE new(i) == IF /\ peer_head[i].sockfd = s
                        /\ \A j \in 1..(i - 1) : peer_head[j].sockfd # s
                     THEN [peer_head[i] EXCEPT !.age = 0]
                     ELSE peer_head[i]
<1>3. \A i \in 1..Len(peer_head) :
        /\ new(i) \in TrackerPeer
        /\ new(i).sockfd = peer_head[i].sockfd
        /\ new(i).ip = peer_head[i].ip
  <2>1. 0 \in Ages
    BY TimeoutAssumption DEF Ages
  <2> QED
    BY <1>2, <2>1, CellAge
<1>4. peer_head' = [i \in 1..Len(peer_head) |-> new(i)]
  BY <1>1 DEF HeardPeer
<1> HIDE DEF new
<1>5. /\ peer_head' \in Seq(TrackerPeer) /\ Len(peer_head') = Len(peer_head)
      /\ \A i \in 1..Len(peer_head) : peer_head'[i] = new(i)
  BY <1>2, <1>3, <1>4
<1> QED
  BY <1>1, <1>2, <1>3, <1>5, AgesIInv

LEMMA TickIInv ==
  ASSUME IInv, Tick
  PROVE  IInv'
<1>1. /\ alive
      /\ UNCHANGED <<ft, heap, open, thread, heard, ipOf, remote, behind, alive>>
  BY DEF Tick, conns
<1>2. /\ peer_head \in Seq(TrackerPeer) /\ Len(peer_head) \in Nat
      /\ \A i \in 1..Len(peer_head) : peer_head[i] \in TrackerPeer
      /\ heard \subseteq thread
  BY DEF IInv, TypeOK
<1> DEFINE new(i) == [peer_head[i] EXCEPT
                        !.age = IF @ > HEARTBEAT_TIMEOUT THEN @ ELSE @ + 1]
<1>3. \A i \in 1..Len(peer_head) :
        /\ new(i) \in TrackerPeer
        /\ new(i).sockfd = peer_head[i].sockfd
        /\ new(i).ip = peer_head[i].ip
  <2> SUFFICES ASSUME NEW i \in 1..Len(peer_head)
               PROVE  /\ new(i) \in TrackerPeer
                      /\ new(i).sockfd = peer_head[i].sockfd
                      /\ new(i).ip = peer_head[i].ip
    OBVIOUS
  <2> DEFINE old == peer_head[i].age
             a == IF old > HEARTBEAT_TIMEOUT THEN old ELSE old + 1
  <2>1. peer_head[i] \in TrackerPeer
    BY <1>2
  <2>2. old \in Ages
    BY <2>1 DEF TrackerPeer
  <2>3. a \in Ages
    BY <2>2, TimeoutAssumption DEF Ages
  <2>4. new(i) = [peer_head[i] EXCEPT !.age = a]
    OBVIOUS
  <2> HIDE DEF a, new
  <2> QED
    BY <2>1, <2>3, <2>4, CellAge
<1>4. peer_head' = [i \in 1..Len(peer_head) |-> new(i)]
  BY DEF Tick
<1> HIDE DEF new
<1>5. /\ peer_head' \in Seq(TrackerPeer) /\ Len(peer_head') = Len(peer_head)
      /\ \A i \in 1..Len(peer_head) : peer_head'[i] = new(i)
  BY <1>2, <1>3, <1>4
<1> QED
  BY <1>1, <1>2, <1>3, <1>5, AgesIInv

LEMMA PeerGoesIInv ==
  ASSUME IInv, NEW s \in Socks, NEW how \in {"closed", "silent"},
         PeerGoes(s, how)
  PROVE  IInv'
<1>1. /\ alive /\ remote' = [remote EXCEPT ![s] = how] /\ behind' = behind \ {s}
      /\ UNCHANGED <<ft, peer_head, heap, open, thread, heard, ipOf, alive>>
  BY DEF PeerGoes
<1>2. TypeOK' /\ IpKnown'
  BY <1>1 DEF IInv, TypeOK, IpKnown
<1>3. HoldersProper' /\ HoldersOnline'
  BY <1>1 DEF IInv, HoldersProper, HoldersOnline, Intact
<1>4. SocketsMatchPeerList' /\ CellsInv'
  BY <1>1 DEF IInv, SocketsMatchPeerList, Listed, CellsInv, CellsOpen,
              CellsDistinct, CellsKnowIp, FreedHead
<1> QED
  BY <1>2, <1>3, <1>4 DEF IInv

LEMMA HeartbeatExpireIInv ==
  ASSUME IInv, NEW k \in 1..Len(peer_head), HeartbeatExpire(k)
  PROVE  IInv'
<1>1. /\ alive /\ DeletePeer(ft, peer_head[k].sockfd, peer_head[k].ip)
      /\ UNCHANGED <<thread, heard, ipOf, remote, behind>>
  BY DEF HeartbeatExpire, conns
<1>2. /\ TypeOK /\ SocketsMatchPeerList /\ CellsInv /\ ft \in TrackerTable
      /\ heard \subseteq thread /\ behind \subseteq Socks
      /\ peer_head \in Seq(TrackerPeer)
  BY <1>1 DEF IInv, TypeOK
<1>3. (\A n \in Names : ProperNode(ft[n])) /\ (Intact => Backed(ft, heard \cap open))
  BY <1>1, HoldersRestated DEF IInv
<1> DEFINE s == peer_head[k].sockfd
           ip == peer_head[k].ip
           W == heard \cap open
<1>4. s \in Socks
  <2>1. peer_head[k] \in TrackerPeer
    BY <1>2
  <2> QED
    BY <2>1 DEF TrackerPeer
<1>5. s \in W => ip = ipOf[s] \/ ~Intact' \/ open' = open
  BY <1>1, <1>2, DeleteCellLemma DEF DeletePeer
<1>6. /\ ft' \in TrackerTable
      /\ peer_head' \in Seq(TrackerPeer)
      /\ heap' \in Heaps
      /\ open' \subseteq Socks
      /\ alive' \in BOOLEAN
      /\ \A n \in Names : ProperNode(ft'[n])
      /\ SocketsMatchPeerList'
      /\ alive' => /\ CellsOpen' /\ CellsDistinct' /\ CellsKept
                   /\ open' \subseteq open
      /\ Intact' => Backed(ft', W \cap open')
  <2>1. DeletePeer(ft, s, ip)
    BY <1>1
  <2>2. W \in SUBSET (thread \cap open) /\ (Intact => Backed(ft, W))
    BY <1>2, <1>3
  <2> HIDE DEF s, ip, W
  <2> QED
    BY <1>1, <1>2, <1>3, <1>4, <1>5, <2>1, <2>2, DeletePeerLemma
<1>7. Intact' => Backed(ft', heard' \cap open')
  BY <1>1, <1>6 DEF Backed
<1> QED
  BY <1>1, <1>2, <1>6, <1>7, HandlerIInv

\* The end of a handshake thread: the address of the last packet received is
\* the peer's, and a thread that received nothing backs no holder.
LEMMA HandshakeExitIInv ==
  ASSUME IInv, NEW s \in Socks, HandshakeExit(s)
  PROVE  IInv'
<1> DEFINE ip == IF s \in heard THEN ipOf[s] ELSE NoIp
           W == heard \cap open
<1>1. /\ alive /\ s \in thread /\ DeletePeer(ft, s, ip)
      /\ thread' = thread \ {s} /\ heard' = heard \ {s}
      /\ ipOf' = [ipOf EXCEPT ![s] = NoIp]
      /\ remote' = [remote EXCEPT ![s] = "closed"]
      /\ behind' = behind \ {s}
  BY DEF HandshakeExit
<1>2. /\ TypeOK /\ SocketsMatchPeerList /\ CellsInv /\ ft \in TrackerTable
      /\ heard \subseteq thread /\ thread \subseteq Socks
      /\ ipOf \in [Socks -> Ips \cup {NoIp}]
  BY <1>1 DEF IInv, TypeOK
<1>3. (\A n \in Names : ProperNode(ft[n])) /\ (Intact => Backed(ft, heard \cap open))
  BY <1>1, HoldersRestated DEF IInv
<1>4. \A t \in Socks \ {s} : ipOf'[t] = ipOf[t]
  BY <1>1, <1>2
<1>5. /\ ft' \in TrackerTable
      /\ peer_head' \in Seq(TrackerPeer)
      /\ heap' \in Heaps
      /\ open' \subseteq Socks
      /\ alive' \in BOOLEAN
      /\ \A n \in Names : ProperNode(ft'[n])
      /\ SocketsMatchPeerList'
      /\ alive' => /\ CellsOpen' /\ CellsDistinct' /\ CellsKept
                   /\ open' \subseteq open
      /\ Intact' => /\ Backed(ft', W \cap open')
                    /\ ip = ipOf[s] => Backed(ft', (W \cap open') \ {s})
  <2>1. W \in SUBSET (thread \cap open) /\ (Intact => Backed(ft, W))
    BY <1>2, <1>3
  <2>2. s \in W => ip = ipOf[s]
    OBVIOUS
  <2> HIDE DEF ip, W
  <2> QED
    BY <1>1, <1>2, <1>3, <2>1, <2>2, DeletePeerLemma
<1>6. HoldersProper' /\ HoldersOnline'
  <2>1. ASSUME Intact', NEW n \in Names, NEW a \in NodeHolders(ft'[n])
        PROVE  \E w \in heard' \cap open' : ipOf'[w] = a
    <3>1. Backed(ft', (W \cap open') \ {s})
      <4>1. CASE s \in heard
        BY <1>5, <2>1, <4>1
      <4>2. CASE s \notin heard
        BY <1>5, <2>1, <4>2 DEF Backed
      <4> QED
        BY <4>1, <4>2
    <3>2. PICK w \in (W \cap open') \ {s} : ipOf[w] = a
      BY <2>1, <3>1 DEF Backed
    <3>3. w \in Socks \ {s} /\ w \in heard' \cap open'
      BY <1>1, <1>2, <3>2
    <3> QED
      BY <1>4, <3>2, <3>3
  <2> QED
    BY <1>5, <2>1, HoldersAfter
<1>7. alive' => CellsInv'
  <2>1. thread' \subseteq thread /\ \A t \in thread' : ipOf'[t] = ipOf[t]
    BY <1>1, <1>2, <1>4
  <2> QED
    BY <1>2, <1>5, <2>1, CellsKnowIpKept DEF CellsInv
<1>8. TypeOK'
  BY <1>1, <1>2, <1>5 DEF TypeOK
<1>9. IpKnown'
  BY <1>1, <1>2, <1>4 DEF IInv, IpKnown
<1> QED
  BY <1>5, <1>6, <1>7, <1>8, <1>9 DEF IInv

\* Every step of the tracker and of its peers keeps the invariant.
LEMMA NextIInv == IInv /\ [Next]_vars => IInv'
<1> SUFFICES ASSUME IInv, [Next]_vars PROVE IInv'
  OBVIOUS
<1>1. ASSUME NEW s \in Socks, NEW i \in Ips, Accept(s, i) PROVE IInv'
  BY <1>1, AcceptIInv
<1>2. ASSUME NEW s \in Socks, RecvRegister(s) PROVE IInv'
  BY <1>2, RecvRegisterIInv
<1>3. ASSUME NEW s \in Socks, NEW peer_ft \in Announcements,
             RecvUpdate(s, peer_ft)
      PROVE  IInv'
  BY <1>3, RecvUpdateIInv
<1>4. ASSUME NEW s \in Socks, RecvKeepAlive(s) PROVE IInv'
  BY <1>4, RecvKeepAliveIInv
<1>5. ASSUME NEW s \in Socks, HandshakeExit(s) PROVE IInv'
  BY <1>5, HandshakeExitIInv
<1>6. ASSUME NEW s \in Socks, PeerCloses(s) PROVE IInv'
  BY <1>6, PeerGoesIInv DEF PeerCloses
<1>7. ASSUME NEW s \in Socks, PeerSilent(s) PROVE IInv'
  BY <1>7, PeerGoesIInv DEF PeerSilent
<1>8. ASSUME NEW i \in 1..Len(peer_head), HeartbeatExpire(i) PROVE IInv'
  BY <1>8, HeartbeatExpireIInv
<1>9. CASE Tick
  BY <1>9, TickIInv
<1>10. CASE UNCHANGED vars
  BY <1>10 DEF vars, conns, IInv, TypeOK, IpKnown, HoldersProper, HoldersOnline, Intact,
               SocketsMatchPeerList, Listed, CellsInv, CellsOpen, CellsDistinct,
               CellsKnowIp, FreedHead
<1> QED
  BY <1>1, <1>2, <1>3, <1>4, <1>5, <1>6, <1>7, <1>8, <1>9, <1>10 DEF Next

-----------------------------------------------------------------------------
(* The versions in the file table.                                         *)

\* What a step may do to the node of one name: keep its version or replace it
\* by a newer one with at most one holder.
NodeStep(old, new) ==
  /\ old # NoFile => /\ new # NoFile
                     /\ SameVersion(new, old) \/ Newer(new, old)
  /\ /\ new # NoFile
     /\ old # NoFile => ~SameVersion(new, old)
     => Len(new.newpeerip) <= 1

TableStep(old, new) == \A n \in Names : NodeStep(old[n], new[n])

LEMMA SameTable ==
  ASSUME NEW table PROVE TableStep(table, table)
  BY DEF TableStep, NodeStep, SameVersion

\* Forgetting a peer after a step of the table leaves it such a step.
LEMMA ForgetAfter ==
  ASSUME NEW table \in TrackerTable, NEW mid \in TrackerTable, NEW ip,
         TableStep(table, mid)
  PROVE  TableStep(table, ForgetPeer(mid, ip))
<1> DEFINE new == ForgetPeer(mid, ip)
<1>1. ASSUME NEW n \in Names PROVE NodeStep(table[n], new[n])
  <2>1. /\ new[n] = NoFile <=> mid[n] = NoFile
        /\ mid[n] # NoFile => /\ new[n].timestamp = mid[n].timestamp
                              /\ new[n].size = mid[n].size
                              /\ Len(new[n].newpeerip) <= Len(mid[n].newpeerip)
    BY ForgetPeerLemma
  <2>2. NodeStep(table[n], mid[n])
    BY DEF TableStep
  <2>3. new \in TrackerTable
    BY ForgetPeerLemma
  <2> HIDE DEF new
  <2>4. /\ mid[n] # NoFile => Len(mid[n].newpeerip) \in Nat
        /\ new[n] # NoFile => Len(new[n].newpeerip) \in Nat
    BY <2>3 DEF TrackerTable, TrackerNode
  <2> QED
    BY <2>1, <2>2, <2>4 DEF NodeStep, SameVersion, Newer
<1> HIDE DEF new
<1>2. TableStep(table, new)
  BY <1>1 DEF TableStep
<1> QED
  BY <1>2 DEF new

\* Merging an announced table is such a step.
LEMMA MergeStep ==
  ASSUME NEW table \in TrackerTable, NEW peer_ft \in PeerTable, NEW ip \in Ips
  PROVE  TableStep(table, MergeTable(table, peer_ft, ip))
  BY MergeTableLemma DEF TableStep, NodeStep

\* Every step of the specification changes the file table so.
LEMMA NextTableStep == IInv /\ [Next]_vars => TableStep(ft, ft')
<1> SUFFICES ASSUME IInv, [Next]_vars PROVE TableStep(ft, ft')
  OBVIOUS
<1>1. ft \in TrackerTable
  BY DEF IInv, TypeOK
<1>2. ASSUME NEW mid \in TrackerTable, TableStep(ft, mid), NEW s, NEW ip,
             DeletePeer(mid, s, ip)
      PROVE  TableStep(ft, ft')
  BY <1>1, <1>2, ForgetAfter DEF DeletePeer
<1>3. ASSUME ft' = ft PROVE TableStep(ft, ft')
  BY <1>3, SameTable
<1>4. TableStep(ft, ft)
  BY SameTable
<1>5. ASSUME NEW s \in Socks, NEW i \in Ips, Accept(s, i)
      PROVE  TableStep(ft, ft')
  BY <1>3, <1>5 DEF Accept
<1>6. ASSUME NEW s \in Socks, RecvRegister(s) PROVE TableStep(ft, ft')
  BY <1>1, <1>2, <1>3, <1>4, <1>6 DEF RecvRegister
<1>7. ASSUME NEW s \in Socks, NEW peer_ft \in Announcements,
             RecvUpdate(s, peer_ft)
      PROVE  TableStep(ft, ft')
  <2> DEFINE mid == MergeTable(ft, peer_ft, ipOf[s])
  <2>1. peer_ft \in PeerTable /\ s \in thread /\ alive /\ Broadcast(mid)
    BY <1>7, AnnouncementsAssumption DEF RecvUpdate, CanReceive
  <2>2. ipOf[s] \in Ips
    BY <2>1 DEF IInv, IpKnown
  <2>3. mid \in TrackerTable /\ TableStep(ft, mid)
    BY <1>1, <2>1, <2>2, MergeTableLemma, MergeStep
  <2> HIDE DEF mid
  <2>4. ft' = mid \/ \E t, ip : DeletePeer(mid, t, ip)
    BY <2>1 DEF Broadcast
  <2> QED
    BY <1>2, <2>3, <2>4
<1>8. ASSUME NEW s \in Socks, HandshakeExit(s) PROVE TableStep(ft, ft')
  BY <1>1, <1>2, <1>4, <1>8 DEF HandshakeExit
<1>9. ASSUME NEW i \in 1..Len(peer_head), HeartbeatExpire(i)
      PROVE  TableStep(ft, ft')
  BY <1>1, <1>2, <1>4, <1>9 DEF HeartbeatExpire
<1>10. ASSUME NEW s \in Socks,
              RecvKeepAlive(s) \/ PeerCloses(s) \/ PeerSilent(s)
       PROVE  TableStep(ft, ft')
  BY <1>3, <1>10 DEF RecvKeepAlive, PeerCloses, PeerSilent, PeerGoes
<1>11. CASE Tick \/ UNCHANGED vars
  BY <1>3, <1>11 DEF Tick, vars
<1> QED
  BY <1>5, <1>6, <1>7, <1>8, <1>9, <1>10, <1>11 DEF Next

-----------------------------------------------------------------------------
(* The theorems.                                                           *)

\* The inductive invariant holds in every reachable state of the tracker.
THEOREM Invariance == Spec => []IInv
  BY InitIInv, NextIInv, PTL DEF Spec

\* Every variable of the tracker keeps its type.
THEOREM TypeCorrect == Spec => []TypeOK
<1>1. IInv => TypeOK
  BY DEF IInv
<1> QED
  BY <1>1, Invariance, PTL

\* Holder lists never overflow newpeerip and never name a peer twice, for any
\* MAX_PEER_NUM (update_filetable, delete_peer).
THEOREM HoldersStayProper == Spec => []HoldersProper
<1>1. IInv => HoldersProper
  BY DEF IInv
<1> QED
  BY <1>1, Invariance, PTL

\* The tracker offers no address it has lost its connections to, for any number
\* of peers and sessions (handshake, heartbeat, broadcast_filetable).
THEOREM HoldersStayOnline == Spec => []HoldersOnline
<1>1. IInv => HoldersOnline
  BY DEF IInv
<1> QED
  BY <1>1, Invariance, PTL

\* Until the head of the list is freed, the list of peers is the set of open
\* sockets, without repetition (add_peer, delete_peer).
THEOREM ListMatchesSockets == Spec => []SocketsMatchPeerList
<1>1. IInv => SocketsMatchPeerList
  BY DEF IInv
<1> QED
  BY <1>1, Invariance, PTL

\* No socket has two cells in the list, but for the freed head's, as long as that has
\* not been freed twice (add_peer, delete_peer).
THEOREM CellsListedOnce == Spec => []ListedOnce
<1>1. IInv => ListedOnce
  BY DEF IInv, ListedOnce, Intact, CellsInv, CellsDistinct, FreedHead
<1> QED
  BY <1>1, Invariance, PTL

\* No step of the tracker, whoever announces, leaves or expires, replaces a
\* version of a file by an older one or forgets a file (update_filetable).
THEOREM VersionsOnlyGrow == Spec => VersionsNeverRegress
<1>1. IInv /\ [Next]_vars
      => [\A n \in Names : ft[n] # NoFile =>
            /\ ft'[n] # NoFile
            /\ SameVersion(ft'[n], ft[n]) \/ Newer(ft'[n], ft[n])]_vars
  BY NextTableStep DEF TableStep, NodeStep
<1> QED
  BY <1>1, Invariance, PTL DEF Spec, VersionsNeverRegress

\* A new version starts with at most one holder, the peer that announced it
\* (update_filetable: ADD_FILE, UPDATE_FILE_VERSION).
THEOREM NewVersionsStartAlone == Spec => NewVersionSoleHolder
<1>1. IInv /\ [Next]_vars
      => [\A n \in Names :
            /\ ft'[n] # NoFile
            /\ ft[n] # NoFile => ~SameVersion(ft'[n], ft[n])
            => Len(ft'[n].newpeerip) <= 1]_vars
  BY NextTableStep DEF TableStep, NodeStep
<1> QED
  BY <1>1, Invariance, PTL DEF Spec, NewVersionSoleHolder

-----------------------------------------------------------------------------
(* The tracker implements the registry: each of its steps is a step of     *)
(* Registry, or leaves unchanged what Registry knows of the tracker.       *)

\* The holders of every version in the table.
Providers(table) == [n \in Names |-> NodeHolders(table[n])]

\* ... and what is left of them when some are gone.
ProvidersBut(table, gone) == [n \in Names |-> NodeHolders(table[n]) \ gone]

\* The addresses of the sessions in W.
Addresses(W) == {ipOf[w] : w \in W}

-----------------------------------------------------------------------------
(* The table, as Registry sees it.                                         *)

\* A proper list has as many holders as entries.
LEMMA ProperCount ==
  ASSUME NEW list \in Seq(Ips), ProperList(list)
  PROVE  Cardinality(Holders(list)) = Len(list)
<1>1. Len(list) \in Nat /\ list \in [1..Len(list) -> Holders(list)]
  BY DEF Holders
<1>2. list \in Bijection(1..Len(list), Holders(list))
  BY <1>1 DEF Bijection, Injection, IsInjective, Surjection, Holders, ProperList
<1>3. ExistsBijection(1..Len(list), Holders(list))
  BY <1>2 DEF ExistsBijection
<1> QED
  BY <1>1, <1>3, FS_CountingElements

\* Forgetting a peer changes no version, and takes that holder off every list.
LEMMA ForgetPeerAbstract ==
  ASSUME NEW table \in TrackerTable, \A n \in Names : ProperNode(table[n]), NEW ip
  PROVE  /\ Versions(ForgetPeer(table, ip)) = Versions(table)
         /\ Providers(ForgetPeer(table, ip)) = ProvidersBut(table, {ip})
<1> DEFINE new == ForgetPeer(table, ip)
<1>1. ASSUME NEW n \in Names
      PROVE  /\ new[n] = NoFile <=> table[n] = NoFile
             /\ table[n] # NoFile => /\ new[n].timestamp = table[n].timestamp
                                     /\ new[n].size = table[n].size
             /\ NodeHolders(new[n]) = NodeHolders(table[n]) \ {ip}
  <2>1. /\ NodeHolders(new[n]) \subseteq NodeHolders(table[n])
        /\ NodeHolders(table[n]) \ {ip} \subseteq NodeHolders(new[n])
        /\ ip \notin NodeHolders(new[n])
    BY ForgetPeerLemma
  <2>2. NodeHolders(new[n]) = NodeHolders(table[n]) \ {ip}
    BY <2>1
  <2> QED
    BY <2>2, ForgetPeerLemma
<1> HIDE DEF new
<1>2. Versions(new) = Versions(table)
  BY <1>1 DEF Versions
<1>3. Providers(new) = ProvidersBut(table, {ip})
  BY <1>1 DEF Providers, ProvidersBut
<1> QED
  BY <1>2, <1>3 DEF new

Version(node) == IF node = NoFile THEN NoFile ELSE <<node.timestamp, node.size>>

\* Merging a node is what Registry says of it: news replace version and holders,
\* the known version gains a holder if there is room, the rest is ignored.
LEMMA MergeNodeAbstract ==
  ASSUME NEW mine \in TrackerNode \cup {NoFile}, ProperNode(mine),
         NEW node \in PeerNode, NEW ip \in Ips,
         NEW new, new = MergeNode(mine, node, ip)
  PROVE  /\ Promise!IsNews(node, Version(mine)) =>
              Version(new) = Promise!VersionOf(node) /\ NodeHolders(new) = {ip}
         /\ ~Promise!IsNews(node, Version(mine)) => Version(new) = Version(mine)
         /\ Promise!IsKnown(node, Version(mine)) =>
              /\ ~Promise!IsNews(node, Version(mine))
              /\ Cardinality(NodeHolders(mine)) < MAX_PEER_NUM =>
                   NodeHolders(new) = NodeHolders(mine) \cup {ip}
              /\ ~(Cardinality(NodeHolders(mine)) < MAX_PEER_NUM) =>
                   NodeHolders(new) = NodeHolders(mine)
         /\ ~Promise!IsNews(node, Version(mine)) /\ ~Promise!IsKnown(node, Version(mine)) =>
              NodeHolders(new) = NodeHolders(mine)
<1>1. /\ node # NoFile /\ node.timestamp \in Nat /\ node.size \in Nat
      /\ mine # NoFile => /\ mine \in TrackerNode /\ mine.timestamp \in Nat
                          /\ mine.size \in Nat /\ mine.newpeerip \in Seq(Ips)
  BY NoFileAssumption DEF PeerNode, TrackerNode
<1>2. Version(mine) = NoFile <=> mine = NoFile
  BY <1>1, NoVersionAssumption DEF Version
<1>3. Promise!IsNews(node, Version(mine)) <=> mine = NoFile \/ Newer(node, mine)
  BY <1>1, <1>2 DEF Promise!IsNews, Promise!Later, Promise!VersionOf, Version, Newer
<1>4. Promise!IsKnown(node, Version(mine)) <=> mine # NoFile /\ SameVersion(node, mine)
  BY <1>1, <1>2 DEF Promise!IsKnown, Promise!VersionOf, Version, SameVersion
<1>5. CASE mine = NoFile \/ Newer(node, mine)
  <2>1. new = FreshNode(node, ip)
    BY <1>5 DEF MergeNode
  <2>2. <<ip>> \in Seq(Ips) /\ Len(<<ip>>) = 1 /\ <<ip>>[1] = ip
    OBVIOUS
  <2>3. /\ new \in TrackerNode /\ new.timestamp = node.timestamp /\ new.size = node.size
        /\ new.newpeerip = <<ip>>
    BY <2>1, <2>2 DEF FreshNode, TrackerNode, PeerNode
  <2>4. new # NoFile
    BY <2>3, NoFileAssumption
  <2>5. Version(new) = Promise!VersionOf(node)
    BY <2>3, <2>4 DEF Version, Promise!VersionOf
  <2>6. NodeHolders(new) = {ip}
    BY <2>2, <2>3, <2>4 DEF NodeHolders, Holders
  <2>7. ~(mine # NoFile /\ SameVersion(node, mine))
    BY <1>1, <1>5 DEF Newer, SameVersion
  <2> QED
    BY <1>3, <1>4, <1>5, <2>5, <2>6, <2>7
<1>6. CASE mine # NoFile /\ ~Newer(node, mine) /\ SameVersion(node, mine)
  <2>1. new = [mine EXCEPT !.newpeerip = Enlist(@, ip)]
    BY <1>6 DEF MergeNode
  <2>2. Enlist(mine.newpeerip, ip) \in Seq(Ips)
    BY <1>1, <1>6, EnlistLemma
  <2>3. /\ new \in TrackerNode /\ new.timestamp = mine.timestamp /\ new.size = mine.size
        /\ new.newpeerip = Enlist(mine.newpeerip, ip)
    BY <1>1, <1>6, <2>1, <2>2 DEF TrackerNode
  <2>4. new # NoFile
    BY <2>3, NoFileAssumption
  <2>5. Version(new) = Version(mine)
    BY <1>6, <2>3, <2>4 DEF Version
  <2>6. Holders(Enlist(mine.newpeerip, ip)) =
          IF Len(mine.newpeerip) < MAX_PEER_NUM
          THEN Holders(mine.newpeerip) \cup {ip} ELSE Holders(mine.newpeerip)
    BY <1>1, <1>6, EnlistLemma
  <2>7. Cardinality(Holders(mine.newpeerip)) = Len(mine.newpeerip)
    BY <1>1, <1>6, ProperCount DEF ProperNode
  <2>8. NodeHolders(mine) = Holders(mine.newpeerip) /\ NodeHolders(new) = Holders(new.newpeerip)
    BY <1>6, <2>4 DEF NodeHolders
  <2>9. NodeHolders(new) = IF Cardinality(NodeHolders(mine)) < MAX_PEER_NUM
                           THEN NodeHolders(mine) \cup {ip} ELSE NodeHolders(mine)
    BY <2>3, <2>6, <2>7, <2>8
  <2> QED
    BY <1>3, <1>4, <1>6, <2>5, <2>9
<1>7. CASE mine # NoFile /\ ~Newer(node, mine) /\ ~SameVersion(node, mine)
  BY <1>3, <1>4, <1>7 DEF MergeNode
<1> QED
  BY <1>5, <1>6, <1>7

\* Merging a table, likewise.
LEMMA MergeTableAbstract ==
  ASSUME TypeOK, HoldersProper, NEW peer_ft \in Announcements, NEW ip \in Ips
  PROVE  LET table == MergeTable(ft, peer_ft, ip)
         IN  /\ Versions(table) = Promise!Merged(peer_ft)
             /\ Providers(table) = Promise!Offering(peer_ft, ip)
<1> DEFINE table == MergeTable(ft, peer_ft, ip)
           holders == [n \in Names |-> IF ft[n] = NoFile THEN {} ELSE Holders(ft[n].newpeerip)]
           version == [n \in Names |-> IF ft[n] = NoFile THEN NoFile
                                       ELSE <<ft[n].timestamp, ft[n].size>>]
           offered(n) == CASE Promise!IsNews(peer_ft[n], version[n]) -> {ip}
                           [] /\ Promise!IsKnown(peer_ft[n], version[n])
                              /\ Cardinality(holders[n]) < MAX_PEER_NUM -> holders[n] \cup {ip}
                           [] OTHER -> holders[n]
<1>1. ASSUME NEW n \in Names
      PROVE  /\ Version(table[n]) = IF Promise!IsNews(peer_ft[n], version[n])
                                    THEN Promise!VersionOf(peer_ft[n]) ELSE version[n]
             /\ NodeHolders(table[n]) = offered(n)
  <2>1. /\ ft[n] \in TrackerNode \cup {NoFile} /\ ProperNode(ft[n])
        /\ peer_ft[n] \in PeerNode \cup {NoFile}
    BY AnnouncementsAssumption, HoldersRestated DEF TypeOK, TrackerTable, PeerTable
  <2>2. version[n] = Version(ft[n]) /\ holders[n] = NodeHolders(ft[n])
    BY DEF Version, NodeHolders
  <2> HIDE DEF version, holders
  <2>3. CASE peer_ft[n] = NoFile
    <3>1. table[n] = ft[n]
      BY <2>3 DEF MergeTable
    <3>2. /\ ~Promise!IsNews(peer_ft[n], version[n])
          /\ ~Promise!IsKnown(peer_ft[n], version[n])
      BY <2>3 DEF Promise!IsNews, Promise!IsKnown
    <3> QED
      BY <2>2, <3>1, <3>2
  <2>4. CASE peer_ft[n] # NoFile
    <3>1. table[n] = MergeNode(ft[n], peer_ft[n], ip)
      BY <2>4 DEF MergeTable
    <3> HIDE DEF table
    <3>2. peer_ft[n] \in PeerNode
      BY <2>1, <2>4
    <3>3. CASE Promise!IsNews(peer_ft[n], version[n])
      <4>1. Promise!IsNews(peer_ft[n], Version(ft[n]))
        BY <2>2, <3>3
      <4>2. Version(table[n]) = Promise!VersionOf(peer_ft[n]) /\ NodeHolders(table[n]) = {ip}
        BY <2>1, <3>1, <3>2, <4>1, MergeNodeAbstract
      <4>3. ~Promise!IsKnown(peer_ft[n], version[n])
        BY <2>1, <2>2, <3>1, <3>2, <4>1, MergeNodeAbstract
      <4> QED
        BY <3>3, <4>2, <4>3
    <3>4. CASE Promise!IsKnown(peer_ft[n], version[n])
      <4>1. ~Promise!IsNews(peer_ft[n], version[n])
        BY <2>1, <2>2, <3>2, <3>4, MergeNodeAbstract
      <4>2. NodeHolders(table[n]) = IF Cardinality(holders[n]) < MAX_PEER_NUM
                                    THEN holders[n] \cup {ip} ELSE holders[n]
        <5>1. Promise!IsKnown(peer_ft[n], Version(ft[n]))
          BY <2>2, <3>4
        <5>2. /\ Cardinality(NodeHolders(ft[n])) < MAX_PEER_NUM =>
                   NodeHolders(table[n]) = NodeHolders(ft[n]) \cup {ip}
              /\ ~(Cardinality(NodeHolders(ft[n])) < MAX_PEER_NUM) =>
                   NodeHolders(table[n]) = NodeHolders(ft[n])
          BY <2>1, <3>1, <3>2, <5>1, MergeNodeAbstract
        <5> QED
          BY <2>2, <5>2
      <4>3. Version(table[n]) = version[n]
        BY <2>1, <2>2, <3>1, <3>2, <4>1, MergeNodeAbstract
      <4> QED
        BY <3>4, <4>1, <4>2, <4>3
    <3>5. CASE ~Promise!IsNews(peer_ft[n], version[n]) /\ ~Promise!IsKnown(peer_ft[n], version[n])
      BY <2>1, <2>2, <3>1, <3>2, <3>5, MergeNodeAbstract
    <3> QED
      BY <3>3, <3>4, <3>5
  <2> QED
    BY <2>3, <2>4
<1>2. Versions(table) = [n \in Names |-> Version(table[n])]
  BY DEF Versions, Version
<1>3. Versions(table) = Promise!Merged(peer_ft)
  <2> HIDE DEF table
  <2> QED
    BY <1>1, <1>2 DEF Promise!Merged
<1>4. Providers(table) = Promise!Offering(peer_ft, ip)
  <2>1. Promise!Offering(peer_ft, ip) = [n \in Names |-> offered(n)]
    BY DEF Promise!Offering
  <2> HIDE DEF table, offered
  <2> QED
    BY <1>1, <2>1 DEF Providers
<1> QED
  BY <1>3, <1>4

-----------------------------------------------------------------------------
(* The actions of Registry, in terms of the tracker.                       *)

LEMMA Stutter ==
  ASSUME Versions(ft') = Versions(ft), Providers(ft') = Providers(ft),
         Online' = Online, Intact' = Intact
  PROVE  UNCHANGED Promise!vars
  BY DEF Promise!vars, Versions, Providers, NodeHolders

LEMMA Crashes ==
  ASSUME Intact, ~Intact'
  PROVE  Promise!Next
  BY DEF Promise!Next, Promise!Crash

LEMMA Joins ==
  ASSUME NEW ip \in Ips, Intact, Intact', ft' = ft, Online' = Online \cup {ip}
  PROVE  Promise!Next
<1>1. Promise!Join(ip)
  BY DEF Promise!Join
<1> QED
  BY <1>1 DEF Promise!Next

LEMMA Leaves ==
  ASSUME NEW ip \in Ips, Intact, Intact', Versions(ft') = Versions(ft),
         Providers(ft') = ProvidersBut(ft, {ip}),
         Online' \ {ip} = Online \ {ip}
  PROVE  Promise!Next
<1>1. Promise!Leave(ip)
  BY DEF Promise!Leave, Promise!Only, Versions, Providers, ProvidersBut, NodeHolders
<1> QED
  BY <1>1 DEF Promise!Next

LEMMA Announces ==
  ASSUME TypeOK, HoldersProper, Intact, Intact',
         NEW ip \in Ips, NEW peer_ft \in Announcements,
         NEW broken, broken = {} \/ \E q \in Ips : broken = {q},
         NEW table, table = MergeTable(ft, peer_ft, ip),
         Versions(ft') = Versions(table),
         Providers(ft') = ProvidersBut(table, broken),
         Online' \ broken = (Online \cup {ip}) \ broken
  PROVE  Promise!Next
<1>1. Versions(table) = Promise!Merged(peer_ft) /\ Providers(table) = Promise!Offering(peer_ft, ip)
  BY MergeTableAbstract
<1>2. Versions(ft') = Promise!Merged(peer_ft)
  BY <1>1
<1>3. Providers(ft') = [n \in Names |-> Promise!Offering(peer_ft, ip)[n] \ broken]
  BY <1>1 DEF Providers, ProvidersBut
<1>0. broken \in {{}} \cup {{q} : q \in Ips}
  OBVIOUS
<1>4. Promise!Announce(ip, peer_ft, broken)
  BY <1>2, <1>3 DEF Promise!Announce, Versions, Providers, NodeHolders
<1> QED
  BY <1>0, <1>4 DEF Promise!Next

LEMMA AnnouncesUnbroken ==
  ASSUME TypeOK, HoldersProper, Intact, Intact',
         NEW ip \in Ips, NEW peer_ft \in Announcements,
         NEW table, table = MergeTable(ft, peer_ft, ip),
         Versions(ft') = Versions(table), Providers(ft') = Providers(table),
         Online' = Online \cup {ip}
  PROVE  Promise!Next
<1>1. PICK broken : broken = {}
  OBVIOUS
<1>2. Providers(ft') = ProvidersBut(table, broken)
  <2>1. \A n \in Names : NodeHolders(table[n]) \ broken = NodeHolders(table[n])
    BY <1>1
  <2> QED
    BY <2>1 DEF Providers, ProvidersBut
<1>3. Online' \ broken = (Online \cup {ip}) \ broken
  BY <1>1
<1> QED
  BY <1>1, <1>2, <1>3, Announces

-----------------------------------------------------------------------------
(* The steps of the tracker.                                               *)

\* delete_peer takes one address off every list of holders, ...
LEMMA DeletePeerTable ==
  ASSUME NEW table \in TrackerTable, \A n \in Names : ProperNode(table[n]),
         NEW s, NEW ip, DeletePeer(table, s, ip)
  PROVE  Versions(ft') = Versions(table) /\ Providers(ft') = ProvidersBut(table, {ip})
  BY ForgetPeerAbstract DEF DeletePeer

\* ... closes at most one socket, ...
LEMMA DeletePeerSocket ==
  ASSUME TypeOK, CellsInv, SocketsMatchPeerList, alive,
         NEW table, NEW s \in Socks, NEW ip, DeletePeer(table, s, ip)
  PROVE  open' \subseteq open /\ open \ {s} \subseteq open' /\ alive' \in BOOLEAN
  BY UnlinkLemma DEF DeletePeer, CellsInv

\* ... and if that is the socket of the address, no other one loses a session.
LEMMA OneAddressLess ==
  ASSUME NEW W, NEW s, NEW ip, W \subseteq open, open \ {s} \subseteq open',
         s \in W => ip = ipOf[s] \/ open' = open
  PROVE  Addresses(W \cap open') \ {ip} = Addresses(W) \ {ip}
  BY DEF Addresses

\* Nobody is offered who has no address; so it does not matter if it is forgotten.
LEMMA NoAddress ==
  ASSUME NEW table \in TrackerTable, NEW ip, ip \notin Ips
  PROVE  ProvidersBut(table, {ip}) = Providers(table)
<1>1. ASSUME NEW n \in Names PROVE NodeHolders(table[n]) \ {ip} = NodeHolders(table[n])
  <2>1. CASE table[n] = NoFile
    BY <2>1 DEF NodeHolders
  <2>2. CASE table[n] # NoFile
    <3>1. table[n].newpeerip \in Seq(Ips)
      BY <2>2 DEF TrackerTable, TrackerNode
    <3> QED
      BY <2>2, <3>1 DEF NodeHolders, Holders
  <2> QED
    BY <2>1, <2>2
<1> QED
  BY <1>1 DEF Providers, ProvidersBut

LEMMA AcceptAbstract ==
  ASSUME IInv, Intact, NEW s \in Socks, NEW i \in Ips, Accept(s, i)
  PROVE  UNCHANGED Promise!vars
<1>0. Intact' = Intact
  BY DEF Accept, AddPeer, Intact
<1>1. /\ ft' = ft
      /\ s \notin open /\ open' = open \cup {s} /\ heard' = heard \ {s}
      /\ ipOf' = [ipOf EXCEPT ![s] = i]
  BY DEF Accept
<1>2. ipOf \in [Socks -> Ips \cup {NoIp}] /\ open \subseteq Socks
  BY DEF IInv, TypeOK
<1>3. heard' \cap open' = heard \cap open
  BY <1>1
<1>4. \A t \in heard \cap open : ipOf'[t] = ipOf[t]
  BY <1>1, <1>2
<1>5. Online' = Online
  BY <1>3, <1>4 DEF Online
<1> QED
  BY <1>0, <1>1, <1>5, Stutter

\* A packet adds the address of the peer to those that have been heard.
LEMMA ReceiveAbstract ==
  ASSUME IInv, NEW s \in Socks, CanReceive(s)
  PROVE  /\ Addresses(heard' \cap open) = Online \cup {ipOf[s]}
         /\ Online' = Addresses(heard' \cap open')
         /\ ipOf[s] \in Ips /\ alive
         /\ heard' \cap open \subseteq thread \cap open
<1>1. /\ alive /\ s \in thread /\ ipOf[s] \in Ips /\ heard' = heard \cup {s}
      /\ s \in heard' \cap open /\ ipOf' = ipOf
      /\ heard' \cap open \subseteq thread \cap open
  BY ReceiveBacks
<1> QED
  BY <1>1 DEF Addresses, Online

LEMMA RecvRegisterAbstract ==
  ASSUME IInv, Intact, NEW s \in Socks, RecvRegister(s)
  PROVE  Promise!Next
<1>1. CanReceive(s)
  BY DEF RecvRegister
<1>2. /\ Addresses(heard' \cap open) = Online \cup {ipOf[s]}
      /\ Online' = Addresses(heard' \cap open')
      /\ ipOf[s] \in Ips /\ alive
      /\ heard' \cap open \subseteq thread \cap open
  BY <1>1, ReceiveAbstract
<1>3. CASE ~Intact'
  BY <1>2, <1>3, Crashes
<1>4. CASE Intact' /\ ft' = ft /\ open' = open
  BY <1>2, <1>4, Joins
<1>5. CASE Intact' /\ DeletePeer(ft, s, ipOf[s])
  <2>1. /\ TypeOK /\ CellsInv /\ SocketsMatchPeerList /\ ft \in TrackerTable
        /\ \A n \in Names : ProperNode(ft[n])
    BY <1>2, HoldersRestated DEF IInv, TypeOK
  <2>2. Versions(ft') = Versions(ft) /\ Providers(ft') = ProvidersBut(ft, {ipOf[s]})
    BY <1>5, <2>1, DeletePeerTable
  <2>3. open' \subseteq open /\ open \ {s} \subseteq open'
    BY <1>2, <1>5, <2>1, DeletePeerSocket
  <2>4. Addresses(heard' \cap open') \ {ipOf[s]} = Addresses(heard' \cap open) \ {ipOf[s]}
    <3>1. (heard' \cap open) \cap open' = heard' \cap open'
      BY <2>3
    <3>2. heard' \cap open \subseteq open
      OBVIOUS
    <3> QED
      BY <2>3, <3>1, <3>2, OneAddressLess
  <2>5. Online' \ {ipOf[s]} = Online \ {ipOf[s]}
    BY <1>2, <2>4
  <2> QED
    BY <1>2, <1>5, <2>2, <2>5, Leaves
<1> QED
  BY <1>3, <1>4, <1>5 DEF RecvRegister, Intact

LEMMA RecvKeepAliveAbstract ==
  ASSUME IInv, Intact, NEW s \in Socks, RecvKeepAlive(s)
  PROVE  Promise!Next
<1>1. CanReceive(s) /\ ft' = ft /\ open' = open /\ Intact'
  BY DEF RecvKeepAlive, Intact
<1> QED
  BY <1>1, ReceiveAbstract, Joins

\* An announcement is merged, and the broadcast of the new table may find one
\* connection broken.
LEMMA RecvUpdateAbstract ==
  ASSUME IInv, Intact, NEW s \in Socks, NEW peer_ft \in Announcements, RecvUpdate(s, peer_ft)
  PROVE  Promise!Next
<1>1. CanReceive(s)
  BY DEF RecvUpdate
<1>2. /\ Addresses(heard' \cap open) = Online \cup {ipOf[s]}
      /\ Online' = Addresses(heard' \cap open')
      /\ ipOf[s] \in Ips /\ alive
      /\ heard' \cap open \subseteq thread \cap open
  BY <1>1, ReceiveAbstract
<1>3. /\ TypeOK /\ CellsInv /\ SocketsMatchPeerList /\ HoldersProper /\ ft \in TrackerTable
      /\ \A n \in Names : ProperNode(ft[n])
  BY <1>2, HoldersRestated DEF IInv, TypeOK
<1>4. PICK table : table = MergeTable(ft, peer_ft, ipOf[s])
  OBVIOUS
<1>5. Broadcast(table)
  BY <1>4 DEF RecvUpdate
<1>6. table \in TrackerTable /\ \A n \in Names : ProperNode(table[n])
  BY <1>2, <1>3, <1>4, AnnouncementsAssumption, MergeTableLemma
<1>7. CASE ~Intact'
  BY <1>2, <1>7, Crashes
<1>8. CASE Intact' /\ ft' = table /\ open' = open
  <2>1. Providers(ft') = Providers(table) /\ Versions(ft') = Versions(table)
    BY <1>8
  <2>2. Online' = Online \cup {ipOf[s]}
    BY <1>2, <1>8
  <2> QED
    BY <1>2, <1>3, <1>4, <1>8, <2>1, <2>2, AnnouncesUnbroken
<1>9. ASSUME Intact', NEW k \in 1..Len(peer_head),
             DeletePeer(table, peer_head[k].sockfd, peer_head[k].ip)
      PROVE  Promise!Next
  <2>1. PICK t, ip : t = peer_head[k].sockfd /\ ip = peer_head[k].ip
    OBVIOUS
  <2>2. DeletePeer(table, t, ip)
    BY <1>9, <2>1
  <2>3. t \in Socks
    <3>1. peer_head[k] \in TrackerPeer
      BY <1>3 DEF TypeOK
    <3> QED
      BY <2>1, <3>1 DEF TrackerPeer
  <2>4. t \in heard' \cap open => ip = ipOf[t] \/ ~Intact' \/ open' = open
    BY <1>2, <1>3, <2>1, <2>2, DeleteCellLemma DEF DeletePeer
  <2>5. open' \subseteq open /\ open \ {t} \subseteq open'
    BY <1>2, <1>3, <2>2, <2>3, DeletePeerSocket
  <2>6. Versions(ft') = Versions(table) /\ Providers(ft') = ProvidersBut(table, {ip})
    BY <1>6, <2>2, DeletePeerTable
  <2>7. Addresses(heard' \cap open') \ {ip} = Addresses(heard' \cap open) \ {ip}
    <3>1. (heard' \cap open) \cap open' = heard' \cap open'
      BY <2>5
    <3>2. heard' \cap open \subseteq open /\ (t \in heard' \cap open => ip = ipOf[t] \/ open' = open)
      BY <1>9, <2>4
    <3> QED
      BY <2>5, <3>1, <3>2, OneAddressLess
  <2>8. Online' \ {ip} = (Online \cup {ipOf[s]}) \ {ip}
    BY <1>2, <2>7
  <2>9. CASE ip \in Ips
    <3>1. PICK broken : broken = {ip}
      OBVIOUS
    <3>2. \E q \in Ips : broken = {q}
      BY <2>9, <3>1
    <3>3. /\ Providers(ft') = ProvidersBut(table, broken)
          /\ Online' \ broken = (Online \cup {ipOf[s]}) \ broken
      BY <2>6, <2>8, <3>1
    <3>4. /\ TypeOK /\ HoldersProper /\ Intact' /\ ipOf[s] \in Ips
          /\ Versions(ft') = Versions(table)
      BY <1>2, <1>3, <1>9, <2>6
    <3> QED
      BY <1>4, <3>2, <3>3, <3>4, Announces
  <2>10. CASE ip \notin Ips
    <3>1. \A w \in thread : ipOf[w] # ip
      BY <2>10 DEF IInv, IpKnown
    <3>2. open' = open \/ t \notin heard' \cap open
      BY <1>2, <1>9, <2>4, <3>1
    <3>3. heard' \cap open' = heard' \cap open
      BY <2>5, <3>2
    <3>4. Online' = Online \cup {ipOf[s]}
      BY <1>2, <3>3
    <3>5. Providers(ft') = Providers(table)
      BY <1>6, <2>6, <2>10, NoAddress
    <3> QED
      BY <1>2, <1>3, <1>4, <1>9, <2>6, <3>4, <3>5, AnnouncesUnbroken
  <2> QED
    BY <2>9, <2>10
<1>10. \/ ~Intact'
       \/ ft' = table /\ open' = open
       \/ \E k \in 1..Len(peer_head) : DeletePeer(table, peer_head[k].sockfd, peer_head[k].ip)
  <2>1. PICK k \in 0..Len(peer_head) :
          \/ ~Intact'
          \/ ft' = table /\ open' = open
          \/ k < Len(peer_head) /\ DeletePeer(table, peer_head[k + 1].sockfd, peer_head[k + 1].ip)
    BY <1>5 DEF Broadcast, Intact
  <2>2. k < Len(peer_head) => k + 1 \in 1..Len(peer_head)
    BY <1>3 DEF TypeOK
  <2> QED
    BY <2>1, <2>2
<1> QED
  BY <1>7, <1>8, <1>9, <1>10

\* A thread that ends, or a peer that the heartbeat expires, takes one address
\* with it, or none.
LEMMA DepartureAbstract ==
  ASSUME IInv, Intact, NEW s \in Socks, NEW ip, DeletePeer(ft, s, ip),
         s \in heard \cap open => ip = ipOf[s] \/ ~Intact' \/ open' = open,
         ip \notin Ips => s \notin heard \cap open \/ ~Intact' \/ open' = open,
         Online' \ {ip} = Addresses(heard \cap open') \ {ip},
         ip \notin Ips => Online' = Addresses(heard \cap open')
  PROVE  [Promise!Next]_Promise!vars
<1>1. /\ TypeOK /\ CellsInv /\ SocketsMatchPeerList /\ ft \in TrackerTable
      /\ (\A n \in Names : ProperNode(ft[n])) /\ alive
  BY HoldersRestated DEF IInv, TypeOK, Intact
<1>2. CASE ~Intact'
  BY <1>2, Crashes
<1>3. CASE Intact'
  <2>1. open' \subseteq open /\ open \ {s} \subseteq open'
    BY <1>1, DeletePeerSocket
  <2>2. Versions(ft') = Versions(ft) /\ Providers(ft') = ProvidersBut(ft, {ip})
    BY <1>1, DeletePeerTable
  <2>3. Addresses(heard \cap open') \ {ip} = Online \ {ip}
    <3>1. (heard \cap open) \cap open' = heard \cap open' /\ Online = Addresses(heard \cap open)
      BY <2>1 DEF Online, Addresses
    <3>2. heard \cap open \subseteq open /\ (s \in heard \cap open => ip = ipOf[s] \/ open' = open)
      BY <1>3
    <3> QED
      BY <2>1, <3>1, <3>2, OneAddressLess
  <2>4. CASE ip \in Ips
    <3>1. Online' \ {ip} = Online \ {ip}
      BY <2>3
    <3> QED
      BY <1>3, <2>2, <2>4, <3>1, Leaves
  <2>5. CASE ip \notin Ips
    <3>1. heard \cap open' = heard \cap open
      BY <1>3, <2>1, <2>5
    <3>2. Online' = Online
      BY <2>5, <3>1 DEF Online, Addresses
    <3>3. Providers(ft') = Providers(ft)
      BY <1>1, <2>2, <2>5, NoAddress
    <3> QED
      BY <1>3, <2>2, <3>2, <3>3, Stutter
  <2> QED
    BY <2>4, <2>5
<1> QED
  BY <1>2, <1>3

LEMMA HeartbeatExpireAbstract ==
  ASSUME IInv, Intact, NEW k \in 1..Len(peer_head), HeartbeatExpire(k)
  PROVE  [Promise!Next]_Promise!vars
<1>1. /\ alive /\ DeletePeer(ft, peer_head[k].sockfd, peer_head[k].ip)
      /\ heard' = heard /\ ipOf' = ipOf
  BY DEF HeartbeatExpire, conns
<1>2. PICK s, ip : s = peer_head[k].sockfd /\ ip = peer_head[k].ip
  OBVIOUS
<1>3. s \in Socks
  <2>1. peer_head[k] \in TrackerPeer
    BY DEF IInv, TypeOK
  <2> QED
    BY <1>2, <2>1 DEF TrackerPeer
<1>4. s \in thread \cap open => ip = ipOf[s] \/ ~Intact' \/ open' = open
  BY <1>1, <1>2, DeleteCellLemma DEF DeletePeer, IInv
<1>5. heard \subseteq thread /\ \A w \in thread : ipOf[w] \in Ips
  BY DEF IInv, TypeOK, IpKnown
<1>6. Online' = Addresses(heard \cap open')
  BY <1>1 DEF Online, Addresses
<1> QED
  BY <1>1, <1>2, <1>3, <1>4, <1>5, <1>6, DepartureAbstract

LEMMA HandshakeExitAbstract ==
  ASSUME IInv, Intact, NEW s \in Socks, HandshakeExit(s)
  PROVE  [Promise!Next]_Promise!vars
<1>1. PICK ip : ip = IF s \in heard THEN ipOf[s] ELSE NoIp
  OBVIOUS
<1>2. /\ alive /\ s \in thread /\ DeletePeer(ft, s, ip)
      /\ heard' = heard \ {s} /\ ipOf' = [ipOf EXCEPT ![s] = NoIp]
  BY <1>1 DEF HandshakeExit
<1>3. /\ ipOf \in [Socks -> Ips \cup {NoIp}] /\ heard \subseteq Socks
      /\ \A w \in heard : ipOf[w] \in Ips
  BY DEF IInv, TypeOK, IpKnown
<1>4. \A w \in heard \ {s} : ipOf'[w] = ipOf[w]
  BY <1>2, <1>3
<1>5. Online' = Addresses((heard \ {s}) \cap open')
  BY <1>2, <1>4 DEF Online, Addresses
<1>6. CASE s \in heard
  <2>1. ip = ipOf[s] /\ ip \in Ips
    BY <1>1, <1>3, <1>6
  <2>2. Online' \ {ip} = Addresses(heard \cap open') \ {ip}
    BY <1>5, <2>1 DEF Addresses
  <2> QED
    BY <1>2, <2>1, <2>2, DepartureAbstract
<1>7. CASE s \notin heard
  <2>1. Online' = Addresses(heard \cap open')
    BY <1>5, <1>7 DEF Addresses
  <2> QED
    BY <1>2, <1>7, <2>1, DepartureAbstract
<1> QED
  BY <1>6, <1>7

LEMMA InitAbstract == Init => Promise!Init
<1> SUFFICES ASSUME Init PROVE Promise!Init
  OBVIOUS
<1>1. Online = {}
  BY DEF Init, Online
<1> QED
  BY <1>1 DEF Init, Promise!Init, Intact

\* A tracker that is dead or has freed the head twice stays so, and keeps the
\* versions of its files.
LEMMA BrokenStaysBroken == ~Intact /\ [Next]_vars => ~Intact'
<1>1. ASSUME NEW s, Unlink(s) PROVE ~Intact => ~Intact' \/ ~alive
  BY <1>1 DEF Unlink, FreeHead, FreeTwice, Intact
<1>2. ASSUME NEW table, Broadcast(table) PROVE ~Intact => ~Intact' \/ ~alive
  BY <1>1, <1>2 DEF Broadcast, DeletePeer, Intact
<1>3. ASSUME ~Intact, [Next]_vars PROVE ~Intact' \/ ~alive
  <2>1. ASSUME NEW s \in Socks, NEW i \in Ips, Accept(s, i) PROVE ~Intact' \/ ~alive
    BY <1>3, <2>1 DEF Accept, AddPeer, Intact
  <2>2. ASSUME NEW s \in Socks, RecvRegister(s) PROVE ~Intact' \/ ~alive
    BY <1>1, <1>3, <2>2 DEF RecvRegister, DeletePeer, Intact
  <2>3. ASSUME NEW s \in Socks, NEW peer_ft \in Announcements, RecvUpdate(s, peer_ft)
        PROVE  ~Intact' \/ ~alive
    BY <1>2, <1>3, <2>3 DEF RecvUpdate
  <2>4. ASSUME NEW s \in Socks, HandshakeExit(s) PROVE ~Intact' \/ ~alive
    BY <1>1, <1>3, <2>4 DEF HandshakeExit, DeletePeer
  <2>5. ASSUME NEW i \in 1..Len(peer_head), HeartbeatExpire(i) PROVE ~Intact' \/ ~alive
    BY <1>1, <1>3, <2>5 DEF HeartbeatExpire, DeletePeer
  <2>6. ASSUME \/ \E s \in Socks : RecvKeepAlive(s) \/ PeerCloses(s) \/ PeerSilent(s)
               \/ Tick
               \/ UNCHANGED vars
        PROVE  ~Intact' \/ ~alive
    BY <1>3, <2>6 DEF RecvKeepAlive, PeerCloses, PeerSilent, PeerGoes, Tick, vars, Intact
  <2> QED
    BY <1>3, <2>1, <2>2, <2>3, <2>4, <2>5, <2>6 DEF Next
<1>4. ASSUME ~alive, [Next]_vars PROVE ~alive'
  BY <1>4 DEF Next, vars, Accept, RecvRegister, RecvUpdate, RecvKeepAlive, CanReceive,
              HandshakeExit, PeerCloses, PeerSilent, PeerGoes, HeartbeatExpire, Tick
<1> QED
  BY <1>3, <1>4 DEF Intact

LEMMA AdriftAbstract ==
  ASSUME IInv, [Next]_vars, ~Intact
  PROVE  Promise!Next
<1>1. ~Intact'
  BY BrokenStaysBroken
<1>2. ft \in TrackerTable /\ ft' \in TrackerTable
  BY NextIInv DEF IInv, TypeOK
<1>3. TableStep(ft, ft')
  BY NextTableStep
<1>4. ASSUME NEW n \in Names
      PROVE  \/ Version(ft[n]) = NoFile
             \/ Version(ft'[n]) = Version(ft[n])
             \/ Version(ft'[n]) # NoFile /\ Promise!Later(Version(ft'[n]), Version(ft[n]))
  <2>1. CASE ft[n] = NoFile
    BY <2>1 DEF Version
  <2>2. CASE ft[n] # NoFile
    <3>1. /\ ft'[n] # NoFile
          /\ SameVersion(ft'[n], ft[n]) \/ Newer(ft'[n], ft[n])
      BY <1>3, <2>2 DEF TableStep, NodeStep
    <3>2. /\ Version(ft[n]) = <<ft[n].timestamp, ft[n].size>>
          /\ Version(ft'[n]) = <<ft'[n].timestamp, ft'[n].size>>
      BY <2>2, <3>1 DEF Version
    <3>3. ft'[n].timestamp \in Nat /\ ft'[n].size \in Nat
      BY <1>2, <3>1 DEF TrackerTable, TrackerNode
    <3>4. Version(ft'[n]) # NoFile
      BY <3>2, <3>3, NoVersionAssumption
    <3>5. Newer(ft'[n], ft[n]) => Promise!Later(Version(ft'[n]), Version(ft[n]))
      BY <3>2 DEF Newer, Promise!Later
    <3> QED
      BY <3>1, <3>2, <3>4, <3>5 DEF SameVersion
  <2> QED
    BY <2>1, <2>2
<1>5. Promise!Adrift
  BY <1>1, <1>4 DEF Promise!Adrift, Version
<1> QED
  BY <1>5 DEF Promise!Next

\* Every step of the tracker is a step of the registry, or changes nothing there.
LEMMA NextAbstract == IInv /\ [Next]_vars => [Promise!Next]_Promise!vars
<1> SUFFICES ASSUME IInv, [Next]_vars
             PROVE  [Promise!Next]_Promise!vars
  OBVIOUS
<1>0. CASE ~Intact
  BY <1>0, AdriftAbstract
<1>1. ASSUME Intact, NEW s \in Socks, NEW i \in Ips, Accept(s, i)
      PROVE  UNCHANGED Promise!vars
  BY <1>1, AcceptAbstract
<1>2. ASSUME Intact, NEW s \in Socks, RecvRegister(s)
      PROVE  Promise!Next
  BY <1>2, RecvRegisterAbstract
<1>3. ASSUME Intact, NEW s \in Socks, NEW peer_ft \in Announcements, RecvUpdate(s, peer_ft)
      PROVE  Promise!Next
  BY <1>3, RecvUpdateAbstract
<1>4. ASSUME Intact, NEW s \in Socks, RecvKeepAlive(s)
      PROVE  Promise!Next
  BY <1>4, RecvKeepAliveAbstract
<1>5. ASSUME Intact, NEW s \in Socks, HandshakeExit(s)
      PROVE  [Promise!Next]_Promise!vars
  BY <1>5, HandshakeExitAbstract
<1>6. ASSUME Intact, NEW i \in 1..Len(peer_head), HeartbeatExpire(i)
      PROVE  [Promise!Next]_Promise!vars
  BY <1>6, HeartbeatExpireAbstract
<1>7. ASSUME Intact,
             \/ \E s \in Socks : PeerCloses(s) \/ PeerSilent(s)
             \/ Tick
             \/ UNCHANGED vars
      PROVE  UNCHANGED Promise!vars
  <2>1. /\ ft' = ft /\ Intact' = Intact
        /\ heard' = heard /\ open' = open /\ ipOf' = ipOf
    BY <1>7 DEF PeerCloses, PeerSilent, PeerGoes, Tick, vars, conns, Intact
  <2>2. Online' = Online
    BY <2>1 DEF Online
  <2> QED
    BY <2>1, <2>2, Stutter
<1> QED
  BY <1>0, <1>1, <1>2, <1>3, <1>4, <1>5, <1>6, <1>7 DEF Next

\* The tracker implements the registry: whatever threads, sockets, broadcasts and
\* expiries do to the list of peers and to the table, it is an announcement, an
\* arrival or a departure of one address (tracker.c).
THEOREM TrackerImplementsRegistry == Spec => ImplementsRegistry
  BY InitAbstract, NextAbstract, Invariance, PTL
  DEF Spec, ImplementsRegistry, Promise!Spec
=============================================================================
