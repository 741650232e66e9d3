-------------------------- MODULE SharedTableProofs --------------------------
(***************************************************************************)
(* Theorems about the table that the tracker's threads share without a     *)
(* lock, for any number of threads, calls, files and addresses.            *)
(*                                                                         *)
(* Four invariants, each on top of those before: what a thread needs for   *)
(* its next access to be one into a node and an array (Safe); what the     *)
(* names of the nodes and their order say about the calls that have begun  *)
(* (Tidy, while appends do not overlap); what version a node has when the  *)
(* calls that are in progress are over (Versions, while updates do not     *)
(* overlap); and which addresses it has then (Lists, while no two calls    *)
(* do).                                                                    *)
(***************************************************************************)
EXTENDS SharedTable, SequenceTheorems, WellFoundedInduction, TLAPS

-----------------------------------------------------------------------------
(* The table that a call works towards (FileTable).                        *)

\* What is listed stays a list of addresses.
LEMMA ListTypes ==
  ASSUME NEW list \in Seq(Ips), NEW ip \in Ips
  PROVE  Enlist(list, ip) \in Seq(Ips) /\ Delist(list, ip) \in Seq(Ips)
<1>1. Enlist(list, ip) \in Seq(Ips)
  <2>1. Append(list, ip) \in Seq(Ips)
    OBVIOUS
  <2> QED
    BY <2>1 DEF Enlist
<1>2. Delist(list, ip) \in Seq(Ips)
  <2>1. CASE ip \notin Holders(list)
    BY <2>1 DEF Delist
  <2>2. CASE ip \in Holders(list)
    <3> DEFINE last == Len(list)
               place == CHOOSE i \in 1..last : list[i] = ip
               moved == [list EXCEPT ![place] = list[last]]
    <3>1. last \in Nat \ {0} /\ place \in 1..last
      BY <2>2 DEF Holders
    <3> HIDE DEF place
    <3>2. moved \in Seq(Ips) /\ Len(moved) = last
      BY <3>1
    <3> HIDE DEF moved
    <3>3. SubSeq(moved, 1, last - 1) \in Seq(Ips)
      BY <3>1, <3>2
    <3> QED
      BY <2>2, <3>3 DEF Delist, place, moved
  <2> QED
    BY <2>1, <2>2
<1> QED
  BY <1>1, <1>2

\* A merged table is a table, with a node of every name that had one.
LEMMA MergeTableTypes ==
  ASSUME NEW table \in TrackerTable, NEW peer_ft \in PeerTable, NEW ip \in Ips
  PROVE  /\ MergeTable(table, peer_ft, ip) \in TrackerTable
         /\ \A n \in Names : table[n] # NoFile => MergeTable(table, peer_ft, ip)[n] # NoFile
<1> DEFINE new(n) == MergeTable(table, peer_ft, ip)[n]
<1>1. ASSUME NEW n \in Names
      PROVE  /\ new(n) \in TrackerNode \cup {NoFile}
             /\ table[n] # NoFile => new(n) # NoFile
  <2> DEFINE mine == table[n]
             node == peer_ft[n]
  <2>1. /\ mine \in TrackerNode \cup {NoFile} /\ node \in PeerNode \cup {NoFile}
        /\ NoFile \notin TrackerNode
    BY NoFileAssumption DEF TrackerTable, PeerTable
  <2>2. new(n) = IF node = NoFile THEN mine ELSE MergeNode(mine, node, ip)
    BY DEF MergeTable
  <2>3. new(n) = mine \/ (node # NoFile /\ new(n) = FreshNode(node, ip))
        \/ (mine # NoFile /\ new(n) = [mine EXCEPT !.newpeerip = Enlist(@, ip)])
    BY <2>2 DEF MergeNode
  <2>4. node # NoFile => FreshNode(node, ip) \in TrackerNode
    <3>1. <<ip>> \in Seq(Ips)
      OBVIOUS
    <3> QED
      BY <2>1, <3>1 DEF FreshNode, TrackerNode, PeerNode
  <2>5. mine # NoFile => [mine EXCEPT !.newpeerip = Enlist(@, ip)] \in TrackerNode
    <3>1. ASSUME mine # NoFile PROVE mine \in TrackerNode /\ Enlist(mine.newpeerip, ip) \in Seq(Ips)
      BY <2>1, <3>1, ListTypes DEF TrackerNode
    <3> QED
      BY <3>1 DEF TrackerNode
  <2> QED
    BY <2>1, <2>3, <2>4, <2>5
<1>2. MergeTable(table, peer_ft, ip) = [n \in Names |-> new(n)]
  BY DEF MergeTable
<1>3. MergeTable(table, peer_ft, ip) \in TrackerTable
  BY <1>1, <1>2 DEF TrackerTable
<1> QED
  BY <1>1, <1>3

\* Forgetting a peer keeps the nodes and their versions.
LEMMA ForgetPeerTypes ==
  ASSUME NEW table \in TrackerTable, NEW ip \in Ips
  PROVE  /\ ForgetPeer(table, ip) \in TrackerTable
         /\ \A n \in Names :
              LET new == ForgetPeer(table, ip)[n]
              IN  /\ new = NoFile <=> table[n] = NoFile
                  /\ table[n] # NoFile =>
                       new.timestamp = table[n].timestamp /\ new.size = table[n].size
<1> DEFINE new(n) == ForgetPeer(table, ip)[n]
<1>1. ASSUME NEW n \in Names
      PROVE  /\ new(n) \in TrackerNode \cup {NoFile}
             /\ new(n) = NoFile <=> table[n] = NoFile
             /\ table[n] # NoFile =>
                  new(n).timestamp = table[n].timestamp /\ new(n).size = table[n].size
  <2> DEFINE mine == table[n]
  <2>1. mine \in TrackerNode \cup {NoFile} /\ NoFile \notin TrackerNode
    BY NoFileAssumption DEF TrackerTable
  <2>2. CASE mine = NoFile
    BY <2>2 DEF ForgetPeer
  <2>3. CASE mine # NoFile
    <3>1. new(n) = [mine EXCEPT !.newpeerip = Delist(@, ip)]
      BY <2>3 DEF ForgetPeer
    <3>2. mine \in TrackerNode /\ Delist(mine.newpeerip, ip) \in Seq(Ips)
      BY <2>1, <2>3, ListTypes DEF TrackerNode
    <3>3. /\ new(n) \in TrackerNode
          /\ new(n).timestamp = mine.timestamp /\ new(n).size = mine.size
      BY <3>1, <3>2 DEF TrackerNode
    <3> QED
      BY <2>1, <2>3, <3>3
  <2> QED
    BY <2>2, <2>3
<1>2. ForgetPeer(table, ip) = [n \in Names |-> new(n)]
  BY DEF ForgetPeer
<1>3. ForgetPeer(table, ip) \in TrackerTable
  BY <1>1, <1>2 DEF TrackerTable
<1> QED
  BY <1>1, <1>3

-----------------------------------------------------------------------------
(* The accesses.                                                           *)

UpdateLabels == {"next", "scan", "advance", "compare", "find", "enlist", "size", "timestamp",
                 "sole", "clean", "append", "sethead", "reread", "name", "fill", "cut"}
DeleteLabels == {"forget", "move", "clear"}

Labels == {"idle", "crashed"} \cup UpdateLabels \cup DeleteLabels

\* Where a thread is about to look at its node, or to store into it.
NodeLabels == (UpdateLabels \ {"next", "append"}) \cup {"move", "clear"}

ThreadOK(t) ==
  /\ pc[t] = "idle" <=> job[t] = None
  /\ pc[t] \in UpdateLabels => /\ job[t].call = "update"
                               /\ job[t].list # <<>>
                               /\ \A i, j \in 1..Len(job[t].list) :
                                    job[t].list[i].name = job[t].list[j].name => i = j
  /\ pc[t] \in DeleteLabels => job[t].call = "delete"
  /\ pc[t] \in NodeLabels => cursor[t] # NULL
  /\ pc[t] = "enlist" => index[t] \in Slots
  /\ pc[t] \in {"move", "clear"} => index[t] \in Slots /\ counter[t] > index[t]

Safe == TypeOK /\ pc \in [Threads -> Labels] /\ \A t \in Threads : ThreadOK(t)

-----------------------------------------------------------------------------
(* The names.                                                              *)

\* The thread's node is the one of the file it merges; and where the last node is one
\* that the thread has allocated and not named yet.
Found == {"compare", "find", "enlist", "size", "timestamp", "sole", "clean", "fill", "cut"}
Unnamed == {"sethead", "reread", "name"}

NamedAt(t) ==
  /\ pc[t] \in Found => Here(t).name = Wanted(t).name
  /\ pc[t] \in Unnamed => nodes[Len(nodes)].name = NoName

Named == \A t \in Threads : NamedAt(t)

\* An update that has yet to be done with file n.
Pending(t, n) ==
  /\ pc[t] \in UpdateLabels
  /\ \E i \in 1..Len(job[t].list) : job[t].list[i].name = n

HasNode(n) == \E i \in 1..Len(nodes) : nodes[i].name = n

Kept == \A n \in Names : expected[n] # NoFile => HasNode(n) \/ \E t \in Threads : Pending(t, n)

\* The list is all the nodes, in the order in which they were allocated, and one thread
\* at a time is at its end; a table of one node gets its head after the node.
InOrder ==
  /\ alive
  /\ \A t, u \in Threads : pc[t] \in Appending /\ pc[u] \in Appending => t = u
  /\ \A t \in Threads : pc[t] \in Appending =>
       cursor[t] = IF pc[t] = "reread" THEN Len(nodes) - 1 ELSE Len(nodes)
  /\ \A t \in Threads : pc[t] = "sethead" => Len(nodes) = 1
  /\ \A t \in Threads : pc[t] = "advance" => cursor[t] < Len(nodes)
  /\ head = IF nodes = <<>> \/ \E t \in Threads : pc[t] = "sethead" THEN NULL ELSE 1
  /\ \A i \in 1..Len(nodes) : nodes[i].next = IF i = Len(nodes) THEN NULL ELSE i + 1

Tidy == Named /\ Kept /\ InOrder

NamesInv == "appends" \notin races => Tidy

-----------------------------------------------------------------------------
(* The versions.                                                           *)

\* The node of file n has the version it should have.
Settled(n) ==
  \/ expected[n] = NoFile /\ ~HasNode(n)
  \/ /\ expected[n] # NoFile /\ HasNode(n)
     /\ \A i \in 1..Len(nodes) : nodes[i].name = n => SameVersion(nodes[i], expected[n])

\* It will have it when entry e has been merged.
Awaits(e) ==
  /\ expected[e.name] # NoFile
  /\ ~HasNode(e.name) => SameVersion(e, expected[e.name])
  /\ \A i \in 1..Len(nodes) : nodes[i].name = e.name =>
       SameVersion(IF Newer(e, nodes[i]) THEN e ELSE nodes[i], expected[e.name])

Updating(t) == pc[t] \in UpdateLabels

\* Where the entry that the thread merges has not been compared, and where it has
\* been stored, or need not be.
Before == {"next", "scan", "advance", "compare", "append"}
After == {"find", "enlist", "sole", "clean", "cut"}

\* Between: the stores are to come, or under way.
Storing == {"size", "timestamp", "sethead", "reread", "name", "fill"}

Versions ==
  /\ \A t, u \in Threads : Updating(t) /\ Updating(u) => t = u
  /\ \A n \in Names : (\A t \in Threads : ~Pending(t, n)) => Settled(n)
  /\ \A t \in Threads : Updating(t) =>
       \A k \in 1..Len(job[t].list) : k > 1 \/ pc[t] \in Before => Awaits(job[t].list[k])
  /\ \A t \in Threads : pc[t] \in After => Settled(Wanted(t).name)
  /\ \A t \in Threads : pc[t] \in Storing =>
       /\ expected[Wanted(t).name] # NoFile
       /\ SameVersion(Wanted(t), expected[Wanted(t).name])
  /\ \A t \in Threads : pc[t] = "timestamp" => Here(t).size = Wanted(t).size

\* Each file has one node, and an update that appends one has found none.
OneNode ==
  /\ \A i, j \in 1..Len(nodes) :
       nodes[i].name = nodes[j].name /\ nodes[i].name # NoName => i = j
  /\ \A i \in 1..Len(nodes) : nodes[i].name = NoName =>
       i = Len(nodes) /\ \E t \in Threads : pc[t] \in Unnamed
  /\ \A t \in Threads : pc[t] = "scan" =>
       \A i \in 1..Len(nodes) : i < cursor[t] => nodes[i].name # Wanted(t).name
  /\ \A t \in Threads : pc[t] = "advance" =>
       \A i \in 1..Len(nodes) : i <= cursor[t] => nodes[i].name # Wanted(t).name
  /\ \A t \in Threads : pc[t] \in {"append"} \cup Unnamed => ~HasNode(Wanted(t).name)

VersionsInv == "updates" \notin races => "appends" \notin races /\ Versions /\ OneNode

IInv == Safe /\ NamesInv /\ VersionsInv

-----------------------------------------------------------------------------
(* Numbers and cells.                                                      *)

\* A set of numbers has a smallest one.
LEMMA Smallest ==
  ASSUME NEW T, T \subseteq Nat, T # {}
  PROVE  \E m \in T : \A k \in T : m <= k
<1>1. PICK m \in T : \A k \in T : ~(<<k, m>> \in OpToRel(<, Nat))
  BY NatLessThanWellFounded, WFMin
<1>2. \A k \in T : k \in Nat /\ m \in Nat /\ ~(k < m)
  BY <1>1 DEF OpToRel
<1>3. \A k \in T : m <= k
  BY <1>2
<1> QED
  BY <1>1, <1>3

\* FirstEmpty finds what its loop stops at.
LEMMA FirstEmptyLemma ==
  ASSUME NEW cell, NEW i \in 0..MAX_PEER_NUM
  PROVE  /\ FirstEmpty(cell, i) \in i..MAX_PEER_NUM
         /\ FirstEmpty(cell, i) = MAX_PEER_NUM \/ cell.newpeerip[FirstEmpty(cell, i)] = NoIp
         /\ \A k \in i..(FirstEmpty(cell, i) - 1) : cell.newpeerip[k] # NoIp
<1> DEFINE stops == {j \in i..MAX_PEER_NUM : j = MAX_PEER_NUM \/ cell.newpeerip[j] = NoIp}
<1>1. MAX_PEER_NUM \in Nat /\ stops \subseteq Nat /\ MAX_PEER_NUM \in stops
  BY MaxPeerNumAssumption
<1>2. PICK m \in stops : \A k \in stops : m <= k
  BY <1>1, Smallest
<1>3. \A k \in i..(m - 1) : cell.newpeerip[k] # NoIp
  BY <1>1, <1>2
<1>4. \E j \in i..MAX_PEER_NUM :
        /\ j = MAX_PEER_NUM \/ cell.newpeerip[j] = NoIp
        /\ \A k \in i..(j - 1) : cell.newpeerip[k] # NoIp
  BY <1>2, <1>3
<1> QED
  BY <1>4 DEF FirstEmpty

\* A string copied into a slot of the array.
LEMMA PutIpLemma ==
  ASSUME NEW cell \in Cell, NEW i \in Slots, NEW ip \in Ips \cup {NoIp}
  PROVE  /\ PutIp(cell, i, ip) \in Cell
         /\ PutIp(cell, i, ip).name = cell.name
         /\ PutIp(cell, i, ip).timestamp = cell.timestamp
         /\ PutIp(cell, i, ip).size = cell.size
         /\ PutIp(cell, i, ip).next = cell.next
<1>1. cell.newpeerip \in [Slots -> Ips \cup {NoIp}]
  BY DEF Cell
<1>2. [j \in (DOMAIN cell.newpeerip) \cup {i} |-> IF j = i THEN ip ELSE cell.newpeerip[j]]
        \in [Slots -> Ips \cup {NoIp}]
  BY <1>1
<1> HIDE DEF Slots
<1> QED
  BY <1>1, <1>2 DEF PutIp, Cell

\* A store into the node that a thread looks at.
LEMMA SetLemma ==
  ASSUME TypeOK, NEW t \in Threads, cursor[t] # NULL,
         NEW cell \in Cell, cell.next \in 0..Len(nodes), Set(t, cell)
  PROVE  /\ nodes' \in Seq(Cell) /\ Len(nodes') = Len(nodes)
         /\ \A i \in 1..Len(nodes) : /\ nodes'[i] = IF i = cursor[t] THEN cell ELSE nodes[i]
                                     /\ nodes'[i].next \in 0..Len(nodes)
<1>1. nodes \in Seq(Cell) /\ \A i \in 1..Len(nodes) : nodes[i].next \in 0..Len(nodes)
  BY DEF TypeOK
<1> HIDE DEF Cell
<1>2. nodes' \in Seq(Cell) /\ Len(nodes') = Len(nodes)
  <2>1. cursor[t] \in 1..Len(nodes)
    BY DEF TypeOK, NULL
  <2> QED
    BY <1>1, <2>1, ExceptSeq DEF Set
<1>3. \A i \in 1..Len(nodes) : nodes'[i] = IF i = cursor[t] THEN cell ELSE nodes[i]
  BY <1>1 DEF Set
<1> QED
  BY <1>1, <1>2, <1>3

\* What a thread looks at is a node.
LEMMA HereLemma ==
  ASSUME TypeOK, NEW t \in Threads, cursor[t] # NULL
  PROVE  /\ cursor[t] \in 1..Len(nodes) /\ Len(nodes) \in Nat
         /\ Here(t) \in Cell /\ Here(t).next \in 0..Len(nodes)
<1>1. nodes \in Seq(Cell) /\ \A i \in 1..Len(nodes) : nodes[i].next \in 0..Len(nodes)
  BY DEF TypeOK
<1>2. cursor[t] \in 1..Len(nodes)
  BY DEF TypeOK, NULL
<1> QED
  BY <1>1, <1>2 DEF Here

-----------------------------------------------------------------------------
(* The threads.                                                            *)

\* The variables of the threads have values of their types, and those of the threads
\* other than t are what they were.
LocalTypes ==
  /\ pc \in [Threads -> Labels] /\ job \in [Threads -> Jobs \cup {None}]
  /\ index \in [Threads -> 0..MAX_PEER_NUM] /\ counter \in [Threads -> 0..MAX_PEER_NUM]
  /\ cursor \in [Threads -> Nat]

SameThread(u) ==
  /\ pc'[u] = pc[u] /\ job'[u] = job[u] /\ cursor'[u] = cursor[u]
  /\ index'[u] = index[u] /\ counter'[u] = counter[u]

OthersSame(t) == \A u \in Threads : u # t => SameThread(u)

LEMMA TypesLemma == ASSUME Safe PROVE LocalTypes /\ Len(nodes) \in Nat
<1>1. nodes \in Seq(Cell)
  BY DEF Safe, TypeOK
<1>2. Len(nodes) \in Nat
  BY <1>1
<1> QED
  BY <1>2 DEF Safe, TypeOK, LocalTypes

\* What an update is about.
LEMMA UpdateLemma ==
  ASSUME Safe, NEW t \in Threads, pc[t] \in UpdateLabels
  PROVE  /\ job[t] \in [call : {"update"}, ip : Ips, list : Seq(Entry)]
         /\ job[t].ip \in Ips /\ job[t].list \in Seq(Entry)
         /\ Len(job[t].list) \in Nat \ {0}
         /\ Wanted(t) \in Entry /\ Wanted(t) = job[t].list[1]
<1>1. ThreadOK(t) /\ job[t] \in Jobs \cup {None}
  BY DEF Safe, TypeOK
<1>2. job[t] # None /\ job[t].call = "update" /\ job[t].list # <<>>
  BY <1>1 DEF ThreadOK, UpdateLabels
<1>3. job[t] \in [call : {"update"}, ip : Ips, list : Seq(Entry)]
  BY <1>1, <1>2 DEF Jobs
<1>4. job[t].ip \in Ips /\ job[t].list \in Seq(Entry)
  BY <1>3
<1>5. Len(job[t].list) \in Nat \ {0} /\ Wanted(t) = job[t].list[1]
  BY <1>2, <1>4 DEF Wanted
<1>6. Wanted(t) \in Entry
  BY <1>4, <1>5
<1> QED
  BY <1>3, <1>4, <1>5, <1>6

LEMMA DeleteLemma ==
  ASSUME Safe, NEW t \in Threads, pc[t] \in DeleteLabels
  PROVE  /\ job[t] # None /\ job[t].call = "delete" /\ job[t].ip \in Ips
<1>1. ThreadOK(t) /\ job[t] \in Jobs \cup {None}
  BY DEF Safe, TypeOK
<1> QED
  BY <1>1 DEF ThreadOK, DeleteLabels, Jobs

LEMMA ReturnLemma ==
  ASSUME Safe, NEW t \in Threads, Return(t)
  PROVE  /\ LocalTypes' /\ OthersSame(t) /\ ThreadOK(t)'
         /\ cursor'[t] = NULL /\ pc'[t] = "idle"
<1>1. LocalTypes
  BY TypesLemma
<1>2. 0 \in 0..MAX_PEER_NUM /\ NULL \in Nat
  BY MaxPeerNumAssumption DEF NULL
<1>3. LocalTypes'
  <2> HIDE DEF Jobs
  <2>1. pc' \in [Threads -> Labels]
    <3>1. "idle" \in Labels
      BY DEF Labels
    <3> QED
      BY <1>1, <3>1 DEF LocalTypes, Return, Goto
  <2>4. job' \in [Threads -> Jobs \cup {None}]
    BY <1>1 DEF LocalTypes, Return
  <2>2. cursor' \in [Threads -> Nat]
    BY <1>1, <1>2 DEF LocalTypes, Return
  <2>3. index' \in [Threads -> 0..MAX_PEER_NUM] /\ counter' \in [Threads -> 0..MAX_PEER_NUM]
    BY <1>1, <1>2 DEF LocalTypes, Return
  <2> QED
    BY <2>1, <2>2, <2>3, <2>4 DEF LocalTypes
<1>4. OthersSame(t)
  BY <1>1 DEF LocalTypes, Return, Goto, OthersSame, SameThread
<1>5. pc'[t] = "idle" /\ job'[t] = None /\ cursor'[t] = NULL
  BY <1>1 DEF LocalTypes, Return, Goto
<1>6. ThreadOK(t)'
  BY <1>5 DEF ThreadOK, UpdateLabels, DeleteLabels, NodeLabels
<1> QED
  BY <1>3, <1>4, <1>5, <1>6

\* Done is about the rest of the announced table, if there is one.
LEMMA DoneLemma ==
  ASSUME Safe, NEW t \in Threads, pc[t] \in UpdateLabels, Done(t)
  PROVE  /\ LocalTypes' /\ OthersSame(t) /\ ThreadOK(t)'
         /\ cursor'[t] \in {NULL, cursor[t]}
         /\ \/ Len(job[t].list) = 1 /\ pc'[t] = "idle"
            \/ /\ Len(job[t].list) > 1 /\ pc'[t] = "next"
               /\ Len(job'[t].list) = Len(job[t].list) - 1
               /\ \A i \in 1..(Len(job[t].list) - 1) : job'[t].list[i] = job[t].list[i + 1]
<1>1. LocalTypes /\ ThreadOK(t)
  BY TypesLemma DEF Safe
<1>2. /\ job[t] \in [call : {"update"}, ip : Ips, list : Seq(Entry)]
      /\ job[t].list \in Seq(Entry) /\ Len(job[t].list) \in Nat \ {0}
  BY UpdateLemma
<1>5. /\ Len(job[t].list) \in Nat
      /\ Len(job[t].list) > 1 => Len(job[t].list) - 1 # 0
      /\ ~(Len(job[t].list) > 1) => Len(job[t].list) = 1
  <2> DEFINE n == Len(job[t].list)
  <2>1. n \in Nat \ {0}
    BY UpdateLemma
  <2> HIDE DEF n
  <2>2. n \in Nat /\ (n > 1 => n - 1 # 0) /\ (~(n > 1) => n = 1)
    BY <2>1
  <2> QED
    BY <2>2 DEF n
<1>3. CASE Len(job[t].list) > 1
  <2> DEFINE list == job[t].list
  <2>1. job' = [job EXCEPT ![t].list = Tail(list)] /\ Goto(t, "next")
        /\ UNCHANGED <<cursor, index, counter>>
    BY <1>3 DEF Done
  <2>2. /\ Tail(list) \in Seq(Entry) /\ Len(Tail(list)) = Len(list) - 1
        /\ \A i \in 1..(Len(list) - 1) : Tail(list)[i] = list[i + 1]
    BY <1>2, <1>3, HeadTailProperties
  <2>3. [job[t] EXCEPT !.list = Tail(list)] \in Jobs
    BY <1>2, <2>2 DEF Jobs
  <2>4. LocalTypes'
    <3>1. job' \in [Threads -> Jobs \cup {None}]
      <4> HIDE DEF Jobs
      <4>1. job' = [job EXCEPT ![t] = [job[t] EXCEPT !.list = Tail(list)]]
        BY <2>1
      <4> QED
        BY <1>1, <2>3, <4>1 DEF LocalTypes
    <3>2. pc' \in [Threads -> Labels]
      <4>1. "next" \in Labels
        BY DEF Labels, UpdateLabels
      <4> QED
        BY <1>1, <2>1, <4>1 DEF LocalTypes, Goto
    <3> QED
      BY <1>1, <2>1, <3>1, <3>2 DEF LocalTypes
  <2>5. OthersSame(t)
    BY <1>1, <2>1 DEF LocalTypes, Goto, OthersSame, SameThread
  <2>6. job'[t] = [job[t] EXCEPT !.list = Tail(list)] /\ pc'[t] = "next"
    BY <1>1, <2>1 DEF LocalTypes, Goto
  <2>7. job'[t].call = "update" /\ job'[t].list = Tail(list) /\ job'[t] # None
    <3>1. job'[t] \in Jobs
      BY <2>3, <2>6
    <3>2. job'[t].call = job[t].call /\ job'[t].list = Tail(list)
      BY <1>2, <2>6
    <3>3. job[t].call = "update"
      BY <1>2
    <3> QED
      BY <3>1, <3>2, <3>3, NoneAssumption
  <2>8. \A i, j \in 1..Len(list) : list[i].name = list[j].name => i = j
    BY <1>1 DEF ThreadOK
  <2> HIDE DEF list
  <2>9. Tail(list) # <<>>
    <3>1. Len(Tail(list)) # 0
      BY <1>3, <1>5, <2>2 DEF list
    <3> QED
      BY <2>2, <3>1, EmptySeq
  <2>10. \A i, j \in 1..(Len(list) - 1) : Tail(list)[i].name = Tail(list)[j].name => i = j
    <3> SUFFICES ASSUME NEW i \in 1..(Len(list) - 1), NEW j \in 1..(Len(list) - 1),
                        Tail(list)[i].name = Tail(list)[j].name
                 PROVE  i = j
      OBVIOUS
    <3>1. list[i + 1].name = list[j + 1].name
      BY <2>2
    <3>2. i + 1 \in 1..Len(list) /\ j + 1 \in 1..Len(list)
      BY <1>2 DEF list
    <3>3. i + 1 = j + 1
      BY <2>8, <3>1, <3>2
    <3> QED
      BY <3>3
  <2>11. ThreadOK(t)'
    BY <2>2, <2>6, <2>7, <2>9, <2>10 DEF ThreadOK, UpdateLabels, DeleteLabels, NodeLabels
  <2> QED
    BY <1>3, <2>1, <2>2, <2>4, <2>5, <2>6, <2>7, <2>11 DEF list
<1>4. CASE ~(Len(job[t].list) > 1)
  <2>1. Return(t) /\ Len(job[t].list) = 1
    <3>1. Len(job[t].list) = 1
      BY <1>4, <1>5
    <3> QED
      BY <1>4, <3>1 DEF Done
  <2> QED
    BY <2>1, ReturnLemma
<1> QED
  BY <1>3, <1>4

\* Goto alone.
LEMMA GotoLemma ==
  ASSUME Safe, NEW t \in Threads, NEW label \in Labels, Goto(t, label), UNCHANGED frame
  PROVE  /\ LocalTypes' /\ OthersSame(t) /\ pc'[t] = label
         /\ job'[t] = job[t] /\ cursor'[t] = cursor[t]
         /\ index'[t] = index[t] /\ counter'[t] = counter[t]
<1>1. LocalTypes
  BY TypesLemma
<1>2. pc' = [pc EXCEPT ![t] = label] /\ UNCHANGED <<job, cursor, index, counter>>
  BY DEF Goto, frame
<1> QED
  BY <1>1, <1>2 DEF LocalTypes, OthersSame, SameThread

\* What makes a state safe again after a step of thread t.
LEMMA SafeFrame ==
  ASSUME Safe, NEW t \in Threads, LocalTypes', OthersSame(t), ThreadOK(t)',
         nodes' \in Seq(Cell), Len(nodes') >= Len(nodes), cursor'[t] <= Len(nodes'),
         \A i \in 1..Len(nodes') : nodes'[i].next \in 0..Len(nodes'),
         head' \in 0..Len(nodes'), expected' \in TrackerTable, jobs' \in 0..MaxJobs,
         races' \subseteq {"updates", "deletes", "appends"}
  PROVE  Safe'
<1>1. Len(nodes) \in Nat /\ Len(nodes') \in Nat
  BY TypesLemma
<1>2. \A u \in Threads : cursor[u] <= Len(nodes) /\ cursor[u] \in Nat /\ cursor'[u] \in Nat
  BY <1>1 DEF Safe, TypeOK, LocalTypes
<1>3. \A u \in Threads : cursor'[u] <= Len(nodes')
  BY <1>1, <1>2 DEF OthersSame, SameThread
<1>4. cursor' \in [Threads -> 0..Len(nodes')]
  BY <1>1, <1>3 DEF LocalTypes
<1>5. TypeOK'
  BY <1>4 DEF TypeOK, LocalTypes
<1>6. ASSUME NEW u \in Threads PROVE ThreadOK(u)'
  <2>1. CASE u = t
    BY <2>1
  <2>2. CASE u # t
    <3>1. SameThread(u)
      BY <2>2 DEF OthersSame
    <3>2. ThreadOK(u)
      BY DEF Safe
    <3> QED
      BY <3>1, <3>2 DEF SameThread, ThreadOK
  <2> QED
    BY <2>1, <2>2
<1> QED
  BY <1>5, <1>6 DEF Safe, LocalTypes

\* The same, of a step that leaves the list alone.
LEMMA LocalFrame ==
  ASSUME Safe, NEW t \in Threads, LocalTypes', OthersSame(t), ThreadOK(t)',
         cursor'[t] \in 0..Len(nodes), UNCHANGED <<nodes, head, expected, jobs>>,
         races' \subseteq {"updates", "deletes", "appends"}
  PROVE  Safe'
<1>1. /\ nodes \in Seq(Cell) /\ head \in 0..Len(nodes) /\ jobs \in 0..MaxJobs
      /\ expected \in TrackerTable
      /\ \A i \in 1..Len(nodes) : nodes[i].next \in 0..Len(nodes)
  BY DEF Safe, TypeOK
<1>2. Len(nodes) \in Nat
  BY TypesLemma
<1>3. cursor'[t] <= Len(nodes') /\ Len(nodes') >= Len(nodes)
  BY <1>2
<1> QED
  BY <1>1, <1>3, SafeFrame

\* One node has been stored into.
Stored(t, cell) ==
  /\ Len(nodes') = Len(nodes)
  /\ \A i \in 1..Len(nodes) : nodes'[i] = IF i = cursor[t] THEN cell ELSE nodes[i]

\* The thread is done with its entry.
Finished(t) ==
  /\ cursor'[t] \in {NULL, cursor[t]}
  /\ \/ Len(job[t].list) = 1 /\ pc'[t] = "idle"
     \/ /\ Len(job[t].list) > 1 /\ pc'[t] = "next"
        /\ Len(job'[t].list) = Len(job[t].list) - 1
        /\ \A i \in 1..(Len(job[t].list) - 1) : job'[t].list[i] = job[t].list[i + 1]

LEMMA StoreLemma ==
  ASSUME Safe, NEW t \in Threads, NEW from \in UpdateLabels, from \in NodeLabels,
         NEW to \in UpdateLabels \ {"enlist"}, NEW cell \in Cell, cell.next \in 0..Len(nodes),
         Store(t, from, cell, to)
  PROVE  /\ Safe' /\ OthersSame(t)
         /\ pc[t] = from /\ pc'[t] = to /\ job'[t] = job[t] /\ cursor'[t] = cursor[t]
         /\ Stored(t, cell) /\ UNCHANGED <<head, jobs, expected, races>>
<1>1. TypeOK /\ ThreadOK(t) /\ pc[t] = from /\ cursor[t] # NULL
  BY DEF Safe, Store, At, ThreadOK
<1>2. /\ Goto(t, to) /\ UNCHANGED frame /\ Set(t, cell)
      /\ UNCHANGED <<head, jobs, expected, races>>
  BY DEF Store, history
<1>3. to \in Labels
  BY DEF Labels
<1>4. /\ LocalTypes' /\ OthersSame(t) /\ pc'[t] = to
      /\ job'[t] = job[t] /\ cursor'[t] = cursor[t]
      /\ index'[t] = index[t] /\ counter'[t] = counter[t]
  BY <1>2, <1>3, GotoLemma
<1>5. /\ nodes' \in Seq(Cell) /\ Len(nodes') = Len(nodes)
      /\ \A i \in 1..Len(nodes) : /\ nodes'[i] = IF i = cursor[t] THEN cell ELSE nodes[i]
                                  /\ nodes'[i].next \in 0..Len(nodes)
  BY <1>1, <1>2, SetLemma
<1>6. ThreadOK(t)'
  BY <1>1, <1>4 DEF ThreadOK, UpdateLabels, DeleteLabels, NodeLabels
<1>7. Len(nodes) \in Nat /\ cursor'[t] <= Len(nodes') /\ Len(nodes') >= Len(nodes)
  BY <1>1, <1>4, <1>5, TypesLemma, HereLemma
<1>8. Safe'
  <2>1. head' \in 0..Len(nodes') /\ expected' \in TrackerTable /\ jobs' \in 0..MaxJobs
        /\ races' \subseteq {"updates", "deletes", "appends"}
    BY <1>1, <1>2, <1>5 DEF TypeOK
  <2> QED
    BY <1>4, <1>5, <1>6, <1>7, <2>1, SafeFrame
<1> QED
  BY <1>1, <1>2, <1>4, <1>5, <1>8 DEF Stored

LEMMA LastStoreLemma ==
  ASSUME Safe, NEW t \in Threads, NEW from \in UpdateLabels, from \in NodeLabels,
         NEW cell \in Cell, cell.next \in 0..Len(nodes), LastStore(t, from, cell)
  PROVE  /\ Safe' /\ OthersSame(t) /\ pc[t] = from /\ Finished(t)
         /\ Stored(t, cell) /\ UNCHANGED <<head, jobs, expected, races>>
<1>1. TypeOK /\ ThreadOK(t) /\ pc[t] = from /\ cursor[t] # NULL
  BY DEF Safe, LastStore, At, ThreadOK
<1>2. Done(t) /\ Set(t, cell) /\ UNCHANGED <<head, jobs, expected, races>>
  BY DEF LastStore, history
<1>4. LocalTypes' /\ OthersSame(t) /\ ThreadOK(t)' /\ Finished(t)
  BY <1>1, <1>2, DoneLemma DEF Finished
<1>5. /\ nodes' \in Seq(Cell) /\ Len(nodes') = Len(nodes)
      /\ \A i \in 1..Len(nodes) : /\ nodes'[i] = IF i = cursor[t] THEN cell ELSE nodes[i]
                                  /\ nodes'[i].next \in 0..Len(nodes)
  BY <1>1, <1>2, SetLemma
<1>7. Len(nodes) \in Nat /\ cursor'[t] <= Len(nodes') /\ Len(nodes') >= Len(nodes)
  <2>1. cursor[t] \in 1..Len(nodes) /\ Len(nodes) \in Nat
    BY <1>1, HereLemma
  <2>2. cursor'[t] = 0 \/ cursor'[t] = cursor[t]
    BY <1>4 DEF Finished, NULL
  <2> QED
    BY <1>5, <2>1, <2>2
<1>8. Safe'
  <2>1. head' \in 0..Len(nodes') /\ expected' \in TrackerTable /\ jobs' \in 0..MaxJobs
        /\ races' \subseteq {"updates", "deletes", "appends"}
    BY <1>1, <1>2, <1>5 DEF TypeOK
  <2> QED
    BY <1>4, <1>5, <1>7, <2>1, SafeFrame
<1> QED
  BY <1>1, <1>2, <1>4, <1>5, <1>8 DEF Stored

-----------------------------------------------------------------------------
(* What the actions do to the node of the thread, and that they are safe.  *)

\* Names, versions and pointers are what they were.
SameNodes ==
  /\ head' = head /\ Len(nodes') = Len(nodes)
  /\ \A i \in 1..Len(nodes) :
       /\ nodes'[i].name = nodes[i].name /\ nodes'[i].next = nodes[i].next
       /\ nodes'[i].timestamp = nodes[i].timestamp /\ nodes'[i].size = nodes[i].size

\* A store that changes nothing but the addresses.
LEMMA SameNodesLemma ==
  ASSUME NEW t \in Threads, NEW cell, Stored(t, cell), head' = head,
         cell.name = Here(t).name, cell.next = Here(t).next,
         cell.timestamp = Here(t).timestamp, cell.size = Here(t).size
  PROVE  SameNodes
  BY DEF Stored, SameNodes, Here

LEMMA EnlistIpLemma ==
  ASSUME Safe, NEW t \in Threads, EnlistIp(t)
  PROVE  /\ Safe' /\ OthersSame(t) /\ pc[t] = "enlist" /\ Finished(t)
         /\ SameNodes /\ UNCHANGED <<jobs, expected, races>>
<1>1. TypeOK /\ ThreadOK(t) /\ pc[t] = "enlist" /\ LastStore(t, "enlist", PutIp(Here(t), index[t], job[t].ip))
  BY DEF Safe, EnlistIp, LastStore, At
<1>2. "enlist" \in UpdateLabels /\ "enlist" \in NodeLabels /\ index[t] \in Slots /\ cursor[t] # NULL
  BY <1>1 DEF ThreadOK, UpdateLabels, NodeLabels
<1>3. Here(t) \in Cell /\ Here(t).next \in 0..Len(nodes) /\ job[t].ip \in Ips
  BY <1>1, <1>2, HereLemma, UpdateLemma
<1>4. PICK cell \in Cell : cell = PutIp(Here(t), index[t], job[t].ip)
  BY <1>2, <1>3, PutIpLemma
<1>5. /\ cell.name = Here(t).name /\ cell.next = Here(t).next
      /\ cell.timestamp = Here(t).timestamp /\ cell.size = Here(t).size
  BY <1>2, <1>3, <1>4, PutIpLemma
<1>6. /\ Safe' /\ OthersSame(t) /\ Finished(t) /\ Stored(t, cell)
      /\ UNCHANGED <<head, jobs, expected, races>>
  BY <1>1, <1>2, <1>3, <1>4, <1>5, LastStoreLemma
<1>7. SameNodes
  BY <1>5, <1>6, SameNodesLemma
<1> QED
  BY <1>1, <1>6, <1>7

LEMMA SoleHolderLemma ==
  ASSUME Safe, NEW t \in Threads, StoreSoleHolder(t)
  PROVE  /\ Safe' /\ OthersSame(t)
         /\ pc[t] = "sole" /\ pc'[t] = "clean" /\ job'[t] = job[t] /\ cursor'[t] = cursor[t]
         /\ SameNodes /\ UNCHANGED <<jobs, expected, races>>
<1>1. TypeOK /\ ThreadOK(t) /\ pc[t] = "sole"
      /\ Store(t, "sole", PutIp(Here(t), 0, job[t].ip), "clean")
  BY DEF Safe, StoreSoleHolder, Store, At
<1>2. "sole" \in UpdateLabels /\ "sole" \in NodeLabels /\ "clean" \in UpdateLabels \ {"enlist"}
      /\ cursor[t] # NULL
  BY <1>1 DEF ThreadOK, UpdateLabels, NodeLabels
<1>3. Here(t) \in Cell /\ Here(t).next \in 0..Len(nodes) /\ job[t].ip \in Ips /\ 0 \in Slots
  BY <1>1, <1>2, HereLemma, UpdateLemma, MaxPeerNumAssumption DEF Slots
<1>4. PICK cell \in Cell : cell = PutIp(Here(t), 0, job[t].ip)
  BY <1>2, <1>3, PutIpLemma
<1>5. /\ cell.name = Here(t).name /\ cell.next = Here(t).next
      /\ cell.timestamp = Here(t).timestamp /\ cell.size = Here(t).size
  BY <1>2, <1>3, <1>4, PutIpLemma
<1>6. /\ Safe' /\ OthersSame(t)
      /\ pc'[t] = "clean" /\ job'[t] = job[t] /\ cursor'[t] = cursor[t] /\ Stored(t, cell)
      /\ UNCHANGED <<head, jobs, expected, races>>
  BY <1>1, <1>2, <1>3, <1>4, <1>5, StoreLemma
<1>7. SameNodes
  BY <1>5, <1>6, SameNodesLemma
<1> QED
  BY <1>1, <1>6, <1>7

LEMMA CleanListLemma ==
  ASSUME Safe, NEW t \in Threads, CleanList(t)
  PROVE  /\ Safe' /\ OthersSame(t) /\ pc[t] = "clean" /\ Finished(t)
         /\ SameNodes /\ UNCHANGED <<jobs, expected, races>>
<1> DEFINE kept == [i \in Slots |-> IF i = 0 THEN Here(t).newpeerip[0] ELSE NoIp]
<1>1. /\ TypeOK /\ ThreadOK(t) /\ pc[t] = "clean"
      /\ LastStore(t, "clean", [Here(t) EXCEPT !.newpeerip = kept])
  BY DEF Safe, CleanList, LastStore, At
<1>2. "clean" \in UpdateLabels /\ "clean" \in NodeLabels /\ cursor[t] # NULL
  BY <1>1 DEF ThreadOK, UpdateLabels, NodeLabels
<1>3. Here(t) \in Cell /\ Here(t).next \in 0..Len(nodes)
  BY <1>1, <1>2, HereLemma
<1>4. kept \in [Slots -> Ips \cup {NoIp}]
  <2>1. Here(t).newpeerip \in [Slots -> Ips \cup {NoIp}] /\ 0 \in Slots
    BY <1>3, MaxPeerNumAssumption DEF Cell, Slots
  <2> QED
    BY <2>1
<1> HIDE DEF kept
<1>5. PICK cell \in Cell : cell = [Here(t) EXCEPT !.newpeerip = kept]
  BY <1>3, <1>4 DEF Cell
<1>6. /\ cell.name = Here(t).name /\ cell.next = Here(t).next
      /\ cell.timestamp = Here(t).timestamp /\ cell.size = Here(t).size
  BY <1>3, <1>5 DEF Cell
<1>7. /\ Safe' /\ OthersSame(t) /\ Finished(t) /\ Stored(t, cell)
      /\ UNCHANGED <<head, jobs, expected, races>>
  BY <1>1, <1>2, <1>3, <1>5, <1>6, LastStoreLemma
<1>8. SameNodes
  BY <1>6, <1>7, SameNodesLemma
<1> QED
  BY <1>1, <1>7, <1>8

LEMMA StoreSizeLemma ==
  ASSUME Safe, NEW t \in Threads, StoreSize(t)
  PROVE  /\ Safe' /\ OthersSame(t)
         /\ pc[t] = "size" /\ pc'[t] = "timestamp" /\ job'[t] = job[t] /\ cursor'[t] = cursor[t]
         /\ Stored(t, [Here(t) EXCEPT !.size = Wanted(t).size])
         /\ UNCHANGED <<head, jobs, expected, races>>
<1>1. /\ TypeOK /\ ThreadOK(t) /\ pc[t] = "size"
      /\ Store(t, "size", [Here(t) EXCEPT !.size = Wanted(t).size], "timestamp")
  BY DEF Safe, StoreSize, Store, At
<1>2. /\ "size" \in UpdateLabels /\ "size" \in NodeLabels
      /\ "timestamp" \in UpdateLabels \ {"enlist"} /\ cursor[t] # NULL
  BY <1>1 DEF ThreadOK, UpdateLabels, NodeLabels
<1>3. Here(t) \in Cell /\ Here(t).next \in 0..Len(nodes) /\ Wanted(t).size \in Nat
  BY <1>1, <1>2, HereLemma, UpdateLemma DEF Entry
<1>4. PICK cell \in Cell : cell = [Here(t) EXCEPT !.size = Wanted(t).size]
  BY <1>3 DEF Cell
<1>5. cell.next = Here(t).next
  BY <1>3, <1>4 DEF Cell
<1> QED
  BY <1>1, <1>2, <1>3, <1>4, <1>5, StoreLemma

LEMMA StoreTimestampLemma ==
  ASSUME Safe, NEW t \in Threads, StoreTimestamp(t)
  PROVE  /\ Safe' /\ OthersSame(t)
         /\ pc[t] = "timestamp" /\ pc'[t] = "sole" /\ job'[t] = job[t] /\ cursor'[t] = cursor[t]
         /\ Stored(t, [Here(t) EXCEPT !.timestamp = Wanted(t).timestamp])
         /\ UNCHANGED <<head, jobs, expected, races>>
<1>1. /\ TypeOK /\ ThreadOK(t) /\ pc[t] = "timestamp"
      /\ Store(t, "timestamp", [Here(t) EXCEPT !.timestamp = Wanted(t).timestamp], "sole")
  BY DEF Safe, StoreTimestamp, Store, At
<1>2. /\ "timestamp" \in UpdateLabels /\ "timestamp" \in NodeLabels
      /\ "sole" \in UpdateLabels \ {"enlist"} /\ cursor[t] # NULL
  BY <1>1 DEF ThreadOK, UpdateLabels, NodeLabels
<1>3. Here(t) \in Cell /\ Here(t).next \in 0..Len(nodes) /\ Wanted(t).timestamp \in Nat
  BY <1>1, <1>2, HereLemma, UpdateLemma DEF Entry
<1>4. PICK cell \in Cell : cell = [Here(t) EXCEPT !.timestamp = Wanted(t).timestamp]
  BY <1>3 DEF Cell
<1>5. cell.next = Here(t).next
  BY <1>3, <1>4 DEF Cell
<1> QED
  BY <1>1, <1>2, <1>3, <1>4, <1>5, StoreLemma

LEMMA StoreNameLemma ==
  ASSUME Safe, NEW t \in Threads, StoreName(t)
  PROVE  /\ Safe' /\ OthersSame(t)
         /\ pc[t] = "name" /\ pc'[t] = "fill" /\ job'[t] = job[t] /\ cursor'[t] = cursor[t]
         /\ Stored(t, [Here(t) EXCEPT !.name = Wanted(t).name])
         /\ UNCHANGED <<head, jobs, expected, races>>
<1>1. /\ TypeOK /\ ThreadOK(t) /\ pc[t] = "name"
      /\ Store(t, "name", [Here(t) EXCEPT !.name = Wanted(t).name], "fill")
  BY DEF Safe, StoreName, Store, At
<1>2. /\ "name" \in UpdateLabels /\ "name" \in NodeLabels
      /\ "fill" \in UpdateLabels \ {"enlist"} /\ cursor[t] # NULL
  BY <1>1 DEF ThreadOK, UpdateLabels, NodeLabels
<1>3. Here(t) \in Cell /\ Here(t).next \in 0..Len(nodes) /\ Wanted(t).name \in Names
  BY <1>1, <1>2, HereLemma, UpdateLemma DEF Entry
<1>4. PICK cell \in Cell : cell = [Here(t) EXCEPT !.name = Wanted(t).name]
  BY <1>3 DEF Cell
<1>5. cell.next = Here(t).next
  BY <1>3, <1>4 DEF Cell
<1> QED
  BY <1>1, <1>2, <1>3, <1>4, <1>5, StoreLemma

LEMMA FillNodeLemma ==
  ASSUME Safe, NEW t \in Threads, FillNode(t)
  PROVE  \E cell \in Cell :
         /\ Safe' /\ OthersSame(t)
         /\ pc[t] = "fill" /\ pc'[t] = "cut" /\ job'[t] = job[t] /\ cursor'[t] = cursor[t]
         /\ Stored(t, cell) /\ UNCHANGED <<head, jobs, expected, races>>
         /\ cell.name = Here(t).name /\ cell.next = Here(t).next
         /\ cell.size = Wanted(t).size /\ cell.timestamp = Wanted(t).timestamp
<1>1. /\ TypeOK /\ ThreadOK(t) /\ pc[t] = "fill"
      /\ Store(t, "fill", [PutIp(Here(t), 0, job[t].ip) EXCEPT
                             !.size = Wanted(t).size, !.timestamp = Wanted(t).timestamp], "cut")
  BY DEF Safe, FillNode, Store, At
<1>2. /\ "fill" \in UpdateLabels /\ "fill" \in NodeLabels
      /\ "cut" \in UpdateLabels \ {"enlist"} /\ cursor[t] # NULL
  BY <1>1 DEF ThreadOK, UpdateLabels, NodeLabels
<1>3. /\ Here(t) \in Cell /\ Here(t).next \in 0..Len(nodes) /\ job[t].ip \in Ips
      /\ Wanted(t).size \in Nat /\ Wanted(t).timestamp \in Nat
      /\ 0 \in Slots
  BY <1>1, <1>2, HereLemma, UpdateLemma, MaxPeerNumAssumption DEF Entry, Slots
<1>4. PICK put \in Cell : put = PutIp(Here(t), 0, job[t].ip)
  BY <1>2, <1>3, PutIpLemma
<1>5. put.name = Here(t).name /\ put.next = Here(t).next
  BY <1>2, <1>3, <1>4, PutIpLemma
<1>6. PICK cell \in Cell : cell = [put EXCEPT
                             !.size = Wanted(t).size, !.timestamp = Wanted(t).timestamp]
  BY <1>3 DEF Cell
<1>7. /\ cell.name = put.name /\ cell.next = put.next
      /\ cell.size = Wanted(t).size /\ cell.timestamp = Wanted(t).timestamp
  BY <1>6 DEF Cell
<1>8. Store(t, "fill", cell, "cut")
  BY <1>1, <1>4, <1>6
<1>9. /\ Safe' /\ OthersSame(t)
      /\ pc'[t] = "cut" /\ job'[t] = job[t] /\ cursor'[t] = cursor[t]
      /\ Stored(t, cell) /\ UNCHANGED <<head, jobs, expected, races>>
  BY <1>2, <1>3, <1>5, <1>7, <1>8, StoreLemma
<1> QED
  BY <1>1, <1>5, <1>7, <1>9

LEMMA CutTailLemma ==
  ASSUME Safe, NEW t \in Threads, CutTail(t)
  PROVE  /\ Safe' /\ OthersSame(t) /\ pc[t] = "cut" /\ Finished(t)
         /\ Stored(t, [Here(t) EXCEPT !.next = NULL])
         /\ UNCHANGED <<head, jobs, expected, races>>
<1>1. /\ TypeOK /\ ThreadOK(t) /\ pc[t] = "cut"
      /\ LastStore(t, "cut", [Here(t) EXCEPT !.next = NULL])
  BY DEF Safe, CutTail, LastStore, At
<1>2. "cut" \in UpdateLabels /\ "cut" \in NodeLabels /\ cursor[t] # NULL
  BY <1>1 DEF ThreadOK, UpdateLabels, NodeLabels
<1>3. Here(t) \in Cell /\ Len(nodes) \in Nat
  BY <1>1, <1>2, HereLemma
<1>4. PICK cell \in Cell : cell = [Here(t) EXCEPT !.next = NULL]
  BY <1>3 DEF Cell, NULL
<1>5. cell.next \in 0..Len(nodes)
  BY <1>3, <1>4 DEF Cell, NULL
<1> QED
  BY <1>1, <1>2, <1>4, <1>5, LastStoreLemma

\* What delete_peer stores stays in the array: the slot it clears is that of the peer
\* or the last one that was taken when it looked.
LEMMA MoveLastLemma ==
  ASSUME Safe, NEW t \in Threads, MoveLast(t)
  PROVE  /\ Safe' /\ OthersSame(t) /\ pc[t] = "move" /\ pc'[t] = "clear"
         /\ SameNodes /\ UNCHANGED <<jobs, expected, races>>
<1>1. TypeOK /\ ThreadOK(t) /\ pc[t] = "move" /\ Goto(t, "clear") /\ UNCHANGED frame
      /\ UNCHANGED <<head, jobs, expected, races>>
  BY DEF Safe, MoveLast, At, history
<1>2. cursor[t] # NULL /\ index[t] \in Slots /\ counter[t] > index[t]
  BY <1>1 DEF ThreadOK, NodeLabels
<1>3. Here(t) \in Cell /\ Here(t).next \in 0..Len(nodes) /\ Len(nodes) \in Nat
      /\ cursor[t] \in 1..Len(nodes)
  BY <1>1, <1>2, HereLemma
<1>4. counter[t] - 1 \in Slots
  BY <1>1, <1>2, MaxPeerNumAssumption DEF TypeOK, Slots
<1>5. /\ nodes' \in Seq(Cell) /\ Len(nodes') = Len(nodes)
      /\ \A i \in 1..Len(nodes') : nodes'[i].next \in 0..Len(nodes')
      /\ SameNodes
  <2>1. CASE counter[t] - 1 > index[t]
    <3>1. Here(t).newpeerip[counter[t] - 1] \in Ips \cup {NoIp}
      BY <1>3, <1>4 DEF Cell
    <3>2. PICK cell \in Cell : cell = PutIp(Here(t), index[t], Here(t).newpeerip[counter[t] - 1])
      BY <1>2, <1>3, <3>1, PutIpLemma
    <3>3. /\ cell.name = Here(t).name /\ cell.next = Here(t).next
          /\ cell.timestamp = Here(t).timestamp /\ cell.size = Here(t).size
      BY <1>2, <1>3, <3>1, <3>2, PutIpLemma
    <3>4. Set(t, cell)
      BY <2>1, <3>2 DEF MoveLast
    <3>5. /\ nodes' \in Seq(Cell) /\ Len(nodes') = Len(nodes)
          /\ \A i \in 1..Len(nodes) : /\ nodes'[i] = IF i = cursor[t] THEN cell ELSE nodes[i]
                                      /\ nodes'[i].next \in 0..Len(nodes)
      BY <1>1, <1>2, <1>3, <3>3, <3>4, SetLemma
    <3>6. SameNodes
      BY <1>1, <3>3, <3>5, SameNodesLemma DEF Stored
    <3> QED
      BY <3>5, <3>6
  <2>2. CASE ~(counter[t] - 1 > index[t])
    <3>1. nodes' = nodes
      BY <2>2 DEF MoveLast
    <3> QED
      BY <1>1, <3>1 DEF TypeOK, SameNodes
  <2> QED
    BY <2>1, <2>2
<1>6. "clear" \in Labels
  BY DEF Labels, DeleteLabels
<1>7. /\ LocalTypes' /\ OthersSame(t) /\ pc'[t] = "clear"
      /\ job'[t] = job[t] /\ cursor'[t] = cursor[t]
      /\ index'[t] = index[t] /\ counter'[t] = counter[t]
  BY <1>1, <1>6, GotoLemma
<1>8. ThreadOK(t)'
  BY <1>1, <1>7 DEF ThreadOK, UpdateLabels, DeleteLabels, NodeLabels
<1>9. Safe'
  <2>1. head' \in 0..Len(nodes') /\ expected' \in TrackerTable /\ jobs' \in 0..MaxJobs
        /\ races' \subseteq {"updates", "deletes", "appends"}
    BY <1>1, <1>5 DEF TypeOK
  <2>2. cursor'[t] <= Len(nodes') /\ Len(nodes') >= Len(nodes)
    BY <1>3, <1>5, <1>7
  <2> QED
    BY <1>5, <1>7, <1>8, <2>1, <2>2, SafeFrame
<1> QED
  BY <1>1, <1>5, <1>7, <1>9

LEMMA ClearLastLemma ==
  ASSUME Safe, NEW t \in Threads, ClearLast(t)
  PROVE  /\ Safe' /\ OthersSame(t) /\ pc[t] = "clear" /\ pc'[t] = "forget"
         /\ SameNodes /\ UNCHANGED <<jobs, expected, races>>
<1>1. /\ TypeOK /\ ThreadOK(t) /\ LocalTypes
      /\ pc[t] = "clear" /\ Set(t, PutIp(Here(t), counter[t] - 1, NoIp))
      /\ index' = [index EXCEPT ![t] = index[t] + 1] /\ Goto(t, "forget")
      /\ UNCHANGED <<job, cursor, counter>> /\ UNCHANGED <<head, jobs, expected, races>>
  BY TypesLemma DEF Safe, ClearLast, At, history
<1>2. cursor[t] # NULL /\ index[t] \in Slots /\ counter[t] > index[t]
  BY <1>1 DEF ThreadOK, NodeLabels
<1>3. Here(t) \in Cell /\ Here(t).next \in 0..Len(nodes) /\ Len(nodes) \in Nat
      /\ cursor[t] \in 1..Len(nodes)
  BY <1>1, <1>2, HereLemma
<1>4. counter[t] - 1 \in Slots /\ index[t] + 1 \in 0..MAX_PEER_NUM
  BY <1>1, <1>2, MaxPeerNumAssumption DEF TypeOK, Slots
<1>5. PICK cell \in Cell : cell = PutIp(Here(t), counter[t] - 1, NoIp)
  BY <1>3, <1>4, PutIpLemma
<1>6. /\ cell.name = Here(t).name /\ cell.next = Here(t).next
      /\ cell.timestamp = Here(t).timestamp /\ cell.size = Here(t).size
  BY <1>3, <1>4, <1>5, PutIpLemma
<1>7. /\ nodes' \in Seq(Cell) /\ Len(nodes') = Len(nodes)
      /\ \A i \in 1..Len(nodes) : /\ nodes'[i] = IF i = cursor[t] THEN cell ELSE nodes[i]
                                  /\ nodes'[i].next \in 0..Len(nodes)
  BY <1>1, <1>2, <1>3, <1>5, <1>6, SetLemma
<1>8. SameNodes
  BY <1>1, <1>6, <1>7, SameNodesLemma DEF Stored
<1>9. LocalTypes' /\ pc'[t] = "forget" /\ index'[t] = index[t] + 1
  <2>1. "forget" \in Labels
    BY DEF Labels, DeleteLabels
  <2> QED
    BY <1>1, <1>4, <2>1 DEF LocalTypes, Goto
<1>10. OthersSame(t)
  BY <1>1 DEF LocalTypes, Goto, OthersSame, SameThread
<1>11. ThreadOK(t)'
  BY <1>1, <1>9 DEF ThreadOK, UpdateLabels, DeleteLabels, NodeLabels
<1>12. Safe'
  <2>1. head' \in 0..Len(nodes') /\ expected' \in TrackerTable /\ jobs' \in 0..MaxJobs
        /\ races' \subseteq {"updates", "deletes", "appends"}
    BY <1>1, <1>7 DEF TypeOK
  <2>2. cursor'[t] <= Len(nodes') /\ Len(nodes') >= Len(nodes)
    BY <1>1, <1>3, <1>7
  <2> QED
    BY <1>7, <1>9, <1>10, <1>11, <2>1, <2>2, SafeFrame
<1> QED
  BY <1>1, <1>8, <1>9, <1>10, <1>12

LEMMA FindPeerLemma ==
  ASSUME Safe, NEW t \in Threads, FindPeer(t)
  PROVE  /\ Safe' /\ OthersSame(t) /\ pc[t] = "forget" /\ pc'[t] \in {"idle", "forget", "move"}
         /\ UNCHANGED <<nodes, head, jobs, expected, races>>
<1>1. /\ TypeOK /\ ThreadOK(t) /\ LocalTypes /\ pc[t] = "forget"
      /\ UNCHANGED <<nodes, head, jobs, expected, races>>
  BY TypesLemma DEF Safe, FindPeer, At, shared, history
<1>2. CASE cursor[t] = NULL
  <2>1. LocalTypes' /\ OthersSame(t) /\ ThreadOK(t)' /\ cursor'[t] = NULL /\ pc'[t] = "idle"
    BY <1>2, ReturnLemma DEF FindPeer
  <2>2. cursor'[t] \in 0..Len(nodes)
    BY <2>1, TypesLemma DEF NULL
  <2>3. Safe'
    BY <1>1, <2>1, <2>2, LocalFrame DEF TypeOK
  <2> QED
    BY <1>1, <2>1, <2>3
<1>3. CASE cursor[t] # NULL
  <2> DEFINE found == {i \in index[t]..(FirstEmpty(Here(t), index[t]) - 1) :
                         Here(t).newpeerip[i] = job[t].ip}
  <2>1. cursor[t] \in 1..Len(nodes) /\ Here(t).next \in 0..Len(nodes) /\ Len(nodes) \in Nat
    BY <1>1, <1>3, HereLemma
  <2>2. job' = job
    BY <1>3 DEF FindPeer
  <2>3. CASE found = {}
    <3>1. /\ cursor' = [cursor EXCEPT ![t] = Here(t).next]
          /\ index' = [index EXCEPT ![t] = 0]
          /\ counter' = [counter EXCEPT ![t] = 0]
          /\ UNCHANGED pc
      BY <1>3, <2>3 DEF FindPeer
    <3>2. Here(t).next \in Nat /\ 0 \in 0..MAX_PEER_NUM
      BY <2>1, MaxPeerNumAssumption
    <3>3. LocalTypes'
      BY <1>1, <2>2, <3>1, <3>2 DEF LocalTypes
    <3>4. OthersSame(t) /\ cursor'[t] \in 0..Len(nodes)
      BY <1>1, <2>1, <2>2, <3>1 DEF LocalTypes, OthersSame, SameThread
    <3>5. ThreadOK(t)'
      BY <1>1, <2>2, <3>1 DEF ThreadOK, UpdateLabels, DeleteLabels, NodeLabels
    <3>6. Safe'
      BY <1>1, <3>3, <3>4, <3>5, LocalFrame DEF TypeOK
    <3> QED
      BY <1>1, <3>1, <3>4, <3>6
  <2>4. CASE found # {}
    <3>1. PICK i : i = CHOOSE k \in found : \A j \in found : k <= j
      OBVIOUS
    <3>2. index[t] \in 0..MAX_PEER_NUM /\ found \subseteq Nat
      BY <1>1 DEF LocalTypes
    <3>3. i \in found
      BY <2>4, <3>1, <3>2, Smallest
    <3>4. FirstEmpty(Here(t), index[t]) \in index[t]..MAX_PEER_NUM
      BY <3>2, FirstEmptyLemma
    <3>5. i \in Slots /\ i + 1 \in 0..MAX_PEER_NUM
      BY <3>2, <3>3, <3>4, MaxPeerNumAssumption DEF Slots
    <3>6. PICK c : c = FirstEmpty(Here(t), i + 1)
      OBVIOUS
    <3>7. c \in (i + 1)..MAX_PEER_NUM
      BY <3>5, <3>6, FirstEmptyLemma
    <3>8. c \in 0..MAX_PEER_NUM /\ c > i /\ i \in 0..MAX_PEER_NUM
      BY <3>5, <3>7, MaxPeerNumAssumption DEF Slots
    <3>9. /\ index' = [index EXCEPT ![t] = i] /\ counter' = [counter EXCEPT ![t] = c]
          /\ Goto(t, "move") /\ UNCHANGED cursor
      BY <1>3, <2>4, <3>1, <3>6 DEF FindPeer
    <3> HIDE DEF found
    <3>10. LocalTypes' /\ pc'[t] = "move" /\ index'[t] = i /\ counter'[t] = c
      <4>1. "move" \in Labels
        BY DEF Labels, DeleteLabels
      <4> QED
        BY <1>1, <2>2, <3>8, <3>9, <4>1 DEF LocalTypes, Goto
    <3>11. OthersSame(t) /\ cursor'[t] = cursor[t]
      BY <1>1, <2>2, <3>9 DEF LocalTypes, Goto, OthersSame, SameThread
    <3>12. ThreadOK(t)'
      BY <1>1, <1>3, <2>2, <3>5, <3>8, <3>10, <3>11
         DEF ThreadOK, UpdateLabels, DeleteLabels, NodeLabels
    <3>13. cursor'[t] \in 0..Len(nodes)
      BY <2>1, <3>11
    <3>14. Safe'
      BY <1>1, <3>10, <3>11, <3>12, <3>13, LocalFrame DEF TypeOK
    <3> QED
      BY <1>1, <3>10, <3>11, <3>14
  <2> QED
    BY <2>3, <2>4
<1> QED
  BY <1>2, <1>3

\* An announced list as a table.
LEMMA AsTableLemma ==
  ASSUME NEW list \in Announced
  PROVE  /\ list \in Seq(Entry) /\ Len(list) \in Nat \ {0}
         /\ AsTable(list) \in PeerTable
         /\ \A n \in Names : AsTable(list)[n] = NoFile <=>
                               ~\E i \in 1..Len(list) : list[i].name = n
         /\ \A i \in 1..Len(list) : /\ list[i] \in Entry
                                    /\ SameVersion(AsTable(list)[list[i].name], list[i])
<1>1. /\ list \in Seq(Entry) /\ list # <<>>
      /\ \A i, j \in 1..Len(list) : list[i].name = list[j].name => i = j
  BY AnnouncedAssumption
<1>2. Len(list) \in Nat \ {0} /\ \A i \in 1..Len(list) : list[i] \in Entry
  BY <1>1
<1> DEFINE version(n) == LET node == list[CHOOSE i \in 1..Len(list) : list[i].name = n]
                         IN  [timestamp |-> node.timestamp, size |-> node.size, type |-> TheType]
<1>3. \A n \in Names : AsTable(list)[n] =
        IF \E i \in 1..Len(list) : list[i].name = n THEN version(n) ELSE NoFile
  BY DEF AsTable
<1>4. ASSUME NEW i \in 1..Len(list)
      PROVE  /\ version(list[i].name) \in PeerNode
             /\ SameVersion(version(list[i].name), list[i])
  <2>1. PICK j : j = CHOOSE k \in 1..Len(list) : list[k].name = list[i].name
    OBVIOUS
  <2>2. j \in 1..Len(list) /\ list[j].name = list[i].name
    BY <2>1
  <2>3. j = i
    BY <1>1, <2>2
  <2>4. version(list[i].name) =
          [timestamp |-> list[i].timestamp, size |-> list[i].size, type |-> TheType]
    BY <2>1, <2>3
  <2>5. list[i].timestamp \in Nat /\ list[i].size \in Nat
    BY <1>2 DEF Entry
  <2> QED
    BY <2>4, <2>5, TypeAssumption DEF PeerNode, SameVersion
<1>5. \A i \in 1..Len(list) : list[i].name \in Names
  BY <1>2 DEF Entry
<1> HIDE DEF version
<1>6. ASSUME NEW n \in Names, \E i \in 1..Len(list) : list[i].name = n
      PROVE  version(n) \in PeerNode /\ AsTable(list)[n] = version(n) /\ version(n) # NoFile
  <2>1. version(n) \in PeerNode
    BY <1>4, <1>6
  <2>2. AsTable(list)[n] = version(n)
    BY <1>3, <1>6
  <2> QED
    BY <2>1, <2>2, NoFileAssumption
<1>11. ASSUME NEW n \in Names, ~\E i \in 1..Len(list) : list[i].name = n
       PROVE  AsTable(list)[n] = NoFile
  BY <1>3, <1>11
<1>7. \A n \in Names : AsTable(list)[n] \in PeerNode \cup {NoFile}
  BY <1>6, <1>11
<1>8. AsTable(list) \in PeerTable
  BY <1>7 DEF AsTable, PeerTable
<1>9. \A n \in Names : AsTable(list)[n] = NoFile <=> ~\E i \in 1..Len(list) : list[i].name = n
  BY <1>6, <1>11
<1>10. \A i \in 1..Len(list) : SameVersion(AsTable(list)[list[i].name], list[i])
  BY <1>3, <1>4, <1>5
<1> QED
  BY <1>1, <1>2, <1>8, <1>9, <1>10

LEMMA StartUpdateLemma ==
  ASSUME Safe, NEW t \in Threads, NEW ip \in Ips, NEW list \in Announced,
         StartUpdate(t, ip, list)
  PROVE  /\ Safe' /\ OthersSame(t) /\ pc[t] = "idle" /\ pc'[t] = "next" /\ job'[t].list = list
         /\ UNCHANGED <<nodes, head>>
<1>1. /\ TypeOK /\ ThreadOK(t) /\ LocalTypes /\ pc[t] = "idle" /\ jobs < MaxJobs
      /\ jobs' = jobs + 1 /\ Goto(t, "next")
      /\ job' = [job EXCEPT ![t] = [call |-> "update", ip |-> ip, list |-> list]]
      /\ expected' = MergeTable(expected, AsTable(list), ip)
      /\ races' = races \cup Overlaps(t, "update")
      /\ UNCHANGED <<nodes, head, cursor, index, counter>>
  BY TypesLemma DEF Safe, StartUpdate, At, shared
<1>2. [call |-> "update", ip |-> ip, list |-> list] \in Jobs
  BY AsTableLemma DEF Jobs
<1>3. LocalTypes' /\ pc'[t] = "next" /\ job'[t] = [call |-> "update", ip |-> ip, list |-> list]
  <2>1. "next" \in Labels
    BY DEF Labels, UpdateLabels
  <2> HIDE DEF Jobs
  <2> QED
    BY <1>1, <1>2, <2>1 DEF LocalTypes, Goto
<1>4. OthersSame(t) /\ cursor'[t] = cursor[t]
  BY <1>1 DEF LocalTypes, Goto, OthersSame, SameThread
<1>5. ThreadOK(t)'
  <2>1. job'[t] # None /\ job'[t].call = "update" /\ job'[t].list = list
    BY <1>2, <1>3, NoneAssumption
  <2>2. list # <<>> /\ \A i, j \in 1..Len(list) : list[i].name = list[j].name => i = j
    BY AnnouncedAssumption
  <2> QED
    BY <1>3, <2>1, <2>2 DEF ThreadOK, UpdateLabels, DeleteLabels, NodeLabels
<1>6. expected' \in TrackerTable
  BY <1>1, AsTableLemma, MergeTableTypes DEF TypeOK
<1>7. jobs' \in 0..MaxJobs
  BY <1>1, JobsAssumption DEF TypeOK
<1>8. races' \subseteq {"updates", "deletes", "appends"}
  BY <1>1 DEF TypeOK, Overlaps
<1>9. /\ nodes' \in Seq(Cell) /\ Len(nodes') >= Len(nodes)
      /\ cursor'[t] <= Len(nodes') /\ head' \in 0..Len(nodes')
      /\ \A i \in 1..Len(nodes') : nodes'[i].next \in 0..Len(nodes')
  <2>1. Len(nodes) \in Nat /\ cursor[t] \in 0..Len(nodes)
    BY TypesLemma DEF Safe, TypeOK
  <2> QED
    BY <1>1, <1>4, <2>1 DEF TypeOK
<1>10. Safe'
  BY <1>3, <1>4, <1>5, <1>6, <1>7, <1>8, <1>9, SafeFrame
<1> QED
  BY <1>1, <1>3, <1>4, <1>10

LEMMA StartDeleteLemma ==
  ASSUME Safe, NEW t \in Threads, NEW ip \in Ips, StartDelete(t, ip)
  PROVE  /\ Safe' /\ OthersSame(t) /\ pc[t] = "idle" /\ pc'[t] = "forget"
         /\ UNCHANGED <<nodes, head>>
<1>1. /\ TypeOK /\ ThreadOK(t) /\ LocalTypes /\ pc[t] = "idle" /\ jobs < MaxJobs
      /\ jobs' = jobs + 1 /\ Goto(t, "forget")
      /\ job' = [job EXCEPT ![t] = [call |-> "delete", ip |-> ip]]
      /\ cursor' = [cursor EXCEPT ![t] = head] /\ index' = [index EXCEPT ![t] = 0]
      /\ expected' = ForgetPeer(expected, ip)
      /\ races' = races \cup Overlaps(t, "delete")
      /\ UNCHANGED <<nodes, head, counter>>
  BY TypesLemma DEF Safe, StartDelete, At, shared
<1>2. [call |-> "delete", ip |-> ip] \in Jobs
  BY DEF Jobs
<1>3. head \in 0..Len(nodes) /\ Len(nodes) \in Nat /\ head \in Nat
  BY <1>1, TypesLemma DEF TypeOK
<1>4. LocalTypes' /\ pc'[t] = "forget" /\ job'[t] = [call |-> "delete", ip |-> ip]
      /\ cursor'[t] = head
  <2>1. "forget" \in Labels /\ 0 \in 0..MAX_PEER_NUM
    BY MaxPeerNumAssumption DEF Labels, DeleteLabels
  <2> HIDE DEF Jobs
  <2> QED
    BY <1>1, <1>2, <1>3, <2>1 DEF LocalTypes, Goto
<1>5. OthersSame(t)
  BY <1>1 DEF LocalTypes, Goto, OthersSame, SameThread
<1>6. ThreadOK(t)'
  <2>1. job'[t] # None /\ job'[t].call = "delete"
    BY <1>2, <1>4, NoneAssumption
  <2> QED
    BY <1>4, <2>1 DEF ThreadOK, UpdateLabels, DeleteLabels, NodeLabels
<1>7. expected' \in TrackerTable
  BY <1>1, ForgetPeerTypes DEF TypeOK
<1>8. jobs' \in 0..MaxJobs
  BY <1>1, JobsAssumption DEF TypeOK
<1>9. races' \subseteq {"updates", "deletes", "appends"}
  BY <1>1 DEF TypeOK, Overlaps
<1>10. /\ nodes' \in Seq(Cell) /\ Len(nodes') >= Len(nodes)
       /\ cursor'[t] <= Len(nodes') /\ head' \in 0..Len(nodes')
       /\ \A i \in 1..Len(nodes') : nodes'[i].next \in 0..Len(nodes')
  BY <1>1, <1>3, <1>4 DEF TypeOK
<1>11. Safe'
  BY <1>4, <1>5, <1>6, <1>7, <1>8, <1>9, <1>10, SafeFrame
<1> QED
  BY <1>1, <1>4, <1>5, <1>11

LEMMA NextNodeLemma ==
  ASSUME Safe, NEW t \in Threads, NextNode(t)
  PROVE  /\ Safe' /\ OthersSame(t) /\ pc[t] = "next"
         /\ pc'[t] = IF head = NULL THEN "append" ELSE "scan"
         /\ job'[t] = job[t] /\ cursor'[t] = head
         /\ UNCHANGED <<nodes, head, jobs, expected>>
<1>1. /\ TypeOK /\ ThreadOK(t) /\ LocalTypes /\ pc[t] = "next"
      /\ cursor' = [cursor EXCEPT ![t] = head]
      /\ Goto(t, IF head = NULL THEN "append" ELSE "scan")
      /\ races' = races \cup IF head = NULL THEN Appends ELSE {}
      /\ UNCHANGED <<nodes, head, job, index, counter, jobs, expected>>
  BY TypesLemma DEF Safe, NextNode, At, shared
<1>2. head \in 0..Len(nodes) /\ head \in Nat
  BY <1>1, TypesLemma DEF TypeOK
<1>3. PICK label \in {"append", "scan"} : label = IF head = NULL THEN "append" ELSE "scan"
  OBVIOUS
<1>4. LocalTypes' /\ pc'[t] = label /\ cursor'[t] = head
  <2>1. label \in Labels
    BY DEF Labels, UpdateLabels
  <2> QED
    BY <1>1, <1>2, <1>3, <2>1 DEF LocalTypes, Goto
<1>5. OthersSame(t)
  BY <1>1 DEF LocalTypes, Goto, OthersSame, SameThread
<1>6. ThreadOK(t)'
  BY <1>1, <1>3, <1>4 DEF ThreadOK, UpdateLabels, DeleteLabels, NodeLabels
<1>7. races' \subseteq {"updates", "deletes", "appends"}
  BY <1>1 DEF TypeOK, Appends
<1>8. Safe'
  BY <1>1, <1>2, <1>4, <1>5, <1>6, <1>7, LocalFrame
<1> QED
  BY <1>1, <1>3, <1>4, <1>5, <1>8

LEMMA ScanLemma ==
  ASSUME Safe, NEW t \in Threads, Scan(t)
  PROVE  /\ Safe' /\ OthersSame(t) /\ pc[t] = "scan"
         /\ job'[t] = job[t] /\ cursor'[t] = cursor[t]
         /\ UNCHANGED <<nodes, head, jobs, expected>>
         /\ \/ /\ Here(t).name = Wanted(t).name
               /\ pc'[t] = "compare" /\ races' = races
            \/ /\ Here(t).name # Wanted(t).name /\ Here(t).next # NULL
               /\ pc'[t] = "advance" /\ races' = races
            \/ /\ Here(t).name # Wanted(t).name /\ Here(t).next = NULL
               /\ pc'[t] = "append" /\ races' = races \cup Appends
<1>1. /\ TypeOK /\ ThreadOK(t) /\ LocalTypes /\ pc[t] = "scan"
      /\ UNCHANGED <<nodes, head, jobs, expected>> /\ UNCHANGED frame
  BY TypesLemma DEF Safe, Scan, At, shared
<1>2. cursor[t] # NULL
  BY <1>1 DEF ThreadOK, NodeLabels, UpdateLabels
<1>3. cursor[t] \in 1..Len(nodes) /\ Len(nodes) \in Nat
  BY <1>1, <1>2, HereLemma
<1>4. PICK label \in {"compare", "advance", "append"} :
        /\ Goto(t, label)
        /\ \/ /\ Here(t).name = Wanted(t).name
              /\ label = "compare" /\ races' = races
           \/ /\ Here(t).name # Wanted(t).name /\ Here(t).next # NULL
              /\ label = "advance" /\ races' = races
           \/ /\ Here(t).name # Wanted(t).name /\ Here(t).next = NULL
              /\ label = "append" /\ races' = races \cup Appends
  BY DEF Scan
<1>5. label \in Labels
  BY DEF Labels, UpdateLabels
<1>6. /\ LocalTypes' /\ OthersSame(t) /\ pc'[t] = label
      /\ job'[t] = job[t] /\ cursor'[t] = cursor[t]
  BY <1>1, <1>4, <1>5, GotoLemma
<1>7. ThreadOK(t)'
  BY <1>1, <1>2, <1>6 DEF ThreadOK, UpdateLabels, DeleteLabels, NodeLabels
<1>8. races' \subseteq {"updates", "deletes", "appends"}
  BY <1>1, <1>4 DEF TypeOK, Appends
<1>9. cursor'[t] \in 0..Len(nodes)
  BY <1>3, <1>6
<1>10. Safe'
  BY <1>1, <1>6, <1>7, <1>8, <1>9, LocalFrame
<1> QED
  BY <1>1, <1>4, <1>6, <1>10

LEMMA AdvanceLemma ==
  ASSUME Safe, NEW t \in Threads, Advance(t)
  PROVE  /\ Safe' /\ OthersSame(t) /\ pc[t] = "advance"
         /\ job'[t] = job[t] /\ cursor'[t] = Here(t).next
         /\ UNCHANGED <<nodes, head, jobs, expected>>
         /\ \/ Here(t).next = NULL /\ pc'[t] = "append" /\ races' = races \cup Appends
            \/ Here(t).next # NULL /\ pc'[t] = "scan" /\ races' = races
<1>1. /\ TypeOK /\ ThreadOK(t) /\ LocalTypes /\ pc[t] = "advance"
      /\ cursor' = [cursor EXCEPT ![t] = Here(t).next]
      /\ Goto(t, IF Here(t).next = NULL THEN "append" ELSE "scan")
      /\ UNCHANGED <<nodes, head, job, index, counter, jobs, expected>>
      /\ races' = races \cup IF Here(t).next = NULL THEN Appends ELSE {}
  BY TypesLemma DEF Safe, Advance, At, shared
<1>2. cursor[t] # NULL
  BY <1>1 DEF ThreadOK, NodeLabels, UpdateLabels
<1>3. Here(t).next \in 0..Len(nodes) /\ Len(nodes) \in Nat /\ Here(t).next \in Nat
  BY <1>1, <1>2, HereLemma
<1>4. PICK label \in {"append", "scan"} :
        /\ Goto(t, label)
        /\ \/ Here(t).next = NULL /\ label = "append" /\ races' = races \cup Appends
           \/ Here(t).next # NULL /\ label = "scan" /\ races' = races
  BY <1>1
<1>5. LocalTypes' /\ pc'[t] = label /\ cursor'[t] = Here(t).next
  <2>1. label \in Labels
    BY DEF Labels, UpdateLabels
  <2> QED
    BY <1>1, <1>3, <1>4, <2>1 DEF LocalTypes, Goto
<1>6. OthersSame(t) /\ job'[t] = job[t]
  BY <1>1 DEF LocalTypes, Goto, OthersSame, SameThread
<1>7. ThreadOK(t)'
  BY <1>1, <1>4, <1>5, <1>6 DEF ThreadOK, UpdateLabels, DeleteLabels, NodeLabels
<1>8. races' \subseteq {"updates", "deletes", "appends"}
  BY <1>1, <1>4 DEF TypeOK, Appends
<1>9. Safe'
  BY <1>1, <1>3, <1>5, <1>6, <1>7, <1>8, LocalFrame
<1> QED
  BY <1>1, <1>4, <1>5, <1>6, <1>9

LEMMA CompareLemma ==
  ASSUME Safe, NEW t \in Threads, Compare(t)
  PROVE  /\ Safe' /\ OthersSame(t) /\ pc[t] = "compare"
         /\ UNCHANGED <<nodes, head, jobs, expected, races>>
         /\ \/ /\ SameVersion(Here(t), Wanted(t)) /\ pc'[t] = "find"
               /\ job'[t] = job[t] /\ cursor'[t] = cursor[t]
            \/ /\ Newer(Wanted(t), Here(t)) /\ pc'[t] = "size"
               /\ job'[t] = job[t] /\ cursor'[t] = cursor[t]
            \/ Newer(Here(t), Wanted(t)) /\ Finished(t)
<1>1. /\ TypeOK /\ ThreadOK(t) /\ LocalTypes /\ pc[t] = "compare"
      /\ UNCHANGED <<nodes, head, jobs, expected, races>>
  BY TypesLemma DEF Safe, Compare, At, shared, history
<1>2. cursor[t] # NULL /\ pc[t] \in UpdateLabels
  BY <1>1 DEF ThreadOK, NodeLabels, UpdateLabels
<1>3. cursor[t] \in 1..Len(nodes) /\ Len(nodes) \in Nat
  BY <1>1, <1>2, HereLemma
<1>4. CASE \E label \in {"find", "size"} : Goto(t, label) /\ UNCHANGED frame
  <2>1. PICK label \in {"find", "size"} : Goto(t, label) /\ UNCHANGED frame
    BY <1>4
  <2>2. label \in Labels
    BY DEF Labels, UpdateLabels
  <2>3. /\ LocalTypes' /\ OthersSame(t) /\ pc'[t] = label
        /\ job'[t] = job[t] /\ cursor'[t] = cursor[t]
    BY <2>1, <2>2, GotoLemma
  <2>4. ThreadOK(t)'
    BY <1>1, <1>2, <2>3 DEF ThreadOK, UpdateLabels, DeleteLabels, NodeLabels
  <2>5. cursor'[t] \in 0..Len(nodes)
    BY <1>3, <2>3
  <2>6. Safe'
    BY <1>1, <2>3, <2>4, <2>5, LocalFrame DEF TypeOK
  <2>7. Compare(t) => \/ SameVersion(Here(t), Wanted(t)) /\ pc'[t] = "find"
                      \/ Newer(Wanted(t), Here(t)) /\ pc'[t] = "size"
                      \/ Newer(Here(t), Wanted(t)) /\ Done(t)
    BY <1>1, <2>1, <2>3 DEF Compare, Goto, LocalTypes
  <2>8. ~Done(t)
    <3>1. Done(t) => pc'[t] \in {"next", "idle"}
      BY <1>2, DoneLemma
    <3> QED
      BY <2>3, <3>1
  <2> QED
    BY <1>1, <2>3, <2>6, <2>7, <2>8
<1>5. CASE Newer(Here(t), Wanted(t)) /\ Done(t)
  <2>1. LocalTypes' /\ OthersSame(t) /\ ThreadOK(t)' /\ Finished(t)
    BY <1>2, <1>5, DoneLemma DEF Finished
  <2>2. cursor'[t] \in 0..Len(nodes)
    BY <1>3, <2>1 DEF Finished, NULL
  <2>3. Safe'
    BY <1>1, <2>1, <2>2, LocalFrame DEF TypeOK
  <2> QED
    BY <1>1, <1>5, <2>1, <2>3
<1> QED
  BY <1>4, <1>5 DEF Compare

LEMMA FindSlotLemma ==
  ASSUME Safe, NEW t \in Threads, FindSlot(t)
  PROVE  /\ Safe' /\ OthersSame(t) /\ pc[t] = "find"
         /\ UNCHANGED <<nodes, head, jobs, expected, races>>
         /\ \/ Finished(t)
            \/ pc'[t] = "enlist" /\ job'[t] = job[t] /\ cursor'[t] = cursor[t]
<1>1. /\ TypeOK /\ ThreadOK(t) /\ LocalTypes /\ pc[t] = "find"
      /\ UNCHANGED <<nodes, head, jobs, expected, races>>
  BY TypesLemma DEF Safe, FindSlot, At, shared, history
<1>2. cursor[t] # NULL /\ pc[t] \in UpdateLabels
  BY <1>1 DEF ThreadOK, NodeLabels, UpdateLabels
<1>3. cursor[t] \in 1..Len(nodes) /\ Len(nodes) \in Nat
  BY <1>1, <1>2, HereLemma
<1>4. CASE Done(t)
  <2>1. LocalTypes' /\ OthersSame(t) /\ ThreadOK(t)' /\ Finished(t)
    BY <1>2, <1>4, DoneLemma DEF Finished
  <2>2. cursor'[t] \in 0..Len(nodes)
    BY <1>3, <2>1 DEF Finished, NULL
  <2>3. Safe'
    BY <1>1, <2>1, <2>2, LocalFrame DEF TypeOK
  <2> QED
    BY <1>1, <2>1, <2>3
<1>5. CASE ~Done(t)
  <2>1. PICK free : free = FirstEmpty(Here(t), 0)
    OBVIOUS
  <2>2. free \in 0..MAX_PEER_NUM
    BY <2>1, MaxPeerNumAssumption, FirstEmptyLemma
  <2>3. /\ free < MAX_PEER_NUM /\ index' = [index EXCEPT ![t] = free]
        /\ Goto(t, "enlist") /\ UNCHANGED <<job, cursor, counter>>
    BY <1>5, <2>1 DEF FindSlot
  <2>4. free \in Slots
    BY <2>2, <2>3, MaxPeerNumAssumption DEF Slots
  <2>5. LocalTypes' /\ pc'[t] = "enlist" /\ index'[t] = free
    <3>1. "enlist" \in Labels
      BY DEF Labels, UpdateLabels
    <3> QED
      BY <1>1, <2>2, <2>3, <3>1 DEF LocalTypes, Goto
  <2>6. OthersSame(t) /\ job'[t] = job[t] /\ cursor'[t] = cursor[t]
    BY <1>1, <2>3 DEF LocalTypes, Goto, OthersSame, SameThread
  <2>7. ThreadOK(t)'
    BY <1>1, <1>2, <2>4, <2>5, <2>6 DEF ThreadOK, UpdateLabels, DeleteLabels, NodeLabels
  <2>8. cursor'[t] \in 0..Len(nodes)
    BY <1>3, <2>6
  <2>9. Safe'
    BY <1>1, <2>5, <2>6, <2>7, <2>8, LocalFrame DEF TypeOK
  <2> QED
    BY <1>1, <2>5, <2>6, <2>9
<1> QED
  BY <1>4, <1>5

\* A node is allocated behind the last one that the scan has seen.
LEMMA AppendNodeLemma ==
  ASSUME Safe, NEW t \in Threads, AppendNode(t)
  PROVE  /\ Safe' /\ OthersSame(t) /\ pc[t] = "append" /\ job'[t] = job[t]
         /\ \/ /\ cursor[t] = NULL /\ pc'[t] = "sethead"
               /\ cursor'[t] = Len(nodes) + 1 /\ head' = NULL
            \/ /\ cursor[t] # NULL /\ pc'[t] = "reread"
               /\ cursor'[t] = cursor[t] /\ head' = head
         /\ UNCHANGED <<jobs, expected, races>>
         /\ Len(nodes') = Len(nodes) + 1 /\ nodes'[Len(nodes) + 1] = Fresh
         /\ \A i \in 1..Len(nodes) :
              /\ nodes'[i].next = IF i = cursor[t] THEN Len(nodes) + 1 ELSE nodes[i].next
              /\ nodes'[i].name = nodes[i].name
              /\ nodes'[i].timestamp = nodes[i].timestamp /\ nodes'[i].size = nodes[i].size
              /\ nodes'[i].newpeerip = nodes[i].newpeerip
<1> DEFINE new == Len(nodes) + 1
<1>1. /\ TypeOK /\ ThreadOK(t) /\ LocalTypes /\ pc[t] = "append"
      /\ UNCHANGED <<job, index, counter, jobs, expected, races>>
  BY TypesLemma DEF Safe, AppendNode, At, history
<1>2. Len(nodes) \in Nat /\ nodes \in Seq(Cell) /\ cursor[t] \in 0..Len(nodes)
      /\ \A i \in 1..Len(nodes) : nodes[i] \in Cell /\ nodes[i].next \in 0..Len(nodes)
  BY <1>1, TypesLemma DEF TypeOK
<1>3. Fresh \in Cell /\ Fresh.next = 0
  <2>1. [i \in Slots |-> NoIp] \in [Slots -> Ips \cup {NoIp}]
    OBVIOUS
  <2> QED
    BY <2>1 DEF Fresh, Cell, NULL
<1>4. ASSUME NEW old \in Seq(Cell), Len(old) = Len(nodes), nodes' = Append(old, Fresh)
      PROVE  /\ nodes' \in Seq(Cell) /\ Len(nodes') = new /\ nodes'[new] = Fresh
             /\ \A i \in 1..Len(nodes) : nodes'[i] = old[i]
  <2> HIDE DEF Cell
  <2> QED
    BY <1>2, <1>3, <1>4, AppendProperties
<1>5. /\ nodes' \in Seq(Cell) /\ Len(nodes') = new /\ nodes'[new] = Fresh
      /\ \A i \in 1..Len(nodes) :
           /\ nodes'[i].next = IF i = cursor[t] THEN new ELSE nodes[i].next
           /\ nodes'[i].name = nodes[i].name
           /\ nodes'[i].timestamp = nodes[i].timestamp /\ nodes'[i].size = nodes[i].size
           /\ nodes'[i].newpeerip = nodes[i].newpeerip
  <2>1. CASE cursor[t] = NULL
    <3>1. nodes' = Append(nodes, Fresh)
      BY <2>1 DEF AppendNode
    <3>2. /\ nodes' \in Seq(Cell) /\ Len(nodes') = new /\ nodes'[new] = Fresh
          /\ \A i \in 1..Len(nodes) : nodes'[i] = nodes[i]
      BY <1>2, <1>4, <3>1
    <3>3. \A i \in 1..Len(nodes) : i # cursor[t]
      BY <1>2, <2>1 DEF NULL
    <3> QED
      BY <2>1, <3>1, <3>2, <3>3
  <2>2. CASE cursor[t] # NULL
    <3>1. PICK cell : cell = [nodes[cursor[t]] EXCEPT !.next = new]
      OBVIOUS
    <3>2. cursor[t] \in 1..Len(nodes) /\ new \in Nat
      BY <1>2, <2>2 DEF NULL
    <3>3. /\ cell \in Cell /\ cell.next = new
          /\ cell.name = nodes[cursor[t]].name
          /\ cell.timestamp = nodes[cursor[t]].timestamp
          /\ cell.size = nodes[cursor[t]].size
          /\ cell.newpeerip = nodes[cursor[t]].newpeerip
      <4>1. nodes[cursor[t]] \in Cell
        BY <1>2, <3>2
      <4> HIDE DEF new
      <4> QED
        BY <3>1, <3>2, <4>1 DEF Cell
    <3>4. PICK old : old = [nodes EXCEPT ![cursor[t]] = cell]
      OBVIOUS
    <3>5. /\ old \in Seq(Cell) /\ Len(old) = Len(nodes)
          /\ \A i \in 1..Len(nodes) : old[i] = IF i = cursor[t] THEN cell ELSE nodes[i]
      BY <1>2, <3>2, <3>3, <3>4, ExceptSeq
    <3>6. nodes' = Append(old, Fresh)
      BY <2>2, <3>1, <3>4 DEF AppendNode
    <3>7. /\ nodes' \in Seq(Cell) /\ Len(nodes') = new /\ nodes'[new] = Fresh
          /\ \A i \in 1..Len(nodes) : nodes'[i] = old[i]
      BY <1>4, <3>5, <3>6
    <3> HIDE DEF new
    <3> QED
      BY <2>2, <3>3, <3>5, <3>6, <3>7
  <2> QED
    BY <2>1, <2>2
<1>6. PICK label \in {"sethead", "reread"}, place \in Nat :
        /\ Goto(t, label) /\ cursor' = [cursor EXCEPT ![t] = place]
        /\ place # NULL /\ place <= new
        /\ \/ cursor[t] = NULL /\ label = "sethead" /\ place = new /\ head' = NULL
           \/ cursor[t] # NULL /\ label = "reread" /\ place = cursor[t] /\ head' = head
  <2>1. CASE cursor[t] = NULL
    <3>1. /\ Goto(t, "sethead") /\ head' = NULL
          /\ cursor' = [cursor EXCEPT ![t] = new]
      BY <2>1 DEF AppendNode
    <3>2. new \in Nat /\ new # NULL /\ new <= new
      BY <1>2 DEF NULL
    <3> QED
      BY <2>1, <3>1, <3>2
  <2>2. CASE cursor[t] # NULL
    <3>1. Goto(t, "reread") /\ head' = head /\ cursor' = cursor
      BY <2>2 DEF AppendNode
    <3>2. cursor[t] \in Nat /\ cursor[t] <= new
      BY <1>2
    <3>3. cursor' = [cursor EXCEPT ![t] = cursor[t]]
      BY <1>1, <3>1 DEF LocalTypes
    <3> QED
      BY <2>2, <3>1, <3>2, <3>3
  <2> QED
    BY <2>1, <2>2
<1>11. LocalTypes' /\ pc'[t] = label /\ cursor'[t] = place
  <2>1. label \in Labels
    BY DEF Labels, UpdateLabels
  <2> QED
    BY <1>1, <1>6, <2>1 DEF LocalTypes, Goto
<1>7. OthersSame(t) /\ job'[t] = job[t]
  BY <1>1, <1>6 DEF LocalTypes, Goto, OthersSame, SameThread
<1>8. ThreadOK(t)'
  BY <1>1, <1>6, <1>11, <1>7 DEF ThreadOK, UpdateLabels, DeleteLabels, NodeLabels
<1>9. \A i \in 1..Len(nodes') : nodes'[i].next \in 0..Len(nodes')
  <2> SUFFICES ASSUME NEW i \in 1..Len(nodes') PROVE nodes'[i].next \in 0..Len(nodes')
    OBVIOUS
  <2>1. CASE i = new
    BY <1>2, <1>3, <1>5, <2>1
  <2>2. CASE i # new
    <3>1. i \in 1..Len(nodes)
      BY <1>2, <1>5, <2>2
    <3>2. nodes'[i].next = new \/ nodes'[i].next = nodes[i].next
      BY <1>5, <3>1
    <3>3. nodes[i].next \in 0..Len(nodes)
      BY <1>2, <3>1
    <3> QED
      BY <1>2, <1>5, <3>2, <3>3
  <2> QED
    BY <2>1, <2>2
<1>10. Safe'
  <2>1. head \in 0..Len(nodes) /\ expected \in TrackerTable /\ jobs \in 0..MaxJobs
        /\ races \subseteq {"updates", "deletes", "appends"}
    BY <1>1 DEF TypeOK
  <2>2. head' \in 0..Len(nodes')
    BY <1>2, <1>5, <1>6, <2>1 DEF NULL
  <2>3. Len(nodes') >= Len(nodes) /\ cursor'[t] <= Len(nodes')
    BY <1>2, <1>5, <1>6, <1>11
  <2> QED
    BY <1>1, <1>5, <1>11, <1>7, <1>8, <1>9, <2>1, <2>2, <2>3, SafeFrame
<1>12. \/ /\ cursor[t] = NULL /\ pc'[t] = "sethead"
          /\ cursor'[t] = new /\ head' = NULL
       \/ /\ cursor[t] # NULL /\ pc'[t] = "reread"
          /\ cursor'[t] = cursor[t] /\ head' = head
  BY <1>6, <1>11
<1> QED
  BY <1>1, <1>5, <1>7, <1>10, <1>12

LEMMA SetHeadLemma ==
  ASSUME Safe, NEW t \in Threads, SetHead(t)
  PROVE  /\ Safe' /\ OthersSame(t) /\ pc[t] = "sethead" /\ pc'[t] = "name"
         /\ job'[t] = job[t] /\ cursor'[t] = cursor[t] /\ head' = cursor[t]
         /\ UNCHANGED <<nodes, jobs, expected, races>>
<1>1. /\ TypeOK /\ ThreadOK(t) /\ pc[t] = "sethead" /\ head' = cursor[t]
      /\ Goto(t, "name") /\ UNCHANGED frame /\ UNCHANGED <<nodes, jobs, expected, races>>
  BY DEF Safe, SetHead, At, history
<1>2. cursor[t] # NULL
  BY <1>1 DEF ThreadOK, NodeLabels, UpdateLabels
<1>3. cursor[t] \in 1..Len(nodes) /\ Len(nodes) \in Nat
  BY <1>1, <1>2, HereLemma
<1>4. "name" \in Labels
  BY DEF Labels, UpdateLabels
<1>5. /\ LocalTypes' /\ OthersSame(t) /\ pc'[t] = "name"
      /\ job'[t] = job[t] /\ cursor'[t] = cursor[t]
  BY <1>1, <1>4, GotoLemma
<1>6. ThreadOK(t)'
  BY <1>1, <1>2, <1>5 DEF ThreadOK, UpdateLabels, DeleteLabels, NodeLabels
<1>7. Safe'
  <2>1. /\ nodes' \in Seq(Cell) /\ \A i \in 1..Len(nodes') : nodes'[i].next \in 0..Len(nodes')
        /\ expected' \in TrackerTable /\ jobs' \in 0..MaxJobs
        /\ races' \subseteq {"updates", "deletes", "appends"}
    BY <1>1 DEF TypeOK
  <2>2. /\ head' \in 0..Len(nodes') /\ Len(nodes') >= Len(nodes)
        /\ cursor'[t] <= Len(nodes')
    BY <1>1, <1>3, <1>5
  <2> QED
    BY <1>5, <1>6, <2>1, <2>2, SafeFrame
<1> QED
  BY <1>1, <1>5, <1>7

LEMMA RereadLemma ==
  ASSUME Safe, NEW t \in Threads, Reread(t)
  PROVE  /\ Safe' /\ OthersSame(t) /\ pc[t] = "reread"
         /\ pc'[t] = IF Here(t).next = NULL THEN "crashed" ELSE "name"
         /\ job'[t] = job[t] /\ cursor'[t] = Here(t).next
         /\ UNCHANGED <<nodes, head, jobs, expected, races>>
<1>1. /\ TypeOK /\ ThreadOK(t) /\ LocalTypes /\ pc[t] = "reread"
      /\ cursor' = [cursor EXCEPT ![t] = Here(t).next]
      /\ Goto(t, IF Here(t).next = NULL THEN "crashed" ELSE "name")
      /\ UNCHANGED <<nodes, head, job, index, counter, jobs, expected, races>>
  BY TypesLemma DEF Safe, Reread, At, shared, history
<1>2. cursor[t] # NULL
  BY <1>1 DEF ThreadOK, NodeLabels, UpdateLabels
<1>3. Here(t).next \in 0..Len(nodes) /\ Len(nodes) \in Nat /\ Here(t).next \in Nat
  BY <1>1, <1>2, HereLemma
<1>4. PICK label \in {"crashed", "name"} :
        label = IF Here(t).next = NULL THEN "crashed" ELSE "name"
  OBVIOUS
<1>5. LocalTypes' /\ pc'[t] = label /\ cursor'[t] = Here(t).next
  <2>1. label \in Labels
    BY DEF Labels, UpdateLabels
  <2> QED
    BY <1>1, <1>3, <1>4, <2>1 DEF LocalTypes, Goto
<1>6. OthersSame(t) /\ job'[t] = job[t]
  BY <1>1 DEF LocalTypes, Goto, OthersSame, SameThread
<1>7. ThreadOK(t)'
  BY <1>1, <1>4, <1>5, <1>6 DEF ThreadOK, UpdateLabels, DeleteLabels, NodeLabels
<1>8. Safe'
  BY <1>1, <1>3, <1>5, <1>6, <1>7, LocalFrame DEF TypeOK
<1> QED
  BY <1>1, <1>4, <1>5, <1>6, <1>8

\* In every reachable state, whatever the calls and however they overlap, each
\* thread's next access is to a node and into the array.
THEOREM Safety == Spec => []Safe
<1>1. Init => Safe
  <2> SUFFICES ASSUME Init PROVE Safe
    OBVIOUS
  <2>1. nodes \in Seq(Cell) /\ Len(nodes) = 0
    BY EmptySeq DEF Init
  <2>2. [n \in Names |-> NoFile] \in TrackerTable
    BY DEF TrackerTable
  <2>3. 0 \in 0..MAX_PEER_NUM /\ 0 \in 0..0 /\ 0 \in 0..MaxJobs
    BY MaxPeerNumAssumption, JobsAssumption
  <2>4. TypeOK
    BY <2>1, <2>2, <2>3 DEF Init, TypeOK, NULL
  <2>5. pc \in [Threads -> Labels]
    BY DEF Init, Labels
  <2>6. \A t \in Threads : ThreadOK(t)
    BY DEF Init, ThreadOK, UpdateLabels, DeleteLabels, NodeLabels
  <2> QED
    BY <2>4, <2>5, <2>6 DEF Safe
<1>2. Safe /\ [Next]_vars => Safe'
  <2> SUFFICES ASSUME Safe, [Next]_vars PROVE Safe'
    OBVIOUS
  <2>1. ASSUME NEW t \in Threads, Step(t) PROVE Safe'
    BY <2>1, NextNodeLemma, ScanLemma, AdvanceLemma, CompareLemma, FindSlotLemma,
       EnlistIpLemma, StoreSizeLemma, StoreTimestampLemma, SoleHolderLemma, CleanListLemma,
       AppendNodeLemma, SetHeadLemma, RereadLemma, StoreNameLemma, FillNodeLemma, CutTailLemma,
       FindPeerLemma, MoveLastLemma, ClearLastLemma DEF Step
  <2>2. ASSUME NEW t \in Threads, NEW ip \in Ips, StartDelete(t, ip) PROVE Safe'
    BY <2>2, StartDeleteLemma
  <2>3. ASSUME NEW t \in Threads, NEW ip \in Ips, NEW list \in Announced,
               StartUpdate(t, ip, list)
        PROVE  Safe'
    BY <2>3, StartUpdateLemma
  <2>4. CASE UNCHANGED vars
    BY <2>4 DEF vars, shared, local, frame, history, Safe, TypeOK, ThreadOK
  <2> QED
    BY <2>1, <2>2, <2>3, <2>4 DEF Next, Start
<1> QED
  BY <1>1, <1>2, PTL DEF Spec

\* However calls overlap, no thread of the tracker writes a slot outside of newpeerip:
\* update_filetable and delete_peer race for what the array holds, never for where it
\* ends. Where pointers lead is another matter (CrashesOnlyByAppends).
THEOREM AccessesStayInside == Spec => []TypeOK
<1>1. Safe => TypeOK
  BY DEF Safe
<1> QED
  BY <1>1, Safety, PTL

-----------------------------------------------------------------------------
(* Frames for the names.                                                   *)

\* A step that changes no name of a node.
LEMMA NamesFrame ==
  ASSUME Safe, Tidy, NEW t \in Threads, OthersSame(t), NamedAt(t)',
         Len(nodes') \in Nat, Len(nodes') >= Len(nodes),
         Len(nodes') = Len(nodes) \/ pc[t] \in Appending,
         \A i \in 1..Len(nodes) : nodes'[i].name = nodes[i].name,
         \A n \in Names : Pending(t, n) => Pending(t, n)' \/ HasNode(n),
         \A n \in Names : expected'[n] # NoFile => expected[n] # NoFile \/ Pending(t, n)'
  PROVE  Named' /\ Kept'
<1>1. Len(nodes) \in Nat /\ TypeOK /\ \A u \in Threads : ThreadOK(u)
  BY TypesLemma DEF Safe
<1>2. \A u \in Threads : u # t => SameThread(u)
  BY DEF OthersSame
<1>3. ASSUME NEW u \in Threads, pc[u] \in Found \cup Unnamed PROVE cursor[u] \in 1..Len(nodes)
  <2>1. cursor[u] # NULL
    BY <1>1, <1>3 DEF ThreadOK, Found, Unnamed, NodeLabels, UpdateLabels
  <2> QED
    BY <1>1, <2>1, HereLemma
<1>4. ASSUME NEW u \in Threads PROVE NamedAt(u)'
  <2>1. CASE u = t
    BY <2>1
  <2>2. CASE u # t
    <3>1. NamedAt(u) /\ SameThread(u)
      BY <1>2, <2>2 DEF Tidy, Named
    <3>2. pc[u] \in Found => nodes'[cursor[u]].name = nodes[cursor[u]].name
      BY <1>3
    <3>3. pc[u] \in Unnamed => nodes'[Len(nodes')].name = nodes[Len(nodes)].name
      <4> SUFFICES ASSUME pc[u] \in Unnamed PROVE nodes'[Len(nodes')].name = nodes[Len(nodes)].name
        OBVIOUS
      <4>1. Len(nodes') = Len(nodes)
        BY <2>2 DEF Tidy, InOrder, Appending, Unnamed
      <4>2. Len(nodes) \in 1..Len(nodes)
        BY <1>1, <1>3
      <4> QED
        BY <4>1, <4>2
    <3> QED
      BY <3>1, <3>2, <3>3 DEF NamedAt, SameThread, Here, Wanted
  <2> QED
    BY <2>1, <2>2
<1>7. \A n \in Names : HasNode(n) => HasNode(n)'
  BY <1>1 DEF HasNode
<1>8. \A u \in Threads, n \in Names : u # t /\ Pending(u, n) => Pending(u, n)'
  BY <1>2 DEF SameThread, Pending
<1>9. Kept'
  BY <1>7, <1>8 DEF Tidy, Kept
<1> QED
  BY <1>4, <1>9 DEF Named

\* A step that changes no pointer, and takes no thread to the two steps in the middle
\* of ADD_FILE.
LEMMA OrderFrame ==
  ASSUME Safe, Safe', InOrder, NEW t \in Threads, OthersSame(t),
         head' = head, Len(nodes') = Len(nodes),
         \A i \in 1..Len(nodes) : nodes'[i].next = nodes[i].next,
         pc[t] # "sethead", pc'[t] \notin {"sethead", "reread", "crashed"},
         pc'[t] = "advance" => cursor'[t] < Len(nodes),
         pc'[t] \in Appending => /\ cursor'[t] = Len(nodes)
                                 /\ \A u \in Threads : u # t => pc[u] \notin Appending
  PROVE  InOrder'
<1>1. \A u \in Threads : u # t => pc'[u] = pc[u] /\ cursor'[u] = cursor[u]
  BY DEF OthersSame, SameThread
<1>2. nodes = <<>> <=> nodes' = <<>>
  <2>1. nodes \in Seq(Cell) /\ nodes' \in Seq(Cell)
    BY DEF Safe, TypeOK
  <2>2. (nodes = <<>> <=> Len(nodes) = 0) /\ (nodes' = <<>> <=> Len(nodes') = 0)
    BY <2>1, EmptySeq
  <2> QED
    BY <2>2
<1>3. (\E u \in Threads : pc'[u] = "sethead") <=> (\E u \in Threads : pc[u] = "sethead")
  BY <1>1
<1>4. head' = IF nodes' = <<>> \/ \E u \in Threads : pc'[u] = "sethead" THEN NULL ELSE 1
  BY <1>2, <1>3 DEF InOrder
<1>5. alive'
  BY <1>1 DEF InOrder, alive
<1>6. \A u \in Threads : pc'[u] \in Appending =>
        cursor'[u] = IF pc'[u] = "reread" THEN Len(nodes') - 1 ELSE Len(nodes')
  BY <1>1 DEF InOrder
<1>7. \A u, v \in Threads : pc'[u] \in Appending /\ pc'[v] \in Appending => u = v
  BY <1>1 DEF InOrder
<1>8. \A u \in Threads : /\ pc'[u] = "sethead" => Len(nodes') = 1
                         /\ pc'[u] = "advance" => cursor'[u] < Len(nodes')
  BY <1>1 DEF InOrder
<1>9. \A i \in 1..Len(nodes') : nodes'[i].next = IF i = Len(nodes') THEN NULL ELSE i + 1
  BY DEF InOrder
<1> QED
  BY <1>4, <1>5, <1>6, <1>7, <1>8, <1>9 DEF InOrder

\* A thread that is done with an entry has seen the node of that file.
LEMMA FinishedLemma ==
  ASSUME Safe, Named, NEW t \in Threads, pc[t] \in Found, Finished(t)
  PROVE  /\ NamedAt(t)' /\ pc'[t] \in {"idle", "next"} /\ pc'[t] \notin Appending
         /\ \A n \in Names : Pending(t, n) => Pending(t, n)' \/ HasNode(n)
<1>1. pc'[t] \in {"idle", "next"}
  BY DEF Finished
<1>2. NamedAt(t)' /\ pc'[t] \notin Appending
  BY <1>1 DEF NamedAt, Found, Unnamed, Appending
<1>3. pc[t] \in UpdateLabels /\ pc[t] \in NodeLabels
  BY DEF Found, UpdateLabels, NodeLabels
<1>4. cursor[t] \in 1..Len(nodes) /\ Here(t).name = Wanted(t).name
  BY <1>3, HereLemma DEF Safe, ThreadOK, Named, NamedAt
<1>5. Wanted(t) = job[t].list[1]
  BY <1>3, UpdateLemma
<1>6. ASSUME NEW n \in Names, Pending(t, n), ~HasNode(n) PROVE Pending(t, n)'
  <2> DEFINE len == Len(job[t].list)
  <2>1. PICK i \in 1..len : job[t].list[i].name = n
    BY <1>6 DEF Pending
  <2>2. i # 1
    BY <1>4, <1>5, <1>6, <2>1 DEF HasNode, Here
  <2>3. len \in Nat \ {0}
    BY <1>3, UpdateLemma
  <2> HIDE DEF len
  <2>4. i - 1 \in 1..(len - 1) /\ len # 1 /\ i - 1 + 1 = i
    BY <2>1, <2>2, <2>3
  <2>5. /\ pc'[t] = "next" /\ Len(job'[t].list) = len - 1
        /\ \A j \in 1..(len - 1) : job'[t].list[j] = job[t].list[j + 1]
    BY <2>4 DEF Finished, len
  <2>6. job'[t].list[i - 1].name = n
    BY <2>1, <2>4, <2>5
  <2> QED
    BY <2>4, <2>5, <2>6 DEF Pending, UpdateLabels
<1> QED
  BY <1>1, <1>2, <1>6

-----------------------------------------------------------------------------
(* The names, action by action.                                            *)

\* Names and pointers are what they were.
SameLinks ==
  /\ head' = head /\ Len(nodes') = Len(nodes)
  /\ \A i \in 1..Len(nodes) : nodes'[i].name = nodes[i].name /\ nodes'[i].next = nodes[i].next

\* A thread gets on with an entry whose node it has found.
LEMMA GoesOnLemma ==
  ASSUME Safe, Safe', Tidy, NEW t \in Threads, OthersSame(t),
         pc[t] \in Found, pc'[t] \in Found, pc'[t] \in Appending => pc[t] \in Appending,
         job'[t] = job[t], cursor'[t] = cursor[t], SameLinks, expected' = expected
  PROVE  Tidy'
<1>1. /\ pc[t] \in UpdateLabels /\ pc'[t] \in UpdateLabels /\ pc[t] \in NodeLabels
      /\ pc[t] \notin Unnamed \cup {"advance"}
      /\ pc'[t] \notin Unnamed \cup {"crashed", "advance"}
  BY DEF Found, UpdateLabels, NodeLabels, Unnamed
<1>2. cursor[t] \in 1..Len(nodes) /\ Len(nodes) \in Nat /\ Len(nodes') \in Nat
  BY <1>1, HereLemma, TypesLemma DEF Safe, ThreadOK
<1>3. NamedAt(t)'
  <2>1. Here(t).name = Wanted(t).name
    BY DEF Tidy, Named, NamedAt
  <2>2. nodes'[cursor'[t]].name = nodes[cursor[t]].name
    BY <1>2 DEF SameLinks
  <2> QED
    BY <1>1, <2>1, <2>2 DEF NamedAt, Here, Wanted
<1>4. \A n \in Names : Pending(t, n) => Pending(t, n)'
  BY <1>1 DEF Pending
<1>5. Named' /\ Kept'
  BY <1>1, <1>2, <1>3, <1>4, NamesFrame DEF SameLinks
<1>6. pc'[t] \in Appending => /\ cursor'[t] = Len(nodes)
                              /\ \A u \in Threads : u # t => pc[u] \notin Appending
  BY <1>1 DEF Tidy, InOrder, Unnamed
<1>7. InOrder'
  BY <1>1, <1>6, OrderFrame DEF Tidy, SameLinks, Unnamed
<1> QED
  BY <1>5, <1>7 DEF Tidy

\* A thread is done with an entry.
LEMMA FinishesLemma ==
  ASSUME Safe, Safe', Tidy, NEW t \in Threads, OthersSame(t),
         pc[t] \in Found, Finished(t), SameLinks, expected' = expected
  PROVE  Tidy'
<1>1. Len(nodes) \in Nat /\ Len(nodes') \in Nat
  BY TypesLemma DEF SameLinks
<1>2. /\ NamedAt(t)' /\ pc'[t] \in {"idle", "next"} /\ pc'[t] \notin Appending
      /\ \A n \in Names : Pending(t, n) => Pending(t, n)' \/ HasNode(n)
  BY FinishedLemma DEF Tidy
<1>3. Named' /\ Kept'
  BY <1>1, <1>2, NamesFrame DEF SameLinks
<1>4. pc[t] # "sethead"
  BY DEF Found
<1>5. InOrder'
  BY <1>2, <1>4, OrderFrame DEF Tidy, SameLinks
<1> QED
  BY <1>3, <1>5 DEF Tidy

LEMMA StoresKeepLinks ==
  ASSUME NEW t \in Threads, NEW cell, Stored(t, cell), head' = head,
         cell.name = Here(t).name, cell.next = Here(t).next
  PROVE  SameLinks
  BY DEF Stored, SameLinks, Here

\* update_filetable behind its scan, but for what it appends.
LEMMA UpdateNames ==
  ASSUME Safe, Tidy, NEW t \in Threads,
         \/ Compare(t) \/ FindSlot(t) \/ EnlistIp(t)
         \/ StoreSize(t) \/ StoreTimestamp(t) \/ StoreSoleHolder(t) \/ CleanList(t)
         \/ FillNode(t)
  PROVE  Tidy'
<1>1. ASSUME UNCHANGED <<nodes, head>> PROVE SameLinks
  BY <1>1 DEF SameLinks
<1>2. SameNodes => SameLinks
  BY DEF SameNodes, SameLinks
<1>3. CASE Compare(t)
  <2>1. /\ Safe' /\ OthersSame(t) /\ pc[t] = "compare" /\ SameLinks
        /\ expected' = expected
        /\ \/ /\ pc'[t] \in {"find", "size"}
              /\ job'[t] = job[t] /\ cursor'[t] = cursor[t]
           \/ Finished(t)
    BY <1>1, <1>3, CompareLemma
  <2> QED
    BY <2>1, GoesOnLemma, FinishesLemma DEF Found, Appending
<1>4. CASE FindSlot(t)
  <2>1. /\ Safe' /\ OthersSame(t) /\ pc[t] = "find" /\ SameLinks
        /\ expected' = expected
        /\ \/ Finished(t)
           \/ pc'[t] = "enlist" /\ job'[t] = job[t] /\ cursor'[t] = cursor[t]
    BY <1>1, <1>4, FindSlotLemma
  <2> QED
    BY <2>1, GoesOnLemma, FinishesLemma DEF Found, Appending
<1>5. CASE EnlistIp(t) \/ CleanList(t)
  <2>1. /\ Safe' /\ OthersSame(t) /\ pc[t] \in {"enlist", "clean"} /\ SameLinks
        /\ expected' = expected /\ Finished(t)
    BY <1>2, <1>5, EnlistIpLemma, CleanListLemma
  <2> QED
    BY <2>1, FinishesLemma DEF Found
<1>6. CASE StoreSize(t)
  <2>1. /\ Safe' /\ OthersSame(t) /\ pc[t] = "size" /\ pc'[t] = "timestamp"
        /\ job'[t] = job[t] /\ cursor'[t] = cursor[t]
        /\ Stored(t, [Here(t) EXCEPT !.size = Wanted(t).size])
        /\ head' = head /\ expected' = expected
    BY <1>6, StoreSizeLemma
  <2>2. Here(t) \in Cell
    BY <2>1, HereLemma DEF Safe, ThreadOK, NodeLabels, UpdateLabels
  <2>3. PICK cell : cell = [Here(t) EXCEPT !.size = Wanted(t).size]
    OBVIOUS
  <2>4. cell.name = Here(t).name /\ cell.next = Here(t).next
    BY <2>2, <2>3 DEF Cell
  <2>5. SameLinks
    BY <2>1, <2>3, <2>4, StoresKeepLinks
  <2> QED
    BY <2>1, <2>5, GoesOnLemma DEF Found, Appending
<1>7. CASE StoreTimestamp(t)
  <2>1. /\ Safe' /\ OthersSame(t) /\ pc[t] = "timestamp" /\ pc'[t] = "sole"
        /\ job'[t] = job[t] /\ cursor'[t] = cursor[t]
        /\ Stored(t, [Here(t) EXCEPT !.timestamp = Wanted(t).timestamp])
        /\ head' = head /\ expected' = expected
    BY <1>7, StoreTimestampLemma
  <2>2. Here(t) \in Cell
    BY <2>1, HereLemma DEF Safe, ThreadOK, NodeLabels, UpdateLabels
  <2>3. PICK cell : cell = [Here(t) EXCEPT !.timestamp = Wanted(t).timestamp]
    OBVIOUS
  <2>4. cell.name = Here(t).name /\ cell.next = Here(t).next
    BY <2>2, <2>3 DEF Cell
  <2>5. SameLinks
    BY <2>1, <2>3, <2>4, StoresKeepLinks
  <2> QED
    BY <2>1, <2>5, GoesOnLemma DEF Found, Appending
<1>8. CASE StoreSoleHolder(t)
  <2>1. /\ Safe' /\ OthersSame(t) /\ pc[t] = "sole" /\ pc'[t] = "clean" /\ SameLinks
        /\ job'[t] = job[t] /\ cursor'[t] = cursor[t]
        /\ expected' = expected
    BY <1>2, <1>8, SoleHolderLemma
  <2> QED
    BY <2>1, GoesOnLemma DEF Found, Appending
<1>9. CASE FillNode(t)
  <2>1. PICK cell \in Cell :
        /\ Safe' /\ OthersSame(t) /\ pc[t] = "fill" /\ pc'[t] = "cut"
        /\ job'[t] = job[t] /\ cursor'[t] = cursor[t] /\ Stored(t, cell)
        /\ head' = head /\ expected' = expected
        /\ cell.name = Here(t).name /\ cell.next = Here(t).next
    BY <1>9, FillNodeLemma
  <2>2. SameLinks
    BY <2>1, StoresKeepLinks
  <2> QED
    BY <2>1, <2>2, GoesOnLemma DEF Found, Appending
<1> QED
  BY <1>3, <1>4, <1>5, <1>6, <1>7, <1>8, <1>9

\* The last store of ADD_FILE changes no pointer.
LEMMA CutTailNames ==
  ASSUME Safe, Tidy, NEW t \in Threads, CutTail(t)
  PROVE  Tidy' /\ SameLinks
<1>1. /\ Safe' /\ OthersSame(t) /\ pc[t] = "cut" /\ Finished(t)
      /\ Stored(t, [Here(t) EXCEPT !.next = NULL])
      /\ head' = head /\ expected' = expected
  BY CutTailLemma
<1>2. Here(t) \in Cell /\ cursor[t] \in 1..Len(nodes)
  BY <1>1, HereLemma DEF Safe, ThreadOK, NodeLabels, UpdateLabels
<1>3. PICK cell : cell = [Here(t) EXCEPT !.next = NULL]
  OBVIOUS
<1>4. cell.name = Here(t).name /\ cell.next = NULL
  BY <1>2, <1>3 DEF Cell
<1>5. Here(t).next = NULL
  BY <1>1, <1>2 DEF Tidy, InOrder, Appending, Here
<1>6. SameLinks
  BY <1>1, <1>3, <1>4, <1>5, StoresKeepLinks
<1> QED
  BY <1>1, <1>6, FinishesLemma DEF Found

\* delete_peer, and the start of either call: no thread gets to a node.
LEMMA OutsideNames ==
  ASSUME Safe, Safe', Tidy, NEW t \in Threads, OthersSame(t), SameLinks,
         pc[t] \notin UpdateLabels, pc'[t] \in {"idle", "forget", "move", "clear", "next"},
         \A n \in Names : expected'[n] # NoFile => expected[n] # NoFile \/ Pending(t, n)'
  PROVE  Tidy'
<1>1. Len(nodes) \in Nat /\ Len(nodes') \in Nat
  BY TypesLemma DEF SameLinks
<1>2. pc'[t] \notin Found \cup Unnamed \cup Appending \cup {"crashed", "advance"}
  BY DEF Found, Unnamed, Appending
<1>3. NamedAt(t)' /\ \A n \in Names : ~Pending(t, n)
  BY <1>2 DEF NamedAt, Pending
<1>4. Named' /\ Kept'
  BY <1>1, <1>2, <1>3, NamesFrame DEF SameLinks
<1>5. pc[t] # "sethead"
  BY DEF UpdateLabels
<1>6. InOrder'
  BY <1>2, <1>5, OrderFrame DEF Tidy, SameLinks, Unnamed
<1> QED
  BY <1>4, <1>6 DEF Tidy

LEMMA DeleteNames ==
  ASSUME Safe, Tidy, NEW t \in Threads,
         \/ FindPeer(t) \/ MoveLast(t) \/ ClearLast(t) \/ \E ip \in Ips : StartDelete(t, ip)
  PROVE  Tidy'
<1>1. SameNodes \/ UNCHANGED <<nodes, head>> => SameLinks
  BY DEF SameNodes, SameLinks
<1>2. CASE FindPeer(t) \/ MoveLast(t) \/ ClearLast(t)
  <2>1. /\ Safe' /\ OthersSame(t) /\ SameLinks /\ expected' = expected
        /\ pc[t] \in {"forget", "move", "clear"}
        /\ pc'[t] \in {"idle", "forget", "move", "clear"}
    BY <1>1, <1>2, FindPeerLemma, MoveLastLemma, ClearLastLemma
  <2> QED
    BY <2>1, OutsideNames DEF UpdateLabels
<1>3. ASSUME NEW ip \in Ips, StartDelete(t, ip) PROVE Tidy'
  <2>1. /\ Safe' /\ OthersSame(t) /\ SameLinks /\ pc[t] = "idle" /\ pc'[t] = "forget"
    BY <1>1, <1>3, StartDeleteLemma
  <2>2. expected' = ForgetPeer(expected, ip)
    BY <1>3 DEF StartDelete
  <2>3. \A n \in Names : expected'[n] # NoFile => expected[n] # NoFile
    BY <2>2, ForgetPeerTypes DEF Safe, TypeOK
  <2> QED
    BY <2>1, <2>2, <2>3, OutsideNames DEF UpdateLabels
<1> QED
  BY <1>2, <1>3

LEMMA StartUpdateNames ==
  ASSUME Safe, Tidy, NEW t \in Threads, NEW ip \in Ips, NEW list \in Announced,
         StartUpdate(t, ip, list)
  PROVE  Tidy'
<1>1. /\ Safe' /\ OthersSame(t) /\ pc[t] = "idle" /\ pc'[t] = "next" /\ job'[t].list = list
      /\ SameLinks
  BY StartUpdateLemma DEF SameLinks
<1>2. expected' = MergeTable(expected, AsTable(list), ip)
  BY DEF StartUpdate
<1>3. ASSUME NEW n \in Names, expected'[n] # NoFile
      PROVE  expected[n] # NoFile \/ Pending(t, n)'
  <2>1. AsTable(list)[n] = NoFile => expected'[n] = expected[n]
    BY <1>2 DEF MergeTable
  <2>2. AsTable(list)[n] # NoFile => \E i \in 1..Len(list) : list[i].name = n
    BY AsTableLemma
  <2> QED
    BY <1>1, <1>3, <2>1, <2>2 DEF Pending, UpdateLabels
<1> QED
  BY <1>1, <1>2, <1>3, OutsideNames DEF UpdateLabels

\* Only one thread at a time is on its way to a new node, while appends have not
\* overlapped.
LEMMA AppendsLemma ==
  ASSUME NEW t \in Threads, races' = races \cup Appends, "appends" \notin races'
  PROVE  \A u \in Threads : pc[u] \notin Appending
  BY DEF Appends, Appending

\* A list in order has a node behind the one that the thread advances from.
LEMMA AdvanceInOrder ==
  ASSUME Safe, InOrder, NEW t \in Threads, Advance(t)
  PROVE  /\ cursor[t] \in 1..Len(nodes) /\ cursor'[t] = cursor[t] + 1
         /\ pc'[t] = "scan" /\ races' = races
<1>1. /\ pc[t] = "advance" /\ cursor'[t] = Here(t).next
      /\ Here(t).next # NULL => pc'[t] = "scan" /\ races' = races
  BY AdvanceLemma
<1>2. cursor[t] \in 1..Len(nodes) /\ Len(nodes) \in Nat
  BY <1>1, HereLemma DEF Safe, ThreadOK, NodeLabels, UpdateLabels
<1>3. cursor[t] < Len(nodes)
  BY <1>1 DEF InOrder
<1>4. Here(t).next = cursor[t] + 1
  BY <1>2, <1>3 DEF InOrder, Here
<1>5. Here(t).next # NULL
  BY <1>2, <1>4 DEF NULL
<1> QED
  BY <1>1, <1>2, <1>4, <1>5

\* The scan.
LEMMA ScanNames ==
  ASSUME Safe, Tidy, NEW t \in Threads, NextNode(t) \/ Scan(t) \/ Advance(t),
         "appends" \notin races'
  PROVE  Tidy'
<1>1. /\ Safe' /\ OthersSame(t) /\ pc[t] \in {"next", "scan", "advance"} /\ job'[t] = job[t]
      /\ UNCHANGED <<nodes, head, expected>>
      /\ pc'[t] \in {"scan", "advance", "append", "compare"}
  BY NextNodeLemma, ScanLemma, AdvanceLemma
<1>2. SameLinks /\ Len(nodes) \in Nat /\ Len(nodes') \in Nat /\ InOrder
  BY <1>1, TypesLemma DEF SameLinks, Tidy
<1>3. pc'[t] = "compare" => Here(t).name = Wanted(t).name /\ cursor'[t] = cursor[t]
  BY <1>2, NextNodeLemma, ScanLemma, AdvanceInOrder
<1>4. pc'[t] = "advance" => cursor'[t] < Len(nodes)
  <2> SUFFICES ASSUME pc'[t] = "advance" PROVE cursor'[t] < Len(nodes)
    OBVIOUS
  <2>1. Scan(t)
    BY <1>2, NextNodeLemma, AdvanceInOrder
  <2>2. pc[t] = "scan" /\ cursor'[t] = cursor[t] /\ Here(t).next # NULL
    BY <2>1, ScanLemma
  <2>3. cursor[t] \in 1..Len(nodes)
    BY <2>2, HereLemma DEF Safe, ThreadOK, NodeLabels, UpdateLabels
  <2>4. cursor[t] # Len(nodes)
    BY <1>2, <2>2, <2>3 DEF InOrder, Here
  <2> QED
    BY <1>2, <2>2, <2>3, <2>4
<1>5. pc'[t] = "append" => /\ cursor'[t] = Len(nodes)
                           /\ \A u \in Threads : u # t => pc[u] \notin Appending
  <2> SUFFICES ASSUME pc'[t] = "append"
               PROVE  /\ cursor'[t] = Len(nodes)
                      /\ \A u \in Threads : u # t => pc[u] \notin Appending
    OBVIOUS
  <2>1. ~Advance(t)
    BY <1>2, AdvanceInOrder
  <2>2. CASE NextNode(t)
    <3>1. cursor'[t] = head /\ head = NULL /\ races' = races \cup Appends
      BY <2>2, NextNodeLemma DEF NextNode
    <3>2. \A u \in Threads : pc[u] \notin Appending
      BY <3>1, AppendsLemma
    <3>3. \A u \in Threads : pc[u] # "sethead"
      BY <3>2 DEF Appending
    <3>4. nodes = <<>>
      BY <1>2, <3>1, <3>3 DEF InOrder, NULL
    <3> QED
      BY <3>1, <3>2, <3>4, EmptySeq DEF NULL
  <2>3. CASE Scan(t)
    <3>1. /\ pc[t] = "scan" /\ cursor'[t] = cursor[t] /\ Here(t).next = NULL
          /\ races' = races \cup Appends
      BY <2>3, ScanLemma
    <3>2. \A u \in Threads : pc[u] \notin Appending
      BY <3>1, AppendsLemma
    <3>3. cursor[t] \in 1..Len(nodes)
      BY <3>1, HereLemma DEF Safe, ThreadOK, NodeLabels, UpdateLabels
    <3>4. cursor[t] # Len(nodes) => Here(t).next = cursor[t] + 1
      BY <1>2, <3>3 DEF InOrder, Here
    <3>5. cursor[t] = Len(nodes)
      BY <1>2, <3>1, <3>3, <3>4 DEF NULL
    <3> QED
      BY <3>1, <3>2, <3>5
  <2> QED
    BY <2>1, <2>2, <2>3
<1>6. NamedAt(t)'
  BY <1>1, <1>3 DEF NamedAt, Found, Unnamed, Here, Wanted
<1>7. \A n \in Names : Pending(t, n) => Pending(t, n)'
  BY <1>1 DEF Pending, UpdateLabels
<1>8. Named' /\ Kept'
  BY <1>1, <1>2, <1>6, <1>7, NamesFrame
<1>9. pc'[t] \in Appending => /\ cursor'[t] = Len(nodes)
                              /\ \A u \in Threads : u # t => pc[u] \notin Appending
  BY <1>1, <1>5 DEF Appending
<1>10. pc[t] # "sethead" /\ pc'[t] \notin {"sethead", "reread", "crashed"}
  BY <1>1
<1>11. InOrder'
  BY <1>1, <1>2, <1>4, <1>9, <1>10, OrderFrame
<1> QED
  BY <1>8, <1>11 DEF Tidy

LEMMA AppendNodeNames ==
  ASSUME Safe, Tidy, NEW t \in Threads, AppendNode(t)
  PROVE  Tidy'
<1>1. /\ Safe' /\ OthersSame(t) /\ pc[t] = "append" /\ job'[t] = job[t]
      /\ expected' = expected
      /\ Len(nodes') = Len(nodes) + 1 /\ nodes'[Len(nodes) + 1] = Fresh
      /\ \A i \in 1..Len(nodes) :
           nodes'[i].next = IF i = cursor[t] THEN Len(nodes) + 1 ELSE nodes[i].next
  BY AppendNodeLemma
<1>2. \A i \in 1..Len(nodes) : nodes'[i].name = nodes[i].name
  BY AppendNodeLemma
<1>3. Len(nodes) \in Nat /\ Len(nodes') \in Nat /\ Len(nodes') > Len(nodes)
  BY <1>1, TypesLemma
<1>4. Fresh.name = NoName /\ Fresh.next = NULL
  BY DEF Fresh
<1>5. \/ cursor[t] = NULL /\ pc'[t] = "sethead" /\ cursor'[t] = Len(nodes) + 1 /\ head' = NULL
      \/ cursor[t] # NULL /\ pc'[t] = "reread" /\ cursor'[t] = cursor[t] /\ head' = head
  BY AppendNodeLemma
<1>6. NamedAt(t)'
  <2>1. nodes'[Len(nodes')].name = NoName
    BY <1>1, <1>4
  <2> QED
    BY <1>5, <2>1 DEF NamedAt, Found
<1>7. \A n \in Names : Pending(t, n) => Pending(t, n)'
  BY <1>1, <1>5 DEF Pending, UpdateLabels
<1>8. pc[t] \in Appending /\ Len(nodes') >= Len(nodes)
  BY <1>1, <1>3 DEF Appending
<1>9. Named' /\ Kept'
  BY <1>1, <1>2, <1>3, <1>6, <1>7, <1>8, NamesFrame
<1>10. InOrder
  BY DEF Tidy
<1>11. cursor[t] = Len(nodes) /\ \A u \in Threads : u # t => pc[u] \notin Appending
  BY <1>1, <1>8, <1>10 DEF InOrder
<1>12. \A u \in Threads : u # t =>
         pc'[u] = pc[u] /\ cursor'[u] = cursor[u] /\ pc'[u] \notin Appending
  BY <1>1, <1>11 DEF OthersSame, SameThread
<1>13. \A i \in 1..Len(nodes') : nodes'[i].next = IF i = Len(nodes') THEN NULL ELSE i + 1
  <2> SUFFICES ASSUME NEW i \in 1..Len(nodes')
               PROVE  nodes'[i].next = IF i = Len(nodes') THEN NULL ELSE i + 1
    OBVIOUS
  <2>1. CASE i = Len(nodes')
    BY <1>1, <1>4, <2>1
  <2>2. CASE i # Len(nodes')
    <3>1. i \in 1..Len(nodes)
      BY <1>1, <1>3, <2>2
    <3>2. i # cursor[t] => nodes[i].next = i + 1
      BY <1>10, <1>11, <3>1 DEF InOrder
    <3> QED
      BY <1>1, <1>11, <2>2, <3>1, <3>2
  <2> QED
    BY <2>1, <2>2
<1>14. (nodes = <<>> <=> Len(nodes) = 0) /\ nodes' # <<>>
  <2>1. nodes \in Seq(Cell) /\ nodes' \in Seq(Cell)
    BY <1>1 DEF Safe, TypeOK
  <2> QED
    BY <1>1, <1>3, <2>1, EmptySeq
<1>15. \A u \in Threads : pc[u] # "sethead"
  BY <1>1, <1>11 DEF Appending
<1>16. head' = IF nodes' = <<>> \/ \E u \in Threads : pc'[u] = "sethead" THEN NULL ELSE 1
  <2>1. CASE cursor[t] = NULL
    BY <1>5, <2>1
  <2>2. CASE cursor[t] # NULL
    <3>1. nodes # <<>> /\ head' = head /\ pc'[t] = "reread"
      BY <1>5, <1>11, <1>14, <2>2 DEF NULL
    <3>2. head = 1
      BY <1>10, <1>15, <3>1 DEF InOrder
    <3>3. \A u \in Threads : pc'[u] # "sethead"
      BY <1>12, <1>15, <3>1
    <3> QED
      BY <1>14, <3>1, <3>2, <3>3
  <2> QED
    BY <2>1, <2>2
<1>17. /\ cursor'[t] = IF pc'[t] = "reread" THEN Len(nodes') - 1 ELSE Len(nodes')
       /\ pc'[t] = "sethead" => Len(nodes') = 1
  BY <1>1, <1>3, <1>5, <1>11 DEF NULL
<1>18. \A u \in Threads : pc'[u] = "advance" => cursor'[u] < Len(nodes')
  <2>1. \A u \in Threads : cursor[u] \in Nat
    BY TypesLemma DEF LocalTypes
  <2>2. \A u \in Threads : pc[u] = "advance" => cursor[u] < Len(nodes)
    BY <1>10 DEF InOrder
  <2> QED
    BY <1>1, <1>3, <1>5, <1>12, <2>1, <2>2
<1>19. alive'
  BY <1>5, <1>10, <1>12 DEF InOrder, alive
<1>20. InOrder'
  BY <1>12, <1>13, <1>16, <1>17, <1>18, <1>19 DEF InOrder, Appending
<1> QED
  BY <1>9, <1>20 DEF Tidy

\* The first node becomes the head.
LEMMA SetHeadNames ==
  ASSUME Safe, Tidy, NEW t \in Threads, SetHead(t)
  PROVE  Tidy'
<1>1. /\ Safe' /\ OthersSame(t) /\ pc[t] = "sethead" /\ pc'[t] = "name"
      /\ job'[t] = job[t] /\ cursor'[t] = cursor[t] /\ head' = cursor[t]
      /\ nodes' = nodes /\ expected' = expected
  BY SetHeadLemma
<1>2. InOrder /\ Len(nodes) \in Nat /\ nodes \in Seq(Cell)
  BY TypesLemma DEF Tidy, Safe, TypeOK
<1>3. NamedAt(t)'
  BY <1>1 DEF Tidy, Named, NamedAt, Found, Unnamed
<1>4. \A n \in Names : Pending(t, n) => Pending(t, n)'
  BY <1>1 DEF Pending, UpdateLabels
<1>5. Named' /\ Kept'
  BY <1>1, <1>2, <1>3, <1>4, NamesFrame
<1>6. /\ cursor[t] = 1 /\ Len(nodes) = 1
      /\ \A u \in Threads : u # t => pc[u] \notin Appending
  BY <1>1, <1>2 DEF InOrder, Appending
<1>7. \A u \in Threads : u # t => pc'[u] = pc[u] /\ cursor'[u] = cursor[u]
  BY <1>1 DEF OthersSame, SameThread
<1>8. nodes # <<>> /\ \A u \in Threads : pc'[u] # "sethead"
  <2>1. nodes # <<>>
    <3>1. nodes = <<>> <=> Len(nodes) = 0
      BY <1>2, EmptySeq
    <3> QED
      BY <1>6, <3>1
  <2>2. \A u \in Threads : pc'[u] # "sethead"
    BY <1>1, <1>6, <1>7 DEF Appending
  <2> QED
    BY <2>1, <2>2
<1>9. head' = IF nodes' = <<>> \/ \E u \in Threads : pc'[u] = "sethead" THEN NULL ELSE 1
  BY <1>1, <1>6, <1>8
<1>10. alive' /\ \A u, v \in Threads : pc'[u] \in Appending /\ pc'[v] \in Appending => u = v
  BY <1>1, <1>2, <1>6, <1>7 DEF InOrder, alive
<1>11. \A u \in Threads :
         /\ pc'[u] \in Appending =>
              cursor'[u] = IF pc'[u] = "reread" THEN Len(nodes') - 1 ELSE Len(nodes')
         /\ pc'[u] = "advance" => cursor'[u] < Len(nodes')
  BY <1>1, <1>2, <1>6, <1>7 DEF InOrder
<1>12. InOrder'
  BY <1>1, <1>2, <1>8, <1>9, <1>10, <1>11 DEF InOrder
<1> QED
  BY <1>5, <1>12 DEF Tidy

\* The thread gets to the node that it has linked.
LEMMA RereadNames ==
  ASSUME Safe, Tidy, NEW t \in Threads, Reread(t)
  PROVE  /\ Tidy' /\ pc'[t] = "name"
         /\ cursor[t] \in 1..Len(nodes) /\ cursor'[t] = Len(nodes)
<1>1. /\ Safe' /\ OthersSame(t) /\ pc[t] = "reread"
      /\ pc'[t] = IF Here(t).next = NULL THEN "crashed" ELSE "name"
      /\ job'[t] = job[t] /\ cursor'[t] = Here(t).next
      /\ UNCHANGED <<nodes, head, expected>>
  BY RereadLemma
<1>2. InOrder /\ Len(nodes) \in Nat
  BY TypesLemma DEF Tidy
<1>3. cursor[t] \in 1..Len(nodes)
  BY <1>1, HereLemma DEF Safe, ThreadOK, NodeLabels, UpdateLabels
<1>4. cursor[t] = Len(nodes) - 1 /\ \A u \in Threads : u # t => pc[u] \notin Appending
  BY <1>1, <1>2 DEF InOrder, Appending
<1>5. Here(t).next = Len(nodes) /\ Len(nodes) # NULL
  BY <1>2, <1>3, <1>4 DEF InOrder, Here, NULL
<1>6. pc'[t] = "name" /\ cursor'[t] = Len(nodes)
  BY <1>1, <1>5
<1>7. NamedAt(t)'
  BY <1>1, <1>6 DEF Tidy, Named, NamedAt, Found, Unnamed
<1>8. \A n \in Names : Pending(t, n) => Pending(t, n)'
  BY <1>1, <1>6 DEF Pending, UpdateLabels
<1>9. Named' /\ Kept'
  BY <1>1, <1>2, <1>7, <1>8, NamesFrame
<1>10. InOrder'
  BY <1>1, <1>2, <1>4, <1>6, OrderFrame
<1> QED
  BY <1>3, <1>6, <1>9, <1>10 DEF Tidy

\* A node gets its name: no other thread has been at it.
LEMMA StoreNameNames ==
  ASSUME Safe, Tidy, NEW t \in Threads, StoreName(t)
  PROVE  /\ Tidy'
         /\ Here(t).name = NoName /\ Wanted(t).name \in Names /\ cursor[t] = Len(nodes)
         /\ \A i \in 1..Len(nodes) :
              /\ nodes'[i].name = IF i = cursor[t] THEN Wanted(t).name ELSE nodes[i].name
              /\ nodes'[i].timestamp = nodes[i].timestamp /\ nodes'[i].size = nodes[i].size
<1>1. /\ Safe' /\ OthersSame(t) /\ pc[t] = "name" /\ pc'[t] = "fill"
      /\ job'[t] = job[t] /\ cursor'[t] = cursor[t]
      /\ Stored(t, [Here(t) EXCEPT !.name = Wanted(t).name])
      /\ head' = head /\ expected' = expected
  BY StoreNameLemma
<1>2. /\ Here(t) \in Cell /\ Len(nodes) \in Nat /\ cursor[t] \in 1..Len(nodes)
      /\ Wanted(t).name \in Names
  BY <1>1, HereLemma, UpdateLemma DEF Safe, ThreadOK, NodeLabels, UpdateLabels, Entry
<1>3. PICK cell : cell = [Here(t) EXCEPT !.name = Wanted(t).name]
  OBVIOUS
<1>4. /\ cell.name = Wanted(t).name /\ cell.next = Here(t).next
      /\ cell.timestamp = Here(t).timestamp /\ cell.size = Here(t).size
  BY <1>2, <1>3 DEF Cell
<1>5. /\ Len(nodes') = Len(nodes)
      /\ \A i \in 1..Len(nodes) :
           /\ nodes'[i].name = IF i = cursor[t] THEN Wanted(t).name ELSE nodes[i].name
           /\ nodes'[i].next = nodes[i].next
           /\ nodes'[i].timestamp = nodes[i].timestamp /\ nodes'[i].size = nodes[i].size
  BY <1>1, <1>3, <1>4 DEF Stored, Here
<1>6. InOrder /\ cursor[t] = Len(nodes) /\ \A u \in Threads : u # t => pc[u] \notin Appending
  BY <1>1 DEF Tidy, InOrder, Appending
<1>7. Here(t).name = NoName
  BY <1>1, <1>6 DEF Tidy, Named, NamedAt, Unnamed, Here
<1>8. \A u \in Threads : u # t => SameThread(u)
  BY <1>1 DEF OthersSame
<1>9. ASSUME NEW u \in Threads PROVE NamedAt(u)'
  <2>1. CASE u = t
    BY <1>1, <1>2, <1>5, <2>1 DEF NamedAt, Unnamed, Here, Wanted
  <2>2. CASE u # t
    <3>1. SameThread(u) /\ NamedAt(u) /\ ThreadOK(u) /\ pc[u] \notin Unnamed
      BY <1>6, <1>8, <2>2 DEF Tidy, Named, Safe, Appending, Unnamed
    <3>2. CASE pc[u] \in Found
      <4>1. cursor[u] \in 1..Len(nodes) /\ Wanted(u).name \in Names
        BY <3>1, <3>2, HereLemma, UpdateLemma DEF Safe, ThreadOK, Found, NodeLabels, UpdateLabels, Entry
      <4>2. cursor[u] # cursor[t]
        BY <1>7, <3>1, <3>2, <4>1, NoneAssumption DEF NamedAt, Here
      <4>3. nodes'[cursor[u]].name = nodes[cursor[u]].name
        BY <1>5, <4>1, <4>2
      <4> QED
        BY <3>1, <3>2, <4>3 DEF NamedAt, SameThread, Here, Wanted
    <3>3. CASE pc[u] \notin Found
      BY <3>1, <3>3 DEF NamedAt, SameThread
    <3> QED
      BY <3>2, <3>3
  <2> QED
    BY <2>1, <2>2
<1>10. Kept'
  <2>1. \A n \in Names : HasNode(n) => HasNode(n)'
    BY <1>5, <1>7, NoneAssumption DEF HasNode, Here
  <2>2. \A u \in Threads, n \in Names : Pending(u, n) => Pending(u, n)'
    BY <1>1, <1>8 DEF SameThread, Pending, UpdateLabels
  <2> QED
    BY <1>1, <2>1, <2>2 DEF Tidy, Kept
<1>11. InOrder'
  BY <1>1, <1>5, <1>6, OrderFrame
<1> QED
  BY <1>2, <1>5, <1>6, <1>7, <1>9, <1>10, <1>11 DEF Tidy, Named

\* What has overlapped stays recorded.
LEMMA RacesGrow ==
  ASSUME [Next]_vars
  PROVE  races \subseteq races'
<1>1. ASSUME NEW t \in Threads, Step(t) PROVE races \subseteq races'
  BY <1>1 DEF Step, NextNode, Scan, Advance, Compare, FindSlot, EnlistIp, StoreSize,
     StoreTimestamp, StoreSoleHolder, CleanList, AppendNode, SetHead, Reread, StoreName,
     FillNode, CutTail, FindPeer, MoveLast, ClearLast, Store, LastStore, history
<1>2. ASSUME NEW t \in Threads, Start(t) PROVE races \subseteq races'
  BY <1>2 DEF Start, StartUpdate, StartDelete
<1> QED
  BY <1>1, <1>2 DEF Next, vars, history

\* In every reachable state, while appends have not overlapped, a file of the table that
\* the calls should make has a node, or a call that has yet to be done with it, and the
\* list is all the nodes in order.
THEOREM NamesInvariance == Spec => []NamesInv
<1>1. Init => NamesInv
  <2> SUFFICES ASSUME Init PROVE Tidy
    BY DEF NamesInv
  <2>1. Named /\ Kept
    BY DEF Init, Named, NamedAt, Found, Unnamed, Kept
  <2>2. \A i \in 1..Len(nodes) : FALSE
    BY EmptySeq DEF Init
  <2>3. InOrder
    BY <2>2 DEF Init, InOrder, Appending, alive, NULL
  <2> QED
    BY <2>1, <2>3 DEF Tidy
<1>2. Safe /\ NamesInv /\ [Next]_vars => NamesInv'
  <2> SUFFICES ASSUME Safe, NamesInv, [Next]_vars, "appends" \notin races' PROVE Tidy'
    BY DEF NamesInv
  <2>1. Tidy
    BY RacesGrow DEF NamesInv
  <2>2. ASSUME NEW t \in Threads, Step(t) PROVE Tidy'
    BY <2>1, <2>2, ScanNames, UpdateNames, AppendNodeNames, SetHeadNames, RereadNames,
       StoreNameNames, CutTailNames, DeleteNames
    DEF Step
  <2>3. ASSUME NEW t \in Threads, NEW ip \in Ips, StartDelete(t, ip) PROVE Tidy'
    BY <2>1, <2>3, DeleteNames
  <2>4. ASSUME NEW t \in Threads, NEW ip \in Ips, NEW list \in Announced,
               StartUpdate(t, ip, list)
        PROVE  Tidy'
    BY <2>1, <2>4, StartUpdateNames
  <2>5. CASE UNCHANGED vars
    BY <2>1, <2>5 DEF vars, shared, local, frame, history, Tidy, Named, NamedAt, Here, Wanted,
                      Kept, HasNode, Pending, InOrder, alive
  <2> QED
    BY <2>2, <2>3, <2>4, <2>5 DEF Next, Start
<1> QED
  BY <1>1, <1>2, Safety, PTL DEF Spec

\* The tracker does not crash on the way to the node it appends, unless two calls of
\* update_filetable have been appending at the same time.
THEOREM CrashesOnlyByAppends == Spec => []CrashedByAppends
<1>1. NamesInv => CrashedByAppends
  BY DEF NamesInv, Tidy, InOrder, CrashedByAppends
<1> QED
  BY <1>1, NamesInvariance, PTL

-----------------------------------------------------------------------------
(* The list.                                                               *)

\* A list in order is all the nodes: a walk leaves none out.
LEMMA ChainLemma ==
  ASSUME Safe, InOrder, \A t \in Threads : pc[t] # "sethead"
  PROVE  Chain = 1..Len(nodes)
<1>1. Len(nodes) \in Nat /\ nodes \in Seq(Cell)
  BY TypesLemma DEF Safe, TypeOK
<1>2. ASSUME NEW i \in 1..Len(nodes), NEW S \in SUBSET (1..Len(nodes)), Closed(S) PROVE i \in S
  <2> DEFINE missing == (1..Len(nodes)) \ S
  <2> SUFFICES ASSUME missing # {} PROVE FALSE
    OBVIOUS
  <2>1. missing \subseteq Nat
    BY <1>1
  <2>2. PICK m \in missing : \A k \in missing : m <= k
    <3> HIDE DEF missing
    <3> QED
      BY <2>1, Smallest
  <2>3. head = 1 /\ 1 \in S
    <3>1. nodes # <<>>
      BY <1>1, <1>2, EmptySeq
    <3> QED
      BY <1>2, <3>1 DEF InOrder, Closed, NULL
  <2>4. m \in Nat /\ m # 1 /\ m - 1 \in 1..Len(nodes) /\ m - 1 \in S
    BY <1>1, <2>2, <2>3
  <2>5. nodes[m - 1].next = m /\ m # NULL
    BY <1>1, <2>2, <2>4 DEF InOrder, NULL
  <2> QED
    BY <1>2, <2>2, <2>4, <2>5 DEF Closed
<1> QED
  BY <1>2 DEF Chain

\* A file that was announced stays in the list of the tracker, however many calls of
\* update_filetable and delete_peer overlap, unless two of them have appended a node
\* at the same time.
THEOREM AnnouncedFilesStay == Spec => []FilesKept
<1>1. Safe /\ NamesInv => FilesKept
  <2> SUFFICES ASSUME Safe, NamesInv, AllIdle, "appends" \notin races,
                      NEW n \in Names, expected[n] # NoFile
               PROVE  InList(n)
    BY DEF FilesKept
  <2>1. \A t \in Threads : ~Pending(t, n)
    BY DEF AllIdle, Safe, ThreadOK, Pending, UpdateLabels
  <2>2. HasNode(n)
    BY <2>1 DEF NamesInv, Tidy, Kept
  <2>3. Chain = 1..Len(nodes)
    <3>1. InOrder /\ \A t \in Threads : pc[t] # "sethead"
      BY DEF NamesInv, Tidy, AllIdle, Safe, ThreadOK
    <3> QED
      BY <3>1, ChainLemma
  <2> QED
    BY <2>2, <2>3 DEF InList, HasNode
<1> QED
  BY <1>1, Safety, NamesInvariance, PTL

-----------------------------------------------------------------------------
(* Frames for the versions.                                                *)

\* A step leaves the nodes of file n alone, and what they should come to.
SameFile(n) ==
  /\ \A i \in 1..Len(nodes) : nodes[i].name = n => i \in 1..Len(nodes') /\ nodes'[i].name = n
  /\ \A i \in 1..Len(nodes') : nodes'[i].name = n =>
       /\ i \in 1..Len(nodes) /\ nodes[i].name = n
       /\ nodes'[i].timestamp = nodes[i].timestamp /\ nodes'[i].size = nodes[i].size
  /\ expected'[n] = NoFile <=> expected[n] = NoFile
  /\ expected[n] # NoFile => /\ expected'[n].timestamp = expected[n].timestamp
                             /\ expected'[n].size = expected[n].size

LEMMA SettledSame ==
  ASSUME NEW n, SameFile(n), Settled(n)
  PROVE  Settled(n)'
<1>1. HasNode(n)' <=> HasNode(n)
  BY DEF SameFile, HasNode
<1> QED
  BY <1>1 DEF SameFile, Settled, SameVersion

LEMMA AwaitsSame ==
  ASSUME NEW e, SameFile(e.name), Awaits(e)
  PROVE  Awaits(e)'
<1>1. HasNode(e.name)' <=> HasNode(e.name)
  BY DEF SameFile, HasNode
<1>2. ASSUME NEW i \in 1..Len(nodes'), nodes'[i].name = e.name
      PROVE  SameVersion(IF Newer(e, nodes'[i]) THEN e ELSE nodes'[i], expected'[e.name])
  <2>1. /\ i \in 1..Len(nodes) /\ nodes[i].name = e.name
        /\ nodes'[i].timestamp = nodes[i].timestamp /\ nodes'[i].size = nodes[i].size
    BY <1>2 DEF SameFile
  <2>2. SameVersion(IF Newer(e, nodes[i]) THEN e ELSE nodes[i], expected[e.name])
    BY <2>1 DEF Awaits
  <2> QED
    BY <2>1, <2>2 DEF Awaits, SameFile, SameVersion, Newer
<1> QED
  BY <1>1, <1>2 DEF Awaits, SameFile, SameVersion

\* Of the announced files, the one that is merged is not among those still to come.
LEMMA RestLemma ==
  ASSUME Safe, NEW t \in Threads, Updating(t), NEW k \in 1..Len(job[t].list), k > 1
  PROVE  /\ job[t].list[k] \in Entry /\ job[t].list[k].name \in Names
         /\ job[t].list[k].name # Wanted(t).name
<1>1. /\ job[t].list \in Seq(Entry) /\ Len(job[t].list) \in Nat \ {0}
      /\ Wanted(t) = job[t].list[1]
  BY UpdateLemma DEF Updating
<1>2. \A i, j \in 1..Len(job[t].list) : job[t].list[i].name = job[t].list[j].name => i = j
  BY DEF Safe, ThreadOK, Updating
<1>3. 1 \in 1..Len(job[t].list) /\ k # 1
  BY <1>1
<1>4. job[t].list[k] \in Entry
  BY <1>1
<1> QED
  BY <1>1, <1>2, <1>3, <1>4 DEF Entry

\* The thread is at the same entry of its call.
LEMMA SameEntry ==
  ASSUME Safe, Versions, NEW t \in Threads, Updating(t), Updating(t)', OthersSame(t),
         job'[t] = job[t], NEW e \in Entry, e = Wanted(t),
         \A n \in Names : n # e.name => SameFile(n),
         pc'[t] \in Before => Awaits(e)',
         pc'[t] \in After => Settled(e.name)',
         pc'[t] \in Storing =>
           expected'[e.name] # NoFile /\ SameVersion(e, expected'[e.name]),
         pc'[t] = "timestamp" => nodes'[cursor'[t]].size = e.size
  PROVE  Versions'
<1>1. \A u \in Threads : u # t => SameThread(u) /\ ~Updating(u) /\ ~Updating(u)'
  BY DEF OthersSame, SameThread, Versions, Updating
<1>2. Wanted(t)' = e /\ Wanted(t) = job[t].list[1] /\ Len(job[t].list) \in Nat \ {0}
  BY UpdateLemma DEF Updating, Wanted
<1>3. ASSUME NEW n \in Names, \A u \in Threads : ~Pending(u, n)' PROVE Settled(n)'
  <2>1. \A u \in Threads : ~Pending(u, n)
    BY <1>1, <1>3 DEF Pending, Updating
  <2>2. n # e.name
    BY <1>2, <2>1 DEF Pending, Updating
  <2> QED
    BY <2>1, <2>2, SettledSame DEF Versions
<1>4. ASSUME NEW k \in 1..Len(job[t].list), k > 1 \/ pc'[t] \in Before
      PROVE  Awaits(job[t].list[k])'
  <2>1. CASE k > 1
    <3>1. PICK f : f = job[t].list[k]
      OBVIOUS
    <3>2. f.name \in Names /\ f.name # e.name /\ Awaits(f)
      BY <2>1, <3>1, RestLemma DEF Versions
    <3>3. Awaits(f)'
      BY <3>2, AwaitsSame
    <3> QED
      BY <3>1, <3>3
  <2>2. CASE k = 1
    BY <1>2, <1>4, <2>2
  <2> QED
    BY <1>2, <2>1, <2>2
<1>5. \A u \in Threads : Updating(u)' =>
        \A k \in 1..Len(job'[u].list) : k > 1 \/ pc'[u] \in Before => Awaits(job[u].list[k])'
  BY <1>1, <1>4
<1>6. \A u \in Threads : u # t => pc'[u] \notin After \cup Storing
  BY <1>1 DEF Updating, After, Storing, UpdateLabels
<1>7. \A u \in Threads : pc'[u] = "timestamp" => u = t
  BY <1>6 DEF Storing
<1> QED
  BY <1>1, <1>2, <1>3, <1>5, <1>6, <1>7 DEF Versions, Here

\* The thread is done with its entry.
LEMMA NextEntry ==
  ASSUME Safe, Versions, NEW t \in Threads, Updating(t), OthersSame(t), Finished(t),
         NEW w \in Names, w = Wanted(t).name,
         \A n \in Names : n # w => SameFile(n), Settled(w)'
  PROVE  Versions'
<1>1. \A u \in Threads : u # t => SameThread(u) /\ ~Updating(u) /\ ~Updating(u)'
  BY DEF OthersSame, SameThread, Versions, Updating
<1>2. Wanted(t) = job[t].list[1] /\ Len(job[t].list) \in Nat \ {0}
  BY UpdateLemma DEF Updating
<1>3. ASSUME NEW k \in 1..Len(job'[t].list), pc'[t] = "next" PROVE Awaits(job[t].list[k])'
  <2>1. PICK f : f = job'[t].list[k]
    OBVIOUS
  <2> DEFINE len == Len(job[t].list)
  <2>2. /\ Len(job'[t].list) = len - 1
        /\ \A i \in 1..(len - 1) : job'[t].list[i] = job[t].list[i + 1]
    BY <1>3 DEF Finished
  <2>3. len \in Nat
    BY <1>2
  <2> HIDE DEF len
  <2>4. k + 1 \in 1..len /\ k + 1 > 1 /\ f = job[t].list[k + 1]
    BY <2>1, <2>2, <2>3
  <2>5. f.name \in Names /\ f.name # w /\ Awaits(f)
    BY <2>4, RestLemma DEF Versions, len
  <2>6. Awaits(f)'
    BY <2>5, AwaitsSame
  <2> QED
    BY <2>1, <2>6
<1>4. pc'[t] \in {"idle", "next"}
  BY DEF Finished
<1>5. ASSUME NEW n \in Names, \A u \in Threads : ~Pending(u, n)' PROVE Settled(n)'
  <2>1. CASE n = w
    BY <2>1
  <2>2. CASE n # w
    <3>1. ASSUME Pending(t, n) PROVE FALSE
      <4> DEFINE len == Len(job[t].list)
      <4>1. PICK i \in 1..len : job[t].list[i].name = n
        BY <3>1 DEF Pending
      <4>2. i # 1 /\ len \in Nat \ {0}
        BY <1>2, <2>2, <4>1
      <4> HIDE DEF len
      <4>3. i - 1 \in 1..(len - 1) /\ len # 1 /\ i - 1 + 1 = i
        BY <4>1, <4>2
      <4>4. /\ pc'[t] = "next" /\ Len(job'[t].list) = len - 1
            /\ \A j \in 1..(len - 1) : job'[t].list[j] = job[t].list[j + 1]
        BY <4>3 DEF Finished, len
      <4>5. job'[t].list[i - 1].name = n
        BY <4>1, <4>3, <4>4
      <4> QED
        BY <1>5, <4>3, <4>4, <4>5 DEF Pending, UpdateLabels
    <3>2. \A u \in Threads : ~Pending(u, n)
      BY <1>1, <3>1 DEF Pending, Updating
    <3> QED
      BY <2>2, <3>2, SettledSame DEF Versions
  <2> QED
    BY <2>1, <2>2
<1>6. \A u \in Threads : Updating(u)' => u = t /\ pc'[u] = "next"
  BY <1>1, <1>4 DEF Updating, UpdateLabels
<1>7. \A u \in Threads : pc'[u] \notin After \cup Storing \cup {"timestamp"}
  BY <1>6 DEF Updating, After, Storing, UpdateLabels
<1>8. \A u \in Threads : Updating(u)' =>
        \A k \in 1..Len(job'[u].list) : k > 1 \/ pc'[u] \in Before => Awaits(job[u].list[k])'
  BY <1>3, <1>6
<1> QED
  BY <1>5, <1>6, <1>7, <1>8 DEF Versions

\* No update takes the step.
LEMMA NoEntry ==
  ASSUME Safe, Versions, NEW t \in Threads, OthersSame(t), ~Updating(t), ~Updating(t)',
         \A n \in Names : SameFile(n),
         \A u \in Threads : pc[u] = "timestamp" => nodes'[cursor[u]].size = nodes[cursor[u]].size
  PROVE  Versions'
<1>1. \A u \in Threads : Updating(u) \/ Updating(u)' => u # t /\ SameThread(u)
  BY DEF OthersSame
<1>2. \A n \in Names : Settled(n) => Settled(n)'
  BY SettledSame
<1>3. ASSUME NEW n \in Names, \A u \in Threads : ~Pending(u, n)' PROVE Settled(n)'
  <2>1. \A u \in Threads : ~Pending(u, n)
    BY <1>1, <1>3 DEF SameThread, Pending, Updating
  <2> QED
    BY <1>2, <2>1 DEF Versions
<1>4. ASSUME NEW u \in Threads, Updating(u)',
             NEW k \in 1..Len(job'[u].list), k > 1 \/ pc'[u] \in Before
      PROVE  Awaits(job[u].list[k])'
  <2>1. PICK f : f = job[u].list[k]
    OBVIOUS
  <2>2. SameThread(u) /\ Updating(u) /\ job[u].list \in Seq(Entry) /\ k \in 1..Len(job[u].list)
    BY <1>1, <1>4, UpdateLemma DEF SameThread, Updating
  <2>3. f.name \in Names /\ Awaits(f)
    <3>1. f \in Entry
      BY <2>1, <2>2
    <3> QED
      BY <1>4, <2>1, <2>2, <3>1 DEF SameThread, Versions, Entry
  <2>4. Awaits(f)'
    BY <2>3, AwaitsSame
  <2> QED
    BY <2>1, <2>2, <2>4 DEF SameThread
<1>5. ASSUME NEW u \in Threads, pc'[u] \in After \cup Storing
      PROVE  /\ pc'[u] \in After => Settled(Wanted(u).name)'
             /\ pc'[u] \in Storing =>
                  /\ expected'[Wanted(u)'.name] # NoFile
                  /\ SameVersion(Wanted(u)', expected'[Wanted(u)'.name])
             /\ pc'[u] = "timestamp" => Here(u)'.size = Wanted(u)'.size
  <2>1. Updating(u)'
    BY <1>5 DEF Updating, After, Storing, UpdateLabels
  <2>2. SameThread(u) /\ Updating(u)
    BY <1>1, <2>1 DEF SameThread, Updating
  <2>3. PICK e : e = Wanted(u)
    OBVIOUS
  <2>4. e.name \in Names /\ Wanted(u)' = e
    BY <2>2, <2>3, UpdateLemma DEF SameThread, Updating, Wanted, Entry
  <2>5. pc'[u] \in After => Settled(e.name)'
    BY <1>2, <2>2, <2>3, <2>4 DEF SameThread, Versions
  <2>6. pc'[u] \in Storing =>
          expected'[e.name] # NoFile /\ SameVersion(e, expected'[e.name])
    BY <2>2, <2>3, <2>4 DEF SameThread, Versions, SameFile, SameVersion
  <2>7. pc'[u] = "timestamp" => nodes'[cursor'[u]].size = e.size
    BY <2>2, <2>3 DEF SameThread, Versions, Here
  <2> QED
    BY <2>4, <2>5, <2>6, <2>7 DEF Here
<1>6. \A u, v \in Threads : Updating(u)' /\ Updating(v)' => u = v
  BY <1>1 DEF SameThread, Updating, Versions
<1> QED
  BY <1>3, <1>4, <1>5, <1>6 DEF Versions, After, Storing

\* A step that changes no name.
LEMMA OneNodeSame ==
  ASSUME Safe, OneNode, NEW t \in Threads, OthersSame(t), Len(nodes') = Len(nodes),
         \A i \in 1..Len(nodes) : nodes'[i].name = nodes[i].name,
         pc[t] \in Unnamed <=> pc'[t] \in Unnamed,
         pc'[t] \in {"scan", "advance", "append"} \cup Unnamed => job'[t] = job[t],
         pc'[t] = "scan" =>
           \A i \in 1..Len(nodes) : i < cursor'[t] => nodes[i].name # Wanted(t).name,
         pc'[t] = "advance" =>
           \A i \in 1..Len(nodes) : i <= cursor'[t] => nodes[i].name # Wanted(t).name,
         pc'[t] = "append" => ~HasNode(Wanted(t).name)
  PROVE  OneNode'
<1>1. \A u \in Threads : u # t => SameThread(u)
  BY DEF OthersSame
<1>2. \A n : HasNode(n)' <=> HasNode(n)
  BY DEF HasNode
<1>3. ASSUME NEW i \in 1..Len(nodes'), nodes'[i].name = NoName
      PROVE  i = Len(nodes') /\ \E u \in Threads : pc'[u] \in Unnamed
  <2>1. PICK u \in Threads : i = Len(nodes) /\ pc[u] \in Unnamed
    BY <1>3 DEF OneNode
  <2>2. pc'[u] \in Unnamed
    BY <1>1, <2>1 DEF SameThread
  <2> QED
    BY <2>1, <2>2
<1>4. ASSUME NEW u \in Threads, pc'[u] = "scan", NEW i \in 1..Len(nodes'), i < cursor'[u]
      PROVE  nodes'[i].name # Wanted(u)'.name
  BY <1>1, <1>4 DEF OneNode, SameThread, Wanted
<1>5. ASSUME NEW u \in Threads, pc'[u] = "advance", NEW i \in 1..Len(nodes'), i <= cursor'[u]
      PROVE  nodes'[i].name # Wanted(u)'.name
  BY <1>1, <1>5 DEF OneNode, SameThread, Wanted
<1>6. ASSUME NEW u \in Threads, pc'[u] \in {"append"} \cup Unnamed
      PROVE  ~HasNode(Wanted(u).name)'
  <2>1. CASE u = t
    <3>1. Wanted(t)' = Wanted(t)
      BY <1>6, <2>1 DEF Wanted
    <3>2. ~HasNode(Wanted(t).name)
      BY <1>6, <2>1 DEF OneNode
    <3> QED
      BY <1>2, <2>1, <3>1, <3>2
  <2>2. CASE u # t
    <3>1. SameThread(u) /\ ~HasNode(Wanted(u).name)
      BY <1>1, <1>6, <2>2 DEF OneNode, SameThread
    <3> QED
      BY <1>2, <3>1 DEF SameThread, Wanted
  <2> QED
    BY <2>1, <2>2
<1> QED
  BY <1>3, <1>4, <1>5, <1>6 DEF OneNode

LEMMA SameNodesFiles ==
  ASSUME SameNodes \/ UNCHANGED nodes, expected' = expected
  PROVE  \A n : SameFile(n)
BY DEF SameNodes, SameFile

\* A thread that has found the node of its file has found the only one.
LEMMA TheNode ==
  ASSUME Safe, Tidy, OneNode, NEW t \in Threads, pc[t] \in Found
  PROVE  /\ Wanted(t) \in Entry /\ Wanted(t).name \in Names /\ Updating(t)
         /\ Here(t) \in Cell /\ Here(t).name = Wanted(t).name
         /\ cursor[t] \in 1..Len(nodes) /\ nodes[cursor[t]].name = Wanted(t).name
         /\ \A i \in 1..Len(nodes) : nodes[i].name = Wanted(t).name => i = cursor[t]
<1>1. pc[t] \in UpdateLabels /\ pc[t] \in NodeLabels
  BY DEF Found, UpdateLabels, NodeLabels
<1>2. Here(t) \in Cell /\ cursor[t] \in 1..Len(nodes)
  BY <1>1, HereLemma DEF Safe, ThreadOK
<1>3. Wanted(t) \in Entry
  BY <1>1, UpdateLemma
<1>4. Wanted(t).name \in Names /\ Wanted(t).name # NoName
  BY <1>3, NoneAssumption DEF Entry
<1>5. Here(t).name = Wanted(t).name
  BY DEF Tidy, Named, NamedAt
<1>6. \A i \in 1..Len(nodes) : nodes[i].name = Wanted(t).name => i = cursor[t]
  BY <1>2, <1>4, <1>5 DEF OneNode, Here
<1> QED
  BY <1>1, <1>2, <1>3, <1>4, <1>5, <1>6 DEF Updating, Here

\* A store into that node is no store into the node of another file, and leaves the
\* file with the version that the node then has.
LEMMA StoredVersions ==
  ASSUME Safe, Tidy, OneNode, NEW t \in Threads, pc[t] \in Found, NEW cell,
         Stored(t, cell), cell.name = Here(t).name, expected' = expected
  PROVE  /\ \A n : n # Wanted(t).name => SameFile(n)
         /\ \A w : /\ w = Wanted(t).name
                   /\ expected[w] # NoFile /\ SameVersion(cell, expected[w])
                   => Settled(w)'
         /\ \A i \in 1..Len(nodes) : nodes'[i].name = nodes[i].name
<1>1. /\ cursor[t] \in 1..Len(nodes) /\ nodes[cursor[t]].name = Wanted(t).name
      /\ cell.name = Wanted(t).name
      /\ \A i \in 1..Len(nodes) : nodes[i].name = Wanted(t).name => i = cursor[t]
  BY TheNode
<1>2. /\ Len(nodes') = Len(nodes)
      /\ \A i \in 1..Len(nodes) : nodes'[i] = IF i = cursor[t] THEN cell ELSE nodes[i]
  BY DEF Stored
<1>3. \A i \in 1..Len(nodes) : nodes'[i].name = nodes[i].name
  BY <1>1, <1>2
<1>4. \A n : n # Wanted(t).name => SameFile(n)
  BY <1>1, <1>2 DEF SameFile
<1>5. ASSUME NEW w, w = Wanted(t).name, expected[w] # NoFile, SameVersion(cell, expected[w])
      PROVE  Settled(w)'
  <2>1. HasNode(w)'
    BY <1>1, <1>2, <1>5 DEF HasNode
  <2>2. \A i \in 1..Len(nodes') : nodes'[i].name = w => nodes'[i] = cell
    BY <1>1, <1>2, <1>3, <1>5
  <2> QED
    BY <1>5, <2>1, <2>2 DEF Settled
<1> QED
  BY <1>3, <1>4, <1>5

-----------------------------------------------------------------------------
(* The versions, action by action.                                         *)

\* Comparing: the announced version is settled already, or is newer.
LEMMA CompareVersions ==
  ASSUME Safe, Tidy, Versions, OneNode, NEW t \in Threads, Compare(t)
  PROVE  Versions' /\ OneNode'
<1>1. /\ OthersSame(t) /\ pc[t] = "compare" /\ UNCHANGED <<nodes, expected>>
      /\ \/ /\ SameVersion(Here(t), Wanted(t)) /\ pc'[t] = "find"
            /\ job'[t] = job[t] /\ cursor'[t] = cursor[t]
         \/ /\ Newer(Wanted(t), Here(t)) /\ pc'[t] = "size"
            /\ job'[t] = job[t] /\ cursor'[t] = cursor[t]
         \/ Newer(Here(t), Wanted(t)) /\ Finished(t)
  BY CompareLemma
<1>2. pc'[t] \in {"find", "size", "idle", "next"}
  BY <1>1 DEF Finished
<1>3. OneNode'
  BY <1>1, <1>2, OneNodeSame DEF Unnamed
<1>4. \A n : SameFile(n)
  BY <1>1, SameNodesFiles
<1>5. PICK e : e = Wanted(t)
  OBVIOUS
<1>6. /\ e \in Entry /\ e.name \in Names /\ Updating(t)
      /\ Here(t) \in Cell /\ cursor[t] \in 1..Len(nodes) /\ nodes[cursor[t]].name = e.name
      /\ \A i \in 1..Len(nodes) : nodes[i].name = e.name => nodes[i] = Here(t)
  BY <1>1, <1>5, TheNode DEF Found, Here
<1>7. Awaits(e)
  <2>1. Len(job[t].list) \in Nat \ {0} /\ e = job[t].list[1]
    BY <1>5, <1>6, UpdateLemma DEF Updating
  <2> QED
    BY <1>1, <1>6, <2>1 DEF Versions, Before
<1>8. /\ e.timestamp \in Nat /\ e.size \in Nat
      /\ Here(t).timestamp \in Nat /\ Here(t).size \in Nat
  BY <1>6 DEF Entry, Cell
<1>9. /\ expected[e.name] # NoFile
      /\ SameVersion(IF Newer(e, Here(t)) THEN e ELSE Here(t), expected[e.name])
  BY <1>6, <1>7 DEF Awaits, Here
<1>10. ~Newer(e, Here(t)) => Settled(e.name)'
  <2> SUFFICES ASSUME ~Newer(e, Here(t)) PROVE Settled(e.name)
    BY <1>4, SettledSame
  <2>1. HasNode(e.name) /\ SameVersion(Here(t), expected[e.name])
    BY <1>6, <1>9 DEF HasNode
  <2> QED
    BY <1>6, <1>9, <2>1 DEF Settled
<1>11. SameVersion(Here(t), Wanted(t)) \/ Newer(Here(t), Wanted(t)) => ~Newer(e, Here(t))
  BY <1>5, <1>8 DEF SameVersion, Newer
<1>12. CASE pc'[t] = "find" /\ job'[t] = job[t] /\ SameVersion(Here(t), Wanted(t))
  <2>1. Updating(t)' /\ pc'[t] \notin Before /\ pc'[t] \notin Storing
    BY <1>12 DEF Updating, UpdateLabels, Before, Storing
  <2>2. Settled(e.name)'
    BY <1>10, <1>11, <1>12
  <2> QED
    BY <1>1, <1>3, <1>4, <1>5, <1>6, <1>12, <2>1, <2>2, SameEntry
<1>13. CASE pc'[t] = "size" /\ job'[t] = job[t] /\ Newer(Wanted(t), Here(t))
  <2>1. SameVersion(e, expected[e.name])
    BY <1>5, <1>9, <1>13
  <2>2. Updating(t)' /\ pc'[t] \notin Before /\ pc'[t] \notin After
    BY <1>13 DEF Updating, UpdateLabels, Before, After
  <2>3. expected'[e.name] # NoFile /\ SameVersion(e, expected'[e.name])
    BY <1>1, <1>9, <2>1
  <2> QED
    BY <1>1, <1>3, <1>4, <1>5, <1>6, <1>13, <2>2, <2>3, SameEntry
<1>14. CASE Finished(t) /\ Newer(Here(t), Wanted(t))
  <2>1. PICK w \in Names : w = e.name
    BY <1>6
  <2>2. Settled(w)' /\ w = Wanted(t).name
    BY <1>5, <1>10, <1>11, <1>14, <2>1
  <2> QED
    BY <1>1, <1>3, <1>4, <1>6, <1>14, <2>2, NextEntry
<1> QED
  BY <1>1, <1>3, <1>12, <1>13, <1>14

\* Addresses: the version has been settled before.
LEMMA HolderVersions ==
  ASSUME Safe, Tidy, Versions, OneNode, NEW t \in Threads,
         FindSlot(t) \/ EnlistIp(t) \/ StoreSoleHolder(t) \/ CleanList(t)
  PROVE  Versions' /\ OneNode'
<1>1. /\ OthersSame(t) /\ pc[t] \in {"find", "enlist", "sole", "clean"}
      /\ SameNodes \/ UNCHANGED nodes
      /\ expected' = expected
      /\ \/ Finished(t)
         \/ pc'[t] \in {"enlist", "clean"} /\ job'[t] = job[t] /\ cursor'[t] = cursor[t]
  BY FindSlotLemma, EnlistIpLemma, SoleHolderLemma, CleanListLemma
<1>2. pc'[t] \in {"enlist", "clean", "idle", "next"}
  BY <1>1 DEF Finished
<1>3. OneNode'
  BY <1>1, <1>2, OneNodeSame DEF SameNodes, Unnamed
<1>4. \A n : SameFile(n)
  BY <1>1, SameNodesFiles
<1>5. PICK e : e = Wanted(t)
  OBVIOUS
<1>6. e \in Entry /\ e.name \in Names /\ Updating(t)
  BY <1>1, <1>5, TheNode DEF Found
<1>7. Settled(e.name)'
  <2>1. Settled(e.name)
    BY <1>1, <1>5 DEF Versions, After
  <2> QED
    BY <1>4, <2>1, SettledSame
<1>8. CASE Finished(t)
  BY <1>1, <1>3, <1>4, <1>5, <1>6, <1>7, <1>8, NextEntry
<1>9. CASE pc'[t] \in {"enlist", "clean"} /\ job'[t] = job[t]
  BY <1>1, <1>3, <1>4, <1>5, <1>6, <1>7, <1>9, SameEntry
  DEF Updating, UpdateLabels, Before, Storing
<1> QED
  BY <1>1, <1>3, <1>8, <1>9

\* The stores of a version: the file has it after the last of them.
LEMMA StoreVersions ==
  ASSUME Safe, Tidy, Versions, OneNode, NEW t \in Threads,
         StoreSize(t) \/ StoreTimestamp(t) \/ FillNode(t)
  PROVE  Versions' /\ OneNode'
<1>1. PICK cell :
        /\ OthersSame(t) /\ Stored(t, cell) /\ expected' = expected
        /\ job'[t] = job[t] /\ cursor'[t] = cursor[t]
        /\ cell.name = Here(t).name
        /\ \/ /\ pc[t] = "size" /\ pc'[t] = "timestamp" /\ cell.size = Wanted(t).size
           \/ /\ pc[t] = "timestamp" /\ pc'[t] = "sole"
              /\ cell.size = Here(t).size /\ cell.timestamp = Wanted(t).timestamp
           \/ /\ pc[t] = "fill" /\ pc'[t] = "cut"
              /\ cell.size = Wanted(t).size /\ cell.timestamp = Wanted(t).timestamp
  <2>1. CASE StoreSize(t)
    <3>1. PICK cell : cell = [Here(t) EXCEPT !.size = Wanted(t).size]
      OBVIOUS
    <3>2. /\ OthersSame(t) /\ Stored(t, cell) /\ expected' = expected
          /\ job'[t] = job[t] /\ cursor'[t] = cursor[t]
          /\ pc[t] = "size" /\ pc'[t] = "timestamp"
      BY <2>1, <3>1, StoreSizeLemma
    <3>3. Here(t) \in Cell
      BY <3>2, HereLemma DEF Safe, ThreadOK, NodeLabels, UpdateLabels
    <3>4. cell.size = Wanted(t).size /\ cell.name = Here(t).name
      BY <3>1, <3>3 DEF Cell
    <3> QED
      BY <3>2, <3>4
  <2>2. CASE StoreTimestamp(t)
    <3>1. PICK cell : cell = [Here(t) EXCEPT !.timestamp = Wanted(t).timestamp]
      OBVIOUS
    <3>2. /\ OthersSame(t) /\ Stored(t, cell) /\ expected' = expected
          /\ job'[t] = job[t] /\ cursor'[t] = cursor[t]
          /\ pc[t] = "timestamp" /\ pc'[t] = "sole"
      BY <2>2, <3>1, StoreTimestampLemma
    <3>3. Here(t) \in Cell
      BY <3>2, HereLemma DEF Safe, ThreadOK, NodeLabels, UpdateLabels
    <3>4. /\ cell.size = Here(t).size /\ cell.timestamp = Wanted(t).timestamp
          /\ cell.name = Here(t).name
      BY <3>1, <3>3 DEF Cell
    <3> QED
      BY <3>2, <3>4
  <2>3. CASE FillNode(t)
    BY <2>3, FillNodeLemma
  <2> QED
    BY <2>1, <2>2, <2>3
<1>2. pc[t] \in Found /\ pc'[t] \in {"timestamp", "sole", "cut"}
  BY <1>1 DEF Found
<1>3. /\ \A n : n # Wanted(t).name => SameFile(n)
      /\ \A w : /\ w = Wanted(t).name
                /\ expected[w] # NoFile /\ SameVersion(cell, expected[w])
                => Settled(w)'
      /\ \A i \in 1..Len(nodes) : nodes'[i].name = nodes[i].name
  BY <1>1, <1>2, StoredVersions
<1>4. OneNode'
  BY <1>1, <1>2, <1>3, OneNodeSame DEF Stored, Found, Unnamed
<1>5. PICK e : e = Wanted(t)
  OBVIOUS
<1>6. /\ e \in Entry /\ e.name \in Names /\ Updating(t) /\ Updating(t)'
      /\ cursor[t] \in 1..Len(nodes) /\ pc'[t] \notin Before
  BY <1>2, <1>5, TheNode DEF Updating, UpdateLabels, Before
<1>7. expected[e.name] # NoFile
      /\ (pc[t] # "timestamp" => SameVersion(e, expected[e.name]))
      /\ (pc[t] = "timestamp" => SameVersion(e, expected[e.name]) /\ Here(t).size = e.size)
  BY <1>1, <1>5 DEF Versions, Storing
<1>8. expected'[e.name] # NoFile /\ SameVersion(e, expected'[e.name])
  BY <1>1, <1>7
<1>9. pc'[t] # "timestamp" => SameVersion(cell, expected[e.name])
  BY <1>1, <1>5, <1>7 DEF SameVersion
<1>10. pc'[t] \in After => Settled(e.name)'
  <2>1. PICK w : w = e.name
    OBVIOUS
  <2>2. pc'[t] # "timestamp" => Settled(w)'
    BY <1>3, <1>5, <1>7, <1>9, <2>1
  <2> QED
    BY <2>1, <2>2 DEF After
<1>11. pc'[t] = "timestamp" => nodes'[cursor'[t]].size = e.size
  BY <1>1, <1>5, <1>6 DEF Stored
<1>12. Versions'
  BY <1>1, <1>3, <1>5, <1>6, <1>8, <1>10, <1>11, SameEntry
<1> QED
  BY <1>4, <1>12

LEMMA CutTailVersions ==
  ASSUME Safe, Tidy, Versions, OneNode, NEW t \in Threads, CutTail(t)
  PROVE  Versions' /\ OneNode'
<1>1. PICK cell : cell = [Here(t) EXCEPT !.next = NULL]
  OBVIOUS
<1>2. /\ OthersSame(t) /\ pc[t] = "cut" /\ Finished(t) /\ Stored(t, cell)
      /\ expected' = expected
  BY <1>1, CutTailLemma
<1>3. PICK e : e = Wanted(t)
  OBVIOUS
<1>4. /\ e \in Entry /\ e.name \in Names /\ Updating(t) /\ Here(t) \in Cell
      /\ cursor[t] \in 1..Len(nodes) /\ nodes[cursor[t]].name = e.name
  BY <1>2, <1>3, TheNode DEF Found
<1>5. cell.name = Here(t).name /\ cell.timestamp = Here(t).timestamp /\ cell.size = Here(t).size
  BY <1>1, <1>4 DEF Cell
<1>6. /\ \A n : n # e.name => SameFile(n)
      /\ \A w : w = e.name /\ expected[w] # NoFile /\ SameVersion(cell, expected[w])
                => Settled(w)'
      /\ \A i \in 1..Len(nodes) : nodes'[i].name = nodes[i].name
  BY <1>2, <1>3, <1>5, StoredVersions DEF Found
<1>7. pc'[t] \in {"idle", "next"}
  BY <1>2 DEF Finished
<1>8. OneNode'
  BY <1>2, <1>6, <1>7, OneNodeSame DEF Stored, Unnamed
<1>9. PICK w \in Names : w = e.name
  BY <1>4
<1>10. Settled(w)'
  <2>1. Settled(e.name)
    BY <1>2, <1>3 DEF Versions, After
  <2>2. expected[w] # NoFile /\ SameVersion(cell, expected[w])
    BY <1>4, <1>5, <1>9, <2>1 DEF Settled, HasNode, Here, SameVersion
  <2> QED
    BY <1>6, <1>9, <2>2
<1>11. Versions'
  BY <1>2, <1>3, <1>4, <1>6, <1>9, <1>10, NextEntry
<1> QED
  BY <1>8, <1>11

\* A new node is no file's until it has its name, and then it is the only one of its file.
LEMMA AppendVersions ==
  ASSUME Safe, Tidy, Versions, OneNode, NEW t \in Threads, AppendNode(t)
  PROVE  Versions' /\ OneNode'
<1> DEFINE new == Len(nodes) + 1
<1>1. /\ OthersSame(t) /\ pc[t] = "append" /\ pc'[t] \in {"sethead", "reread"}
      /\ job'[t] = job[t] /\ expected' = expected
      /\ Len(nodes') = new /\ nodes'[new].name = NoName
      /\ \A i \in 1..Len(nodes) :
           /\ nodes'[i].name = nodes[i].name
           /\ nodes'[i].timestamp = nodes[i].timestamp /\ nodes'[i].size = nodes[i].size
  BY AppendNodeLemma DEF Fresh
<1>2. Len(nodes) \in Nat /\ \A i \in 1..new : i # new => i \in 1..Len(nodes)
  BY TypesLemma
<1>3. new \in 1..new /\ new \notin 1..Len(nodes) /\ \A i \in 1..Len(nodes) : i \in 1..new
  BY <1>2
<1> HIDE DEF new
<1>4. ASSUME NEW n, n # NoName PROVE SameFile(n)
  BY <1>1, <1>2, <1>3, <1>4 DEF SameFile
<1>5. \A n \in Names : SameFile(n) /\ (HasNode(n)' <=> HasNode(n))
  <2>1. \A n \in Names : SameFile(n)
    BY <1>4, NoneAssumption
  <2> QED
    BY <2>1 DEF SameFile, HasNode
<1>6. PICK e : e = Wanted(t)
  OBVIOUS
<1>7. /\ e \in Entry /\ e.name \in Names /\ Updating(t) /\ Updating(t)'
      /\ pc'[t] \notin Before /\ pc'[t] \notin After
      /\ e = job[t].list[1] /\ Len(job[t].list) \in Nat \ {0}
  BY <1>1, <1>6, UpdateLemma DEF Updating, UpdateLabels, Before, After, Entry
<1>8. ~HasNode(e.name)
  BY <1>1, <1>6 DEF OneNode
<1>9. expected'[e.name] # NoFile /\ SameVersion(e, expected'[e.name])
  <2>1. Awaits(e)
    BY <1>1, <1>7 DEF Versions, Before
  <2> QED
    BY <1>1, <1>8, <2>1 DEF Awaits
<1>10. Versions'
  BY <1>1, <1>5, <1>6, <1>7, <1>9, SameEntry
<1>11. \A u \in Threads : u # t => SameThread(u) /\ ~Updating(u)
  BY <1>1, <1>7 DEF OthersSame, Versions
<1>12. OneNode'
  <2>1. \A i, j \in 1..Len(nodes') :
          nodes'[i].name = nodes'[j].name /\ nodes'[i].name # NoName => i = j
    BY <1>1, <1>2 DEF OneNode
  <2>2. \A i \in 1..Len(nodes) : nodes[i].name # NoName
    <3>1. \A u \in Threads : pc[u] \notin Unnamed
      BY <1>1, <1>11 DEF Unnamed, Updating, UpdateLabels
    <3> QED
      BY <3>1 DEF OneNode
  <2>3. \A i \in 1..Len(nodes') : nodes'[i].name = NoName =>
          i = Len(nodes') /\ \E u \in Threads : pc'[u] \in Unnamed
    BY <1>1, <1>2, <2>2 DEF Unnamed
  <2>4. \A u \in Threads : pc'[u] \in {"scan", "advance", "append"} \cup Unnamed =>
          u = t /\ pc'[u] \in {"sethead", "reread"}
    BY <1>1, <1>11 DEF SameThread, Updating, UpdateLabels, Unnamed
  <2>5. ~HasNode(e.name)' /\ Wanted(t)' = e
    BY <1>1, <1>5, <1>6, <1>7, <1>8 DEF Wanted
  <2> QED
    BY <2>1, <2>3, <2>4, <2>5 DEF OneNode
<1> QED
  BY <1>10, <1>12

\* Getting to the new node changes no node.
LEMMA LinkVersions ==
  ASSUME Safe, Tidy, Versions, OneNode, NEW t \in Threads, SetHead(t) \/ Reread(t)
  PROVE  Versions' /\ OneNode'
<1>1. /\ OthersSame(t) /\ pc[t] \in {"sethead", "reread"} /\ pc'[t] = "name"
      /\ job'[t] = job[t] /\ nodes' = nodes /\ expected' = expected
  BY SetHeadLemma, RereadLemma, RereadNames
<1>2. PICK e : e = Wanted(t)
  OBVIOUS
<1>3. /\ e \in Entry /\ Updating(t) /\ Updating(t)'
      /\ pc'[t] \notin Before /\ pc'[t] \notin After /\ pc[t] \in Storing
  BY <1>1, <1>2, UpdateLemma DEF Updating, UpdateLabels, Before, After, Storing
<1>4. expected'[e.name] # NoFile /\ SameVersion(e, expected'[e.name])
  BY <1>1, <1>2, <1>3 DEF Versions
<1>5. \A n : SameFile(n)
  BY <1>1, SameNodesFiles
<1>6. Versions'
  BY <1>1, <1>2, <1>3, <1>4, <1>5, SameEntry
<1>7. OneNode'
  BY <1>1, OneNodeSame DEF Unnamed
<1> QED
  BY <1>6, <1>7

LEMMA NameVersions ==
  ASSUME Safe, Tidy, Versions, OneNode, NEW t \in Threads, StoreName(t)
  PROVE  Versions' /\ OneNode'
<1>1. /\ OthersSame(t) /\ pc[t] = "name" /\ pc'[t] = "fill"
      /\ job'[t] = job[t] /\ cursor'[t] = cursor[t] /\ expected' = expected
      /\ Len(nodes') = Len(nodes)
  BY StoreNameLemma DEF Stored
<1>2. PICK e : e = Wanted(t)
  OBVIOUS
<1>3. /\ Here(t).name = NoName /\ e.name \in Names /\ cursor[t] = Len(nodes)
      /\ \A i \in 1..Len(nodes) :
           /\ nodes'[i].name = IF i = cursor[t] THEN e.name ELSE nodes[i].name
           /\ nodes'[i].timestamp = nodes[i].timestamp /\ nodes'[i].size = nodes[i].size
  BY <1>2, StoreNameNames
<1>4. /\ e \in Entry /\ Updating(t) /\ Updating(t)'
      /\ pc'[t] \notin Before /\ pc'[t] \notin After
  BY <1>1, <1>2, UpdateLemma DEF Updating, UpdateLabels, Before, After
<1>5. ~HasNode(e.name) /\ \A i \in 1..Len(nodes) : nodes[i].name = NoName => i = cursor[t]
  BY <1>1, <1>2, <1>3 DEF OneNode, Unnamed
<1>6. ASSUME NEW n \in Names, n # e.name PROVE SameFile(n)
  <2>1. n # NoName
    BY NoneAssumption
  <2>2. nodes[cursor[t]].name # n
    BY <1>3, <2>1 DEF Here
  <2> QED
    BY <1>1, <1>3, <1>6, <2>2 DEF SameFile
<1>7. expected'[e.name] # NoFile /\ SameVersion(e, expected'[e.name])
  BY <1>1, <1>2 DEF Versions, Storing
<1>8. Versions'
  BY <1>1, <1>2, <1>4, <1>6, <1>7, SameEntry
<1>9. OneNode'
  <2>1. \A i, j \in 1..Len(nodes') :
          nodes'[i].name = nodes'[j].name /\ nodes'[i].name # NoName => i = j
    BY <1>1, <1>3, <1>5 DEF OneNode, HasNode
  <2>2. \A i \in 1..Len(nodes') : nodes'[i].name # NoName
    BY <1>1, <1>3, <1>5, NoneAssumption
  <2>3. \A u \in Threads : pc'[u] \notin {"scan", "advance", "append"} \cup Unnamed
    BY <1>1, <1>4 DEF OthersSame, SameThread, Versions, Updating, UpdateLabels, Unnamed
  <2> QED
    BY <2>1, <2>2, <2>3 DEF OneNode
<1> QED
  BY <1>8, <1>9

\* The scan finds the node of the file, or has seen that there is none: the list is all
\* the nodes in order, and nobody else appends one.
LEMMA ScanVersions ==
  ASSUME Safe, Tidy, Versions, OneNode, "appends" \notin races,
         NEW t \in Threads, NextNode(t) \/ Scan(t) \/ Advance(t)
  PROVE  "appends" \notin races' /\ Versions' /\ OneNode'
<1>1. /\ OthersSame(t) /\ pc[t] \in {"next", "scan", "advance"} /\ job'[t] = job[t]
      /\ UNCHANGED <<nodes, head, expected>>
      /\ pc'[t] \in {"scan", "advance", "append", "compare"}
  BY NextNodeLemma, ScanLemma, AdvanceLemma
<1>2. InOrder /\ Len(nodes) \in Nat /\ Updating(t) /\ Updating(t)'
  BY <1>1, TypesLemma DEF Tidy, Updating, UpdateLabels
<1>12. \A u \in Threads : pc[u] \notin Appending
  <2>1. \A u \in Threads : pc[u] \in Appending => Updating(u)
    BY DEF Appending, Updating, UpdateLabels
  <2> QED
    BY <1>1, <1>2, <2>1 DEF Versions, Appending
<1>3. "appends" \notin races'
  <2>1. races' = races \/ races' = races \cup Appends
    BY DEF NextNode, Scan, Advance
  <2>2. Appends = {}
    BY <1>12 DEF Appends
  <2> QED
    BY <2>1, <2>2
<1>4. /\ pc'[t] = "scan" =>
           \A i \in 1..Len(nodes) : i < cursor'[t] => nodes[i].name # Wanted(t).name
      /\ pc'[t] = "advance" =>
           \A i \in 1..Len(nodes) : i <= cursor'[t] => nodes[i].name # Wanted(t).name
      /\ pc'[t] = "append" => ~HasNode(Wanted(t).name)
  <2>1. CASE NextNode(t)
    <3>1. cursor'[t] = head /\ pc'[t] = IF head = NULL THEN "append" ELSE "scan"
      BY <2>1, NextNodeLemma
    <3>2. head = NULL => \A i \in 1..Len(nodes) : FALSE
      <4>1. \A u \in Threads : pc[u] # "sethead"
        BY <1>12 DEF Appending
      <4> QED
        BY <1>2, <4>1, EmptySeq DEF InOrder, NULL
    <3>3. head # NULL => head = 1
      BY <1>2 DEF InOrder
    <3> QED
      BY <1>2, <3>1, <3>2, <3>3 DEF HasNode
  <2>2. CASE Scan(t)
    <3>1. /\ pc[t] = "scan" /\ cursor'[t] = cursor[t] /\ pc'[t] # "scan"
          /\ pc'[t] # "compare" => Here(t).name # Wanted(t).name
          /\ pc'[t] = "append" => Here(t).next = NULL
      BY <2>2, ScanLemma
    <3>2. cursor[t] \in 1..Len(nodes)
      BY <3>1, HereLemma DEF Safe, ThreadOK, NodeLabels, UpdateLabels
    <3>3. Here(t).next = IF cursor[t] = Len(nodes) THEN NULL ELSE cursor[t] + 1
      BY <1>2, <3>2 DEF InOrder, Here
    <3>4. pc'[t] # "compare" =>
            \A i \in 1..Len(nodes) : i <= cursor[t] => nodes[i].name # Wanted(t).name
      <4>1. \A i \in 1..Len(nodes) : i < cursor[t] => nodes[i].name # Wanted(t).name
        BY <3>1 DEF OneNode
      <4>2. \A i \in 1..Len(nodes) : i <= cursor[t] => i < cursor[t] \/ i = cursor[t]
        BY <3>2
      <4> QED
        BY <3>1, <4>1, <4>2 DEF Here
    <3>5. pc'[t] = "append" => cursor[t] = Len(nodes)
      BY <1>2, <3>1, <3>2, <3>3 DEF NULL
    <3>6. pc'[t] = "append" => \A i \in 1..Len(nodes) : i <= cursor[t]
      BY <1>2, <3>5
    <3> QED
      BY <3>1, <3>4, <3>6 DEF HasNode
  <2>3. CASE Advance(t)
    <3>1. /\ cursor[t] \in 1..Len(nodes) /\ cursor'[t] = cursor[t] + 1 /\ pc'[t] = "scan"
      BY <1>2, <2>3, AdvanceInOrder
    <3>2. \A i \in 1..Len(nodes) : i <= cursor[t] => nodes[i].name # Wanted(t).name
      BY <2>3 DEF OneNode, Advance, At
    <3>3. \A i \in 1..Len(nodes) : i < cursor'[t] => i <= cursor[t]
      BY <1>2, <3>1
    <3> QED
      BY <3>1, <3>2, <3>3
  <2> QED
    BY <2>1, <2>2, <2>3
<1>5. OneNode'
  BY <1>1, <1>4, OneNodeSame DEF Unnamed
<1>6. PICK e : e = Wanted(t)
  OBVIOUS
<1>7. /\ e \in Entry /\ e = job[t].list[1] /\ Len(job[t].list) \in Nat \ {0}
  BY <1>2, <1>6, UpdateLemma DEF Updating
<1>8. \A n : SameFile(n)
  BY <1>1, SameNodesFiles
<1>9. Awaits(e)'
  <2>1. Awaits(e)
    BY <1>1, <1>2, <1>7 DEF Versions, Before
  <2> QED
    BY <1>8, <2>1, AwaitsSame
<1>10. pc'[t] \notin After /\ pc'[t] \notin Storing
  BY <1>1 DEF After, Storing
<1>11. Versions'
  BY <1>1, <1>2, <1>6, <1>7, <1>8, <1>9, <1>10, SameEntry
<1> QED
  BY <1>3, <1>5, <1>11

\* A peer that leaves takes no version with it.
LEMMA DeleteVersions ==
  ASSUME Safe, Tidy, Versions, OneNode, NEW t \in Threads,
         \/ FindPeer(t) \/ MoveLast(t) \/ ClearLast(t) \/ \E ip \in Ips : StartDelete(t, ip)
  PROVE  Versions' /\ OneNode'
<1>1. /\ OthersSame(t)
      /\ SameNodes \/ UNCHANGED nodes
      /\ pc[t] \in {"idle", "forget", "move", "clear"}
      /\ pc'[t] \in {"idle", "forget", "move", "clear"}
  BY FindPeerLemma, MoveLastLemma, ClearLastLemma, StartDeleteLemma
<1>2. ~Updating(t) /\ ~Updating(t)'
  BY <1>1 DEF Updating, UpdateLabels
<1>3. OneNode'
  BY <1>1, OneNodeSame DEF SameNodes, Unnamed
<1>4. \A n \in Names : SameFile(n)
  <2>1. CASE FindPeer(t) \/ MoveLast(t) \/ ClearLast(t)
    <3>1. expected' = expected
      BY <2>1, FindPeerLemma, MoveLastLemma, ClearLastLemma
    <3> QED
      BY <1>1, <3>1, SameNodesFiles
  <2>2. ASSUME NEW ip \in Ips, StartDelete(t, ip), NEW n \in Names PROVE SameFile(n)
    <3>1. expected \in TrackerTable
      BY DEF Safe, TypeOK
    <3>2. expected' = ForgetPeer(expected, ip)
      BY <2>2 DEF StartDelete
    <3>3. /\ expected'[n] = NoFile <=> expected[n] = NoFile
          /\ expected[n] # NoFile => /\ expected'[n].timestamp = expected[n].timestamp
                                     /\ expected'[n].size = expected[n].size
      BY <3>1, <3>2, ForgetPeerTypes
    <3>4. UNCHANGED nodes
      BY <2>2, StartDeleteLemma
    <3> QED
      BY <3>3, <3>4 DEF SameFile
  <2> QED
    BY <2>1, <2>2
<1>5. \A u \in Threads : pc[u] = "timestamp" => nodes'[cursor[u]].size = nodes[cursor[u]].size
  <2>1. \A u \in Threads : pc[u] = "timestamp" => cursor[u] \in 1..Len(nodes)
    BY HereLemma DEF Safe, ThreadOK, NodeLabels, UpdateLabels
  <2> QED
    BY <1>1, <2>1 DEF SameNodes
<1>6. Versions'
  BY <1>1, <1>2, <1>4, <1>5, NoEntry
<1> QED
  BY <1>3, <1>6

\* A call of update_filetable that finds no other in progress finds every version
\* settled, and so its own entries bring the nodes to what they should be.
LEMMA StartVersions ==
  ASSUME Safe, Tidy, Versions, OneNode, "appends" \notin races,
         NEW t \in Threads, NEW ip \in Ips, NEW list \in Announced, StartUpdate(t, ip, list),
         "updates" \notin races'
  PROVE  "appends" \notin races' /\ Versions' /\ OneNode'
<1>1. /\ OthersSame(t) /\ pc[t] = "idle" /\ pc'[t] = "next" /\ job'[t].list = list
      /\ UNCHANGED nodes
  BY StartUpdateLemma
<1>2. expected' = MergeTable(expected, AsTable(list), ip)
      /\ races' = races \cup Overlaps(t, "update")
  BY DEF StartUpdate
<1>3. "appends" \notin races'
  BY <1>2 DEF Overlaps
<1>4. ASSUME NEW u \in Threads, Updating(u) PROVE FALSE
  <2>1. u # t /\ job[u] # None /\ job[u].call = "update"
    BY <1>1, <1>4, UpdateLemma DEF Updating, UpdateLabels, Safe, ThreadOK
  <2> QED
    BY <1>2, <2>1 DEF Overlaps
<1>5. \A n \in Names : Settled(n)
  BY <1>4 DEF Versions, Updating, Pending
<1>6. /\ list \in Seq(Entry) /\ Len(list) \in Nat \ {0} /\ AsTable(list) \in PeerTable
      /\ expected \in TrackerTable
  BY AsTableLemma DEF Safe, TypeOK
<1>7. OneNode'
  <2>1. pc'[t] \notin {"scan", "advance", "append"} \cup Unnamed /\ pc[t] \notin Unnamed
    BY <1>1 DEF Unnamed
  <2> QED
    BY <1>1, <2>1, OneNodeSame
<1>8. ASSUME NEW n \in Names, AsTable(list)[n] = NoFile PROVE Settled(n)'
  <2>1. expected'[n] = expected[n]
    BY <1>2, <1>8 DEF MergeTable
  <2>2. SameFile(n)
    BY <1>1, <2>1 DEF SameFile
  <2> QED
    BY <1>5, <2>2, SettledSame
<1>9. ASSUME NEW k \in 1..Len(list), NEW e, e = list[k] PROVE Awaits(e)'
  <2>1. e \in Entry /\ e.name \in Names
    BY <1>6, <1>9, AsTableLemma DEF Entry
  <2>2. PICK node : node = AsTable(list)[e.name]
    OBVIOUS
  <2>3. node \in PeerNode /\ SameVersion(node, e)
    BY <1>6, <1>9, <2>1, <2>2, AsTableLemma DEF PeerTable
  <2>4. PICK mine : mine = expected[e.name]
    OBVIOUS
  <2>5. mine \in TrackerNode \cup {NoFile} /\ node # NoFile
    BY <1>6, <2>1, <2>3, <2>4, NoFileAssumption DEF TrackerTable
  <2>6. expected'[e.name] = MergeNode(mine, node, ip)
    BY <1>2, <2>1, <2>2, <2>4, <2>5 DEF MergeTable
  <2>7. /\ e.timestamp \in Nat /\ e.size \in Nat
        /\ e.timestamp = node.timestamp /\ e.size = node.size
    BY <2>1, <2>3 DEF Entry, SameVersion
  <2>8. /\ FreshNode(node, ip) # NoFile
        /\ FreshNode(node, ip).timestamp = node.timestamp
        /\ FreshNode(node, ip).size = node.size
    <3>1. FreshNode(node, ip) \in TrackerNode
      BY <2>3 DEF PeerNode, TrackerNode, FreshNode
    <3> QED
      BY <3>1, NoFileAssumption DEF FreshNode
  <2>9. CASE mine = NoFile
    <3>1. ~HasNode(e.name)
      BY <1>5, <2>1, <2>4, <2>9 DEF Settled
    <3>2. expected'[e.name] = FreshNode(node, ip)
      BY <2>6, <2>9 DEF MergeNode
    <3>3. expected'[e.name] # NoFile /\ SameVersion(e, expected'[e.name])
      BY <2>7, <2>8, <3>2 DEF SameVersion
    <3> QED
      BY <1>1, <3>1, <3>3 DEF Awaits, HasNode
  <2>10. CASE mine # NoFile
    <3>1. /\ HasNode(e.name)
          /\ \A i \in 1..Len(nodes) : nodes[i].name = e.name => SameVersion(nodes[i], mine)
      BY <1>5, <2>1, <2>4, <2>10 DEF Settled
    <3>2. mine \in TrackerNode /\ mine.timestamp \in Nat /\ mine.size \in Nat
      BY <2>5, <2>10 DEF TrackerNode
    <3>3. expected'[e.name] # NoFile
      BY <1>2, <1>6, <2>1, <2>4, <2>10, MergeTableTypes
    <3>4. Newer(e, mine) => SameVersion(e, expected'[e.name])
      BY <2>6, <2>7, <2>8 DEF MergeNode, Newer, SameVersion
    <3>5. ~Newer(e, mine) => SameVersion(mine, expected'[e.name])
      BY <2>6, <2>7, <2>10, <3>2 DEF MergeNode, Newer, SameVersion, TrackerNode
    <3>6. \A i \in 1..Len(nodes) : nodes[i].name = e.name =>
            SameVersion(IF Newer(e, nodes[i]) THEN e ELSE nodes[i], expected'[e.name])
      BY <3>1, <3>4, <3>5 DEF SameVersion, Newer
    <3> QED
      BY <1>1, <3>1, <3>3, <3>6 DEF Awaits, HasNode
  <2> QED
    BY <2>9, <2>10
<1>10. \A u \in Threads : u # t => SameThread(u) /\ ~Updating(u) /\ ~Updating(u)'
  BY <1>1, <1>4 DEF OthersSame, SameThread, Updating
<1>11. ASSUME NEW n \in Names, \A u \in Threads : ~Pending(u, n)' PROVE Settled(n)'
  <2>1. ~\E i \in 1..Len(list) : list[i].name = n
    BY <1>1, <1>11 DEF Pending, UpdateLabels
  <2> QED
    BY <1>8, <2>1, AsTableLemma
<1>12. \A k \in 1..Len(list) : Awaits(list[k])'
  <2> TAKE k \in 1..Len(list)
  <2>1. PICK e : e = list[k]
    OBVIOUS
  <2>2. Awaits(e)'
    BY <1>9, <2>1
  <2> QED
    BY <2>1, <2>2
<1>13. Versions'
  <2>1. \A u \in Threads : Updating(u)' => u = t
    BY <1>10
  <2>2. \A u \in Threads : pc'[u] \notin After \cup Storing \cup {"timestamp"}
    BY <1>1, <1>10 DEF Updating, UpdateLabels, After, Storing
  <2>3. \A k \in 1..Len(job'[t].list) : Awaits(job[t].list[k])'
    BY <1>1, <1>12
  <2> QED
    BY <1>11, <2>1, <2>2, <2>3 DEF Versions
<1> QED
  BY <1>3, <1>7, <1>13

\* In every reachable state in which no two calls of update_filetable have overlapped,
\* each file has one node, with the version that the calls so far should have made, or
\* one that the call in progress will bring it to.
THEOREM VersionsInvariance == Spec => []VersionsInv
<1>1. Init => VersionsInv
  <2> SUFFICES ASSUME Init PROVE Versions /\ OneNode /\ "appends" \notin races
    BY DEF VersionsInv
  <2>1. \A i \in 1..Len(nodes) : FALSE
    BY EmptySeq DEF Init
  <2>2. \A t \in Threads : pc[t] = "idle"
    BY DEF Init
  <2>3. Versions
    <3>1. \A n \in Names : Settled(n)
      BY <2>1 DEF Init, Settled, HasNode
    <3> QED
      BY <2>2, <3>1 DEF Versions, Updating, UpdateLabels, After, Storing
  <2>4. OneNode
    BY <2>1, <2>2 DEF OneNode, Unnamed
  <2> QED
    BY <2>3, <2>4 DEF Init
<1>2. Safe /\ NamesInv /\ VersionsInv /\ [Next]_vars => VersionsInv'
  <2> SUFFICES ASSUME Safe, NamesInv, VersionsInv, [Next]_vars, "updates" \notin races'
               PROVE  "appends" \notin races' /\ Versions' /\ OneNode'
    BY DEF VersionsInv
  <2>1. CASE UNCHANGED vars
    <3>1. Versions' <=> Versions
      BY <2>1 DEF vars, shared, local, frame, history, Versions, Updating, Pending, Settled,
                  Awaits, HasNode, Wanted, Here
    <3>2. OneNode' <=> OneNode
      BY <2>1 DEF vars, shared, local, frame, history, OneNode, HasNode, Wanted
    <3> QED
      BY <2>1, <3>1, <3>2 DEF vars, history, VersionsInv
  <2>2. CASE Next
    <3>1. races \subseteq races'
      BY <2>2, RacesGrow
    <3>2. "appends" \notin races /\ Tidy /\ Versions /\ OneNode
      BY <3>1 DEF VersionsInv, NamesInv
    <3>3. ASSUME NEW t \in Threads, Step(t)
          PROVE  "appends" \notin races' /\ Versions' /\ OneNode'
      <4>1. CASE NextNode(t) \/ Scan(t) \/ Advance(t)
        BY <3>2, <4>1, ScanVersions
      <4>2. CASE ~(NextNode(t) \/ Scan(t) \/ Advance(t))
        <5>1. races' = races
          BY <3>3, <4>2 DEF Step, Compare, FindSlot, EnlistIp, StoreSize,
             StoreTimestamp, StoreSoleHolder, CleanList, AppendNode, SetHead, Reread, StoreName,
             FillNode, CutTail, FindPeer, MoveLast, ClearLast, Store, LastStore, history
        <5>2. Versions' /\ OneNode'
          BY <3>2, <3>3, <4>2, CompareVersions, HolderVersions, StoreVersions, CutTailVersions,
             AppendVersions, LinkVersions, NameVersions, DeleteVersions DEF Step
        <5> QED
          BY <3>2, <5>1, <5>2
      <4> QED
        BY <4>1, <4>2
    <3>4. ASSUME NEW t \in Threads, NEW ip \in Ips, StartDelete(t, ip)
          PROVE  "appends" \notin races' /\ Versions' /\ OneNode'
      <4>1. "appends" \notin races'
        BY <3>2, <3>4 DEF StartDelete, Overlaps
      <4> QED
        BY <3>2, <3>4, <4>1, DeleteVersions
    <3>5. ASSUME NEW t \in Threads, NEW ip \in Ips, NEW list \in Announced,
                 StartUpdate(t, ip, list)
          PROVE  "appends" \notin races' /\ Versions' /\ OneNode'
      BY <3>2, <3>5, StartVersions
    <3> QED
      BY <2>2, <3>3, <3>4, <3>5 DEF Next, Start
  <2> QED
    BY <2>1, <2>2
<1> QED
  BY <1>1, <1>2, Safety, NamesInvariance, PTL DEF Spec

\* Peers that leave in the middle of an update never cost a file or its version: if no
\* two calls of update_filetable have overlapped, and however calls of delete_peer
\* overlapped with them and with each other, the table has, once all are over, the
\* files and the versions of FileTable's.
THEOREM DeletesNeverCostVersions == Spec => []VersionsSafeFromDeletes
<1>1. Safe /\ NamesInv /\ VersionsInv => VersionsSafeFromDeletes
  <2> SUFFICES ASSUME Safe, NamesInv, VersionsInv, AllIdle, "updates" \notin races,
                      NEW n \in Names
               PROVE  \/ Table[n] = NoFile /\ expected[n] = NoFile
                      \/ /\ Table[n] # NoFile /\ expected[n] # NoFile
                         /\ SameVersion(Table[n], expected[n])
    BY DEF VersionsSafeFromDeletes
  <2>1. Settled(n)
    <3>1. \A t \in Threads : ~Pending(t, n)
      BY DEF AllIdle, Safe, ThreadOK, Pending, UpdateLabels
    <3> QED
      BY <3>1 DEF VersionsInv, Versions
  <2>2. Chain = 1..Len(nodes)
    <3>1. InOrder /\ \A t \in Threads : pc[t] # "sethead"
      BY DEF VersionsInv, NamesInv, Tidy, AllIdle, Safe, ThreadOK
    <3> QED
      BY <3>1, ChainLemma
  <2>3. InList(n) <=> HasNode(n)
    BY <2>2 DEF InList, HasNode
  <2>4. CASE ~HasNode(n)
    BY <2>1, <2>3, <2>4 DEF Settled, Table
  <2>5. CASE HasNode(n)
    <3>1. PICK cell : cell = nodes[CHOOSE i \in Chain : nodes[i].name = n]
      OBVIOUS
    <3>2. /\ cell \in Cell /\ cell.name = n /\ expected[n] # NoFile
          /\ SameVersion(cell, expected[n])
      <4>1. PICK i \in 1..Len(nodes) : cell = nodes[i] /\ nodes[i].name = n
        BY <2>2, <2>5, <3>1 DEF HasNode
      <4>2. nodes \in Seq(Cell)
        BY DEF Safe, TypeOK
      <4> QED
        BY <2>1, <2>5, <4>1, <4>2 DEF Settled
    <3> DEFINE ips == [i \in 1..FirstEmpty(cell, 0) |-> cell.newpeerip[i - 1]]
    <3>3. Table[n] = [timestamp |-> cell.timestamp, size |-> cell.size, type |-> TheType,
                      newpeerip |-> ips]
      BY <2>3, <2>5, <3>1 DEF Table
    <3>4. ips \in Seq(Ips)
      <4> DEFINE len == FirstEmpty(cell, 0)
      <4>1. /\ len \in 0..MAX_PEER_NUM /\ \A k \in 0..(len - 1) : cell.newpeerip[k] # NoIp
            /\ 0 \in 0..MAX_PEER_NUM /\ MAX_PEER_NUM \in Nat
        BY MaxPeerNumAssumption, FirstEmptyLemma
      <4> HIDE DEF len
      <4>2. ASSUME NEW i \in 1..len PROVE cell.newpeerip[i - 1] \in Ips
        <5>1. i - 1 \in 0..(len - 1) /\ i - 1 \in Slots
          BY <4>1 DEF Slots
        <5>2. cell.newpeerip \in [Slots -> Ips \cup {NoIp}]
          BY <3>2 DEF Cell
        <5>3. cell.newpeerip[i - 1] \in Ips \cup {NoIp}
          BY <5>1, <5>2
        <5> QED
          BY <4>1, <5>1, <5>3
      <4>3. [i \in 1..len |-> cell.newpeerip[i - 1]] \in [1..len -> Ips]
        BY <4>2
      <4> QED
        BY <4>1, <4>3 DEF len
    <3> HIDE DEF ips
    <3>5. Table[n] \in TrackerNode
      BY <3>2, <3>3, <3>4, TypeAssumption DEF TrackerNode, Cell
    <3>6. Table[n] # NoFile
      BY <3>5, NoFileAssumption
    <3>7. Table[n].timestamp = cell.timestamp /\ Table[n].size = cell.size
      BY <3>3
    <3> QED
      BY <3>2, <3>6, <3>7 DEF SameVersion
  <2> QED
    BY <2>4, <2>5
<1> QED
  BY <1>1, Safety, NamesInvariance, VersionsInvariance, PTL

-----------------------------------------------------------------------------
(* Lists of addresses, and the array of a node.                            *)

\* What the tracker lists of a version: each peer once, as many as there are slots.
ProperLists ==
  {list \in Seq(Ips) : /\ Len(list) <= MAX_PEER_NUM
                       /\ \A i, j \in 1..Len(list) : list[i] = list[j] => i = j}

\* The array of the node holds the list: behind it every slot is empty.
Holds(cell, list) ==
  \A k \in Slots : cell.newpeerip[k] = IF k < Len(list) THEN list[k + 1] ELSE NoIp

\* A list without one of its addresses, the last one being moved to its place.
LEMMA MovedLemma ==
  ASSUME NEW list \in ProperLists, NEW p \in 1..Len(list), NEW moved,
         moved = [list EXCEPT ![p] = list[Len(list)]]
  PROVE  /\ moved \in Seq(Ips) /\ Len(moved) = Len(list)
         /\ \A i \in 1..Len(list) : moved[i] = IF i = p THEN list[Len(list)] ELSE list[i]
         /\ SubSeq(moved, 1, Len(list) - 1) \in ProperLists
         /\ Len(SubSeq(moved, 1, Len(list) - 1)) = Len(list) - 1
         /\ \A i \in 1..(Len(list) - 1) : SubSeq(moved, 1, Len(list) - 1)[i] = moved[i]
         /\ list[p] \notin Holders(SubSeq(moved, 1, Len(list) - 1))
<1> PICK last : last = Len(list)
  OBVIOUS
<1>1. /\ list \in Seq(Ips) /\ last \in Nat /\ last <= MAX_PEER_NUM /\ MAX_PEER_NUM \in Nat
      /\ \A i, j \in 1..last : list[i] = list[j] => i = j
      /\ last \in 1..last /\ p \in 1..last
  BY MaxPeerNumAssumption DEF ProperLists
<1>2. list[last] \in Ips
  BY <1>1, ElementOfSeq
<1>3. /\ moved \in Seq(Ips) /\ Len(moved) = last
      /\ \A i \in 1..last : moved[i] = IF i = p THEN list[last] ELSE list[i]
  BY <1>1, <1>2, ExceptSeq
<1> PICK rest : rest = SubSeq(moved, 1, last - 1)
  OBVIOUS
<1>4. /\ rest \in Seq(Ips) /\ Len(rest) = last - 1
      /\ \A i \in 1..(last - 1) : rest[i] = moved[i]
  <2>1. \A i \in 1..(last - 1) : moved[i] \in Ips
    BY <1>1, <1>3, ElementOfSeq
  <2>2. /\ rest \in Seq(Ips) /\ Len(rest) = IF 1 <= last - 1 THEN last - 1 - 1 + 1 ELSE 0
        /\ \A i \in 1..(last - 1 - 1 + 1) : rest[i] = moved[1 + i - 1]
    BY <1>1, <2>1, SubSeqProperties
  <2> QED
    BY <1>1, <2>2
<1>5. \A i \in 1..(last - 1) : rest[i] = IF i = p THEN list[last] ELSE list[i]
  BY <1>1, <1>3, <1>4
<1>6. ASSUME NEW i \in 1..Len(rest), NEW j \in 1..Len(rest), rest[i] = rest[j] PROVE i = j
  <2>1. i \in 1..last /\ j \in 1..last /\ i # last /\ j # last
    BY <1>1, <1>4
  <2>2. rest[i] = (IF i = p THEN list[last] ELSE list[i])
        /\ rest[j] = (IF j = p THEN list[last] ELSE list[j])
    BY <1>4, <1>5
  <2> QED
    BY <1>1, <1>6, <2>1, <2>2
<1>7. rest \in ProperLists
  <2>1. Len(rest) <= MAX_PEER_NUM
    BY <1>1, <1>4
  <2> QED
    BY <1>4, <1>6, <2>1 DEF ProperLists
<1>8. list[p] \notin Holders(rest)
  <2> SUFFICES ASSUME NEW i \in 1..Len(rest), rest[i] = list[p] PROVE FALSE
    BY DEF Holders
  <2>1. i \in 1..last /\ i # last /\ rest[i] = (IF i = p THEN list[last] ELSE list[i])
    BY <1>1, <1>4, <1>5
  <2> QED
    BY <1>1, <2>1
<1> QED
  BY <1>1, <1>3, <1>4, <1>7, <1>8

\* Delist, where the address is, and that it is gone.
LEMMA DelistLemma ==
  ASSUME NEW list \in ProperLists, NEW ip \in Ips
  PROVE  /\ Delist(list, ip) \in ProperLists /\ ip \notin Holders(Delist(list, ip))
         /\ ip \notin Holders(list) => Delist(list, ip) = list
         /\ \A p \in 1..Len(list) : list[p] = ip =>
              Delist(list, ip) = SubSeq([list EXCEPT ![p] = list[Len(list)]], 1, Len(list) - 1)
<1>1. CASE ip \notin Holders(list)
  BY <1>1 DEF Delist, Holders
<1>2. CASE ip \in Holders(list)
  <2>1. PICK q : q = CHOOSE i \in 1..Len(list) : list[i] = ip
    OBVIOUS
  <2>2. q \in 1..Len(list) /\ list[q] = ip
    BY <1>2, <2>1 DEF Holders
  <2>3. PICK moved : moved = [list EXCEPT ![q] = list[Len(list)]]
    OBVIOUS
  <2>4. Delist(list, ip) = SubSeq(moved, 1, Len(list) - 1)
    BY <1>2, <2>1, <2>3 DEF Delist
  <2>5. Delist(list, ip) \in ProperLists /\ ip \notin Holders(Delist(list, ip))
    <3>1. /\ SubSeq(moved, 1, Len(list) - 1) \in ProperLists
          /\ list[q] \notin Holders(SubSeq(moved, 1, Len(list) - 1))
      BY <2>2, <2>3, MovedLemma
    <3> QED
      BY <2>2, <2>4, <3>1
  <2>6. \A p \in 1..Len(list) : list[p] = ip => p = q
    BY <2>2 DEF ProperLists
  <2> QED
    BY <1>2, <2>3, <2>4, <2>5, <2>6
<1> QED
  BY <1>1, <1>2

LEMMA EnlistLemma ==
  ASSUME NEW list \in ProperLists, NEW ip \in Ips
  PROVE  /\ <<ip>> \in ProperLists
         /\ Enlist(list, ip) \in ProperLists
<1>1. /\ list \in Seq(Ips) /\ Len(list) \in Nat
      /\ \A i, j \in 1..Len(list) : list[i] = list[j] => i = j
  BY DEF ProperLists
<1>2. <<ip>> \in ProperLists
  <2>1. <<ip>> \in Seq(Ips) /\ Len(<<ip>>) = 1 /\ 1 <= MAX_PEER_NUM
    BY MaxPeerNumAssumption
  <2>2. \A i, j \in 1..1 : i = j
    OBVIOUS
  <2> QED
    BY <2>1, <2>2 DEF ProperLists
<1>3. CASE ip \in Holders(list) \/ Len(list) >= MAX_PEER_NUM
  BY <1>2, <1>3 DEF Enlist
<1>4. CASE ~(ip \in Holders(list) \/ Len(list) >= MAX_PEER_NUM)
  <2>1. PICK more : more = Append(list, ip)
    OBVIOUS
  <2>2. /\ more \in Seq(Ips) /\ Len(more) = Len(list) + 1
        /\ \A i \in 1..Len(list) : more[i] = list[i] /\ list[i] # ip
        /\ more[Len(list) + 1] = ip
    BY <1>1, <1>4, <2>1, AppendProperties DEF Holders
  <2>3. \A i \in 1..Len(more) : i \in 1..Len(list) \/ i = Len(list) + 1
    BY <1>1, <2>2
  <2>4. \A i, j \in 1..Len(more) : more[i] = more[j] => i = j
    BY <1>1, <2>2, <2>3
  <2>5. Len(more) <= MAX_PEER_NUM
    BY <1>1, <1>4, <2>2, MaxPeerNumAssumption
  <2> QED
    BY <1>2, <1>4, <2>1, <2>2, <2>4, <2>5 DEF Enlist, ProperLists
<1> QED
  BY <1>3, <1>4

\* Where the loops over the array stop is where the list ends.
LEMMA HoldsLemma ==
  ASSUME NEW cell, NEW list \in ProperLists, Holds(cell, list)
  PROVE  /\ \A k \in 0..(Len(list) - 1) : cell.newpeerip[k] = list[k + 1]
         /\ \A k \in 0..Len(list) : FirstEmpty(cell, k) = Len(list)
         /\ \A ip \in Ips : \A k \in Slots : cell.newpeerip[k] = ip =>
              k + 1 \in 1..Len(list) /\ list[k + 1] = ip
         /\ \A ip \in Ips : Listed(cell, ip) <=> ip \in Holders(list)
<1> PICK len : len = Len(list)
  OBVIOUS
<1>1. /\ list \in Seq(Ips) /\ len \in 0..MAX_PEER_NUM /\ MAX_PEER_NUM \in Nat
      /\ \A i \in 1..len : list[i] \in Ips
  BY MaxPeerNumAssumption DEF ProperLists
<1>2. \A k \in Slots : cell.newpeerip[k] = IF k < len THEN list[k + 1] ELSE NoIp
  BY DEF Holds
<1>3. ASSUME NEW k \in 0..(len - 1) PROVE cell.newpeerip[k] = list[k + 1] /\ list[k + 1] # NoIp
  <2>1. k \in Slots /\ k < len /\ k + 1 \in 1..len
    BY <1>1 DEF Slots
  <2> QED
    BY <1>1, <1>2, <2>1, NoneAssumption
<1>4. len = MAX_PEER_NUM \/ cell.newpeerip[len] = NoIp
  <2>1. len # MAX_PEER_NUM => len \in Slots
    BY <1>1 DEF Slots
  <2> QED
    BY <1>1, <1>2, <2>1
<1>5. ASSUME NEW k \in 0..len PROVE FirstEmpty(cell, k) = len
  <2>1. k \in 0..MAX_PEER_NUM
    BY <1>1
  <2>2. PICK free : free = FirstEmpty(cell, k)
    OBVIOUS
  <2>3. /\ free \in k..MAX_PEER_NUM
        /\ free = MAX_PEER_NUM \/ cell.newpeerip[free] = NoIp
        /\ \A j \in k..(free - 1) : cell.newpeerip[j] # NoIp
    BY <2>1, <2>2, FirstEmptyLemma
  <2>4. ~(free < len)
    <3> SUFFICES ASSUME free < len PROVE FALSE
      OBVIOUS
    <3>1. free \in 0..(len - 1) /\ free # MAX_PEER_NUM
      BY <1>1, <2>3
    <3> QED
      BY <1>3, <2>3, <3>1
  <2>5. ~(len < free)
    <3> SUFFICES ASSUME len < free PROVE FALSE
      OBVIOUS
    <3>1. len \in k..(free - 1) /\ len # MAX_PEER_NUM
      BY <1>1, <2>3
    <3> QED
      BY <1>4, <2>3, <3>1
  <2> QED
    BY <1>1, <2>2, <2>3, <2>4, <2>5
<1>6. ASSUME NEW ip \in Ips, NEW k \in Slots, cell.newpeerip[k] = ip
      PROVE  k < len /\ k + 1 \in 1..len /\ list[k + 1] = ip
  <2>1. k < len
    BY <1>2, <1>6, NoneAssumption
  <2>2. k + 1 \in 1..len
    BY <1>1, <2>1 DEF Slots
  <2> QED
    BY <1>2, <1>6, <2>1, <2>2
<1>7. ASSUME NEW ip \in Ips PROVE Listed(cell, ip) <=> ip \in Holders(list)
  <2>1. FirstEmpty(cell, 0) = len
    BY <1>1, <1>5
  <2>2. Listed(cell, ip) => ip \in Holders(list)
    BY <1>6 DEF Listed, Holders
  <2>3. ASSUME NEW i \in 1..len, list[i] = ip PROVE Listed(cell, ip)
    <3>1. i - 1 \in Slots /\ i - 1 < len /\ i - 1 \in 0..(len - 1) /\ i - 1 + 1 = i
      BY <1>1 DEF Slots
    <3> QED
      BY <1>3, <2>1, <2>3, <3>1 DEF Listed
  <2> QED
    BY <2>2, <2>3 DEF Holders
<1> QED
  BY <1>3, <1>5, <1>6, <1>7

-----------------------------------------------------------------------------
(* The stores into the array.                                              *)

LEMMA PutIpArray ==
  ASSUME NEW cell \in Cell, NEW i \in Slots, NEW ip
  PROVE  \A k \in Slots : PutIp(cell, i, ip).newpeerip[k] = IF k = i THEN ip ELSE cell.newpeerip[k]
<1>1. DOMAIN cell.newpeerip = Slots /\ (DOMAIN cell.newpeerip) \cup {i} = Slots
  BY DEF Cell
<1>2. PutIp(cell, i, ip).newpeerip = [j \in Slots |-> IF j = i THEN ip ELSE cell.newpeerip[j]]
  BY <1>1 DEF PutIp, Cell
<1> QED
  BY <1>2

\* One more address.
LEMMA PutAppended ==
  ASSUME NEW cell \in Cell, NEW list \in ProperLists, Holds(cell, list), NEW ip \in Ips,
         Len(list) < MAX_PEER_NUM
  PROVE  Holds(PutIp(cell, Len(list), ip), Append(list, ip))
<1> PICK len : len = Len(list)
  OBVIOUS
<1>1. /\ list \in Seq(Ips) /\ len \in Nat /\ len \in Slots
  BY MaxPeerNumAssumption DEF ProperLists, Slots
<1>2. PICK more : more = Append(list, ip)
  OBVIOUS
<1>3. /\ Len(more) = len + 1 /\ \A i \in 1..len : more[i] = list[i]
      /\ more[len + 1] = ip
  BY <1>1, <1>2, AppendProperties
<1> SUFFICES ASSUME NEW k \in Slots
             PROVE  PutIp(cell, len, ip).newpeerip[k] = IF k < len + 1 THEN more[k + 1] ELSE NoIp
  BY <1>2, <1>3 DEF Holds
<1>4. PutIp(cell, len, ip).newpeerip[k] = IF k = len THEN ip ELSE cell.newpeerip[k]
  BY <1>1, PutIpArray
<1>5. cell.newpeerip[k] = IF k < len THEN list[k + 1] ELSE NoIp
  BY DEF Holds
<1>6. k \in Nat
  BY DEF Slots
<1>7. CASE k < len
  <2>1. k + 1 \in 1..len /\ k # len /\ k < len + 1
    BY <1>1, <1>6, <1>7
  <2> QED
    BY <1>3, <1>4, <1>5, <1>7, <2>1
<1>8. CASE k = len
  <2>1. k < len + 1
    BY <1>1, <1>8
  <2> QED
    BY <1>3, <1>4, <1>8, <2>1
<1>9. CASE k > len
  <2>1. ~(k < len) /\ k # len /\ ~(k < len + 1)
    BY <1>1, <1>6, <1>9
  <2> QED
    BY <1>4, <1>5, <2>1
<1> QED
  BY <1>1, <1>6, <1>7, <1>8, <1>9

\* The only address.
LEMMA HoldsSole ==
  ASSUME NEW cell, NEW ip, cell.newpeerip[0] = ip,
         \A k \in Slots : k # 0 => cell.newpeerip[k] = NoIp
  PROVE  Holds(cell, <<ip>>)
<1>1. Len(<<ip>>) = 1 /\ <<ip>>[1] = ip
  OBVIOUS
<1>2. \A k \in Slots : k < 1 <=> k = 0
  BY DEF Slots
<1> QED
  BY <1>1, <1>2 DEF Holds

\* The last address moved to the place of another.
LEMMA PutMoved ==
  ASSUME NEW cell \in Cell, NEW list \in ProperLists, Holds(cell, list),
         NEW i \in Slots, i < Len(list), NEW moved,
         moved = [list EXCEPT ![i + 1] = list[Len(list)]]
  PROVE  /\ Holds(PutIp(cell, i, list[Len(list)]), moved)
         /\ i + 1 = Len(list) => Holds(cell, moved)
<1> PICK len : len = Len(list)
  OBVIOUS
<1>1. len \in Nat /\ i + 1 \in 1..len
  BY DEF ProperLists, Slots
<1>2. /\ Len(moved) = len
      /\ \A j \in 1..len : moved[j] = IF j = i + 1 THEN list[len] ELSE list[j]
  BY <1>1, MovedLemma
<1>3. ASSUME NEW k \in Slots
      PROVE  /\ PutIp(cell, i, list[len]).newpeerip[k] = IF k < len THEN moved[k + 1] ELSE NoIp
             /\ i + 1 = len => cell.newpeerip[k] = IF k < len THEN moved[k + 1] ELSE NoIp
  <2>1. PutIp(cell, i, list[len]).newpeerip[k] = IF k = i THEN list[len] ELSE cell.newpeerip[k]
    BY PutIpArray
  <2>2. cell.newpeerip[k] = IF k < len THEN list[k + 1] ELSE NoIp
    BY DEF Holds
  <2>3. k \in Nat /\ i \in Nat /\ (k + 1 = i + 1 <=> k = i) /\ (k < len => k + 1 \in 1..len)
        /\ (k = i => k < len)
    BY <1>1 DEF Slots
  <2> QED
    BY <1>2, <2>1, <2>2, <2>3
<1> QED
  BY <1>2, <1>3 DEF Holds

\* The last one cleared.
LEMMA PutCleared ==
  ASSUME NEW cell \in Cell, NEW moved \in Seq(Ips), Holds(cell, moved),
         Len(moved) \in 1..MAX_PEER_NUM
  PROVE  Holds(PutIp(cell, Len(moved) - 1, NoIp), SubSeq(moved, 1, Len(moved) - 1))
<1> PICK len : len = Len(moved)
  OBVIOUS
<1>1. len \in Nat \ {0} /\ len - 1 \in Slots
  BY MaxPeerNumAssumption DEF Slots
<1>2. PICK rest : rest = SubSeq(moved, 1, len - 1)
  OBVIOUS
<1>3. Len(rest) = len - 1 /\ \A i \in 1..(len - 1) : rest[i] = moved[i]
  <2>1. \A i \in 1..(len - 1) : moved[i] \in Ips
    BY <1>1, ElementOfSeq
  <2>2. /\ Len(rest) = IF 1 <= len - 1 THEN len - 1 - 1 + 1 ELSE 0
        /\ \A i \in 1..(len - 1 - 1 + 1) : rest[i] = moved[1 + i - 1]
    BY <1>1, <1>2, <2>1, SubSeqProperties
  <2> QED
    BY <1>1, <2>2
<1>4. ASSUME NEW k \in Slots
      PROVE  PutIp(cell, len - 1, NoIp).newpeerip[k] = IF k < len - 1 THEN rest[k + 1] ELSE NoIp
  <2>1. PutIp(cell, len - 1, NoIp).newpeerip[k] = IF k = len - 1 THEN NoIp ELSE cell.newpeerip[k]
    BY <1>1, PutIpArray
  <2>2. cell.newpeerip[k] = IF k < len THEN moved[k + 1] ELSE NoIp
    BY DEF Holds
  <2>3. k \in Nat /\ (k < len - 1 => k + 1 \in 1..(len - 1) /\ k < len /\ k # len - 1)
        /\ (~(k < len - 1) => k = len - 1 \/ ~(k < len))
    BY <1>1 DEF Slots
  <2> QED
    BY <1>3, <2>1, <2>2, <2>3
<1> QED
  BY <1>2, <1>3, <1>4 DEF Holds

-----------------------------------------------------------------------------
(* The lists.                                                              *)

\* The addresses that file n should have.
Due(n) == expected[n].newpeerip

\* The node of file n has them.
ListSettled(n) == \A i \in 1..Len(nodes) : nodes[i].name = n => Holds(nodes[i], Due(n))

\* What merging entry e of the peer at ip makes of a node with that list.
Merged(cell, list, e, ip) ==
  IF Newer(e, cell) THEN <<ip>> ELSE IF SameVersion(e, cell) THEN Enlist(list, ip) ELSE list

\* The node of the file of e will have them when e has been merged.
ListAwaits(e, ip) ==
  /\ ~HasNode(e.name) => Due(e.name) = <<ip>>
  /\ \A i \in 1..Len(nodes) : nodes[i].name = e.name =>
       \E list \in ProperLists :
         Holds(nodes[i], list) /\ Due(e.name) = Merged(nodes[i], list, e, ip)

\* The same, of the entry that the thread merges, step by step.
AtHead(t, ip, due) ==
  /\ pc[t] = "find" =>
       \E list \in ProperLists : Holds(Here(t), list) /\ due = Enlist(list, ip)
  /\ pc[t] = "enlist" =>
       \E list \in ProperLists : /\ Holds(Here(t), list) /\ index[t] = Len(list)
                                 /\ Len(list) < MAX_PEER_NUM /\ due = Append(list, ip)
  /\ pc[t] \in {"size", "timestamp", "sole", "clean", "sethead", "reread", "name", "fill"} =>
       due = <<ip>>
  /\ pc[t] = "clean" => Here(t).newpeerip[0] = ip
  /\ pc[t] \in {"sethead", "reread", "name"} => Holds(nodes[Len(nodes)], <<>>)
  /\ pc[t] = "fill" => Holds(Here(t), <<>>)
  /\ pc[t] = "cut" => Holds(Here(t), due)

UpdateLists(t) ==
  /\ \A n \in Names : ~Pending(t, n) => ListSettled(n)
  /\ \A k \in 1..Len(job[t].list) :
       k > 1 \/ pc[t] \in Before => ListAwaits(job[t].list[k], job[t].ip)
  /\ AtHead(t, job[t].ip, Due(Wanted(t).name))

\* The nodes that delete_peer is done with, and those it has yet to look at.
Past(t, i) ==
  \/ cursor[t] = NULL \/ i < cursor[t]
  \/ i = cursor[t] /\ pc[t] = "forget" /\ index[t] > 0
Ahead(t, i) ==
  /\ cursor[t] # NULL
  /\ i > cursor[t] \/ (i = cursor[t] /\ pc[t] = "forget" /\ index[t] = 0)

\* The node's list is without the peer, and it is as it should be when the peer has
\* been taken out of it.
Forgotten(cell, ip) ==
  /\ Due(cell.name) \in ProperLists /\ Holds(cell, Due(cell.name))
  /\ ip \notin Holders(Due(cell.name))
ToForget(cell, ip) ==
  \E list \in ProperLists : Holds(cell, list) /\ Due(cell.name) = Delist(list, ip)

DeleteLists(t) ==
  /\ \A i \in 1..Len(nodes) : /\ Past(t, i) => Forgotten(nodes[i], job[t].ip)
                              /\ Ahead(t, i) => ToForget(nodes[i], job[t].ip)
  /\ pc[t] = "move" =>
       \E list \in ProperLists :
         /\ Holds(Here(t), list) /\ Due(Here(t).name) = Delist(list, job[t].ip)
         /\ counter[t] = Len(list) /\ index[t] < Len(list)
         /\ list[index[t] + 1] = job[t].ip
  /\ pc[t] = "clear" =>
       \E moved \in Seq(Ips) :
         /\ Holds(Here(t), moved) /\ counter[t] = Len(moved)
         /\ Due(Here(t).name) = SubSeq(moved, 1, Len(moved) - 1)
         /\ Due(Here(t).name) \in ProperLists
         /\ job[t].ip \notin Holders(Due(Here(t).name))

\* While calls do not overlap.
Lists ==
  /\ \A t, u \in Threads : pc[t] # "idle" /\ pc[u] # "idle" => t = u
  /\ \A n \in Names : expected[n] # NoFile => Due(n) \in ProperLists
  /\ (\A t \in Threads : pc[t] = "idle") => \A n \in Names : ListSettled(n)
  /\ \A t \in Threads : Updating(t) => UpdateLists(t)
  /\ \A t \in Threads : pc[t] \in DeleteLabels => DeleteLists(t)

ListsInv == races = {} => Lists

-----------------------------------------------------------------------------
(* Frames for the lists.                                                   *)

\* A step leaves the nodes of file n alone, and the addresses they should have.
SameLists(n) ==
  /\ SameFile(n) /\ expected'[n] = expected[n]
  /\ \A i \in 1..Len(nodes') : nodes'[i].name = n => nodes'[i].newpeerip = nodes[i].newpeerip

LEMMA ListSettledSame ==
  ASSUME NEW n, SameLists(n), ListSettled(n)
  PROVE  ListSettled(n)'
BY DEF SameLists, SameFile, ListSettled, Holds, Due

LEMMA ListAwaitsSame ==
  ASSUME NEW e, NEW ip, SameLists(e.name), ListAwaits(e, ip)
  PROVE  ListAwaits(e, ip)'
<1>1. HasNode(e.name)' <=> HasNode(e.name)
  BY DEF SameLists, SameFile, HasNode
<1>2. ASSUME NEW i \in 1..Len(nodes'), nodes'[i].name = e.name
      PROVE  \E list \in ProperLists :
               Holds(nodes'[i], list) /\ expected'[e.name].newpeerip = Merged(nodes'[i], list, e, ip)
  <2>1. /\ i \in 1..Len(nodes) /\ nodes[i].name = e.name /\ expected'[e.name] = expected[e.name]
        /\ nodes'[i].timestamp = nodes[i].timestamp /\ nodes'[i].size = nodes[i].size
        /\ nodes'[i].newpeerip = nodes[i].newpeerip
    BY <1>2 DEF SameLists, SameFile
  <2>2. PICK list \in ProperLists : Holds(nodes[i], list) /\ Due(e.name) = Merged(nodes[i], list, e, ip)
    BY <2>1 DEF ListAwaits
  <2>3. Holds(nodes'[i], list) /\ Merged(nodes'[i], list, e, ip) = Merged(nodes[i], list, e, ip)
    BY <2>1, <2>2 DEF Holds, Merged, SameVersion, Newer
  <2> QED
    BY <2>1, <2>2, <2>3 DEF Due
<1> QED
  BY <1>1, <1>2 DEF ListAwaits, SameLists, Due

\* No other thread is in a call.
Alone(t) == \A u \in Threads : u # t => pc[u] = "idle"

LEMMA ListsFrame ==
  ASSUME NEW t \in Threads, OthersSame(t), Alone(t),
         \A n \in Names : expected'[n] # NoFile => expected'[n].newpeerip \in ProperLists,
         pc'[t] = "idle" => \A n \in Names : ListSettled(n)',
         Updating(t)' => UpdateLists(t)',
         pc'[t] \in DeleteLabels => DeleteLists(t)'
  PROVE  Lists'
<1>1. \A u \in Threads : u # t => pc'[u] = "idle" /\ ~Updating(u)' /\ pc'[u] \notin DeleteLabels
  BY DEF Alone, OthersSame, SameThread, Updating, UpdateLabels, DeleteLabels
<1>2. \A n \in Names : expected'[n] # NoFile => Due(n)' \in ProperLists
  BY DEF Due
<1>3. \A u, v \in Threads : pc'[u] # "idle" /\ pc'[v] # "idle" => u = v
  BY <1>1
<1>4. \A u \in Threads : Updating(u)' => UpdateLists(u)'
  BY <1>1
<1>5. \A u \in Threads : pc'[u] \in DeleteLabels => DeleteLists(u)'
  BY <1>1
<1>6. (\A u \in Threads : pc'[u] = "idle") => \A n \in Names : ListSettled(n)'
  OBVIOUS
<1> QED
  BY <1>2, <1>3, <1>4, <1>5, <1>6 DEF Lists

LEMMA AloneLemma ==
  ASSUME Lists, NEW t \in Threads, pc[t] # "idle"
  PROVE  Alone(t)
BY DEF Lists, Alone

\* The thread is at the same entry of its call.
LEMMA ListSameEntry ==
  ASSUME Safe, Lists, NEW t \in Threads, Updating(t), Updating(t)', OthersSame(t),
         job'[t] = job[t], expected' = expected,
         NEW e \in Entry, e = Wanted(t), NEW ip, ip = job[t].ip,
         \A n \in Names : n # e.name => SameLists(n),
         pc'[t] \in Before => ListAwaits(e, ip)',
         AtHead(t, ip, Due(e.name))'
  PROVE  Lists'
<1>1. Alone(t) /\ UpdateLists(t) /\ \A n \in Names : expected[n] # NoFile => Due(n) \in ProperLists
  BY AloneLemma DEF Lists, Updating, UpdateLabels
<1>2. Wanted(t)' = e /\ Wanted(t) = job[t].list[1] /\ Len(job[t].list) \in Nat \ {0}
  BY UpdateLemma DEF Updating, Wanted
<1>3. ASSUME NEW n \in Names, ~Pending(t, n)' PROVE ListSettled(n)'
  <2>1. ~Pending(t, n)
    BY <1>3 DEF Pending, Updating
  <2>2. n # e.name
    BY <1>2, <2>1 DEF Pending, Updating
  <2> QED
    BY <1>1, <2>1, <2>2, ListSettledSame DEF UpdateLists
<1>4. ASSUME NEW k \in 1..Len(job[t].list), k > 1 \/ pc'[t] \in Before
      PROVE  ListAwaits(job[t].list[k], job[t].ip)'
  <2>1. CASE k > 1
    <3>1. PICK f : f = job[t].list[k]
      OBVIOUS
    <3>2. f.name \in Names /\ f.name # e.name /\ ListAwaits(f, ip)
      BY <1>1, <2>1, <3>1, RestLemma DEF UpdateLists
    <3>3. ListAwaits(f, ip)'
      BY <3>2, ListAwaitsSame
    <3> QED
      BY <3>1, <3>3
  <2>2. CASE k = 1
    BY <1>2, <1>4, <2>2
  <2> QED
    BY <1>2, <2>1, <2>2
<1>5. UpdateLists(t)'
  BY <1>2, <1>3, <1>4 DEF UpdateLists
<1>6. pc'[t] # "idle" /\ pc'[t] \notin DeleteLabels
  BY DEF Updating, UpdateLabels, DeleteLabels
<1>7. \A n \in Names : expected'[n] # NoFile => expected'[n].newpeerip \in ProperLists
  BY <1>1 DEF Due
<1> QED
  BY <1>1, <1>5, <1>6, <1>7, ListsFrame

\* The thread is done with its entry.
LEMMA ListNextEntry ==
  ASSUME Safe, Lists, NEW t \in Threads, Updating(t), OthersSame(t), Done(t), Finished(t),
         expected' = expected,
         NEW w \in Names, w = Wanted(t).name,
         \A n \in Names : n # w => SameLists(n), ListSettled(w)'
  PROVE  Lists'
<1>1. Alone(t) /\ UpdateLists(t) /\ \A n \in Names : expected[n] # NoFile => Due(n) \in ProperLists
  BY AloneLemma DEF Lists, Updating, UpdateLabels
<1>2. Wanted(t) = job[t].list[1] /\ Len(job[t].list) \in Nat \ {0}
  BY UpdateLemma DEF Updating
<1> PICK ip : ip = job[t].ip
  OBVIOUS
<1>3. pc'[t] = "next" => job'[t].ip = ip
  <2>1. LocalTypes /\ job[t] \in [call : {"update"}, ip : Ips, list : Seq(Entry)]
    BY TypesLemma, UpdateLemma DEF Updating
  <2>2. CASE Len(job[t].list) > 1
    <3>1. job' = [job EXCEPT ![t] = [job[t] EXCEPT !.list = Tail(job[t].list)]]
      BY <2>2 DEF Done
    <3>2. job'[t] = [job[t] EXCEPT !.list = Tail(job[t].list)]
      BY <2>1, <3>1 DEF LocalTypes
    <3> QED
      BY <2>1, <3>2
  <2>3. CASE ~(Len(job[t].list) > 1)
    BY <2>1, <2>3 DEF Done, Return, Goto, LocalTypes
  <2> QED
    BY <2>2, <2>3
<1>4. ASSUME NEW k \in 1..Len(job'[t].list), pc'[t] = "next"
      PROVE  ListAwaits(job[t].list[k], job[t].ip)'
  <2>1. PICK f : f = job'[t].list[k]
    OBVIOUS
  <2> DEFINE len == Len(job[t].list)
  <2>2. /\ Len(job'[t].list) = len - 1
        /\ \A i \in 1..(len - 1) : job'[t].list[i] = job[t].list[i + 1]
    BY <1>4 DEF Finished
  <2>3. len \in Nat
    BY <1>2
  <2> HIDE DEF len
  <2>4. k + 1 \in 1..len /\ k + 1 > 1 /\ f = job[t].list[k + 1]
    BY <2>1, <2>2, <2>3
  <2>5. f.name \in Names /\ f.name # w /\ ListAwaits(f, ip)
    BY <1>1, <2>4, RestLemma DEF UpdateLists, len
  <2>6. ListAwaits(f, ip)'
    BY <2>5, ListAwaitsSame
  <2> QED
    BY <1>3, <1>4, <2>1, <2>6
<1>5. pc'[t] \in {"idle", "next"}
  BY DEF Finished
<1>6. ASSUME NEW n \in Names, ~Pending(t, n)' PROVE ListSettled(n)'
  <2>1. CASE n = w
    BY <2>1
  <2>2. CASE n # w
    <3>1. ASSUME Pending(t, n) PROVE FALSE
      <4> DEFINE len == Len(job[t].list)
      <4>1. PICK i \in 1..len : job[t].list[i].name = n
        BY <3>1 DEF Pending
      <4>2. i # 1 /\ len \in Nat \ {0}
        BY <1>2, <2>2, <4>1
      <4> HIDE DEF len
      <4>3. i - 1 \in 1..(len - 1) /\ len # 1 /\ i - 1 + 1 = i
        BY <4>1, <4>2
      <4>4. /\ pc'[t] = "next" /\ Len(job'[t].list) = len - 1
            /\ \A j \in 1..(len - 1) : job'[t].list[j] = job[t].list[j + 1]
        BY <4>3 DEF Finished, len
      <4>5. job'[t].list[i - 1].name = n
        BY <4>1, <4>3, <4>4
      <4> QED
        BY <1>6, <4>3, <4>4, <4>5 DEF Pending, UpdateLabels
    <3> QED
      BY <1>1, <2>2, <3>1, ListSettledSame DEF UpdateLists
  <2> QED
    BY <2>1, <2>2
<1>7. pc'[t] = "idle" => \A n \in Names : ListSettled(n)'
  <2>1. pc'[t] = "idle" => \A n \in Names : ~Pending(t, n)'
    BY DEF Pending, UpdateLabels
  <2> QED
    BY <1>6, <2>1
<1>8. Updating(t)' => UpdateLists(t)'
  <2> SUFFICES ASSUME pc'[t] = "next" PROVE UpdateLists(t)'
    BY <1>5 DEF Updating, UpdateLabels
  <2>1. AtHead(t, job[t].ip, Due(Wanted(t).name))'
    BY DEF AtHead
  <2> QED
    BY <1>4, <1>6, <2>1 DEF UpdateLists
<1>9. pc'[t] \notin DeleteLabels
  BY <1>5 DEF DeleteLabels
<1>10. \A n \in Names : expected'[n] # NoFile => expected'[n].newpeerip \in ProperLists
  BY <1>1 DEF Due
<1> QED
  BY <1>1, <1>7, <1>8, <1>9, <1>10, ListsFrame

LEMMA SetStored ==
  ASSUME Safe, NEW t \in Threads, NEW cell, Set(t, cell)
  PROVE  Stored(t, cell)
<1>1. nodes \in Seq(Cell)
  BY DEF Safe, TypeOK
<1> HIDE DEF Cell
<1> QED
  BY <1>1 DEF Set, Stored

LEMMA UnchangedLists ==
  ASSUME UNCHANGED <<nodes, expected>>
  PROVE  \A n : SameLists(n)
BY DEF SameLists, SameFile

\* A store into the node of a file is no store into that of another.
LEMMA StoredLists ==
  ASSUME Safe, Tidy, OneNode, NEW t \in Threads, pc[t] \in Found, NEW cell,
         Stored(t, cell), cell.name = Here(t).name, expected' = expected
  PROVE  /\ \A n : n # Wanted(t).name => SameLists(n)
         /\ \A w : w = Wanted(t).name /\ Holds(cell, Due(w)) => ListSettled(w)'
         /\ nodes'[cursor[t]] = cell
<1>1. /\ cursor[t] \in 1..Len(nodes) /\ nodes[cursor[t]].name = Wanted(t).name
      /\ cell.name = Wanted(t).name
      /\ \A i \in 1..Len(nodes) : nodes[i].name = Wanted(t).name => i = cursor[t]
  BY TheNode
<1>2. /\ Len(nodes') = Len(nodes)
      /\ \A i \in 1..Len(nodes) : nodes'[i] = IF i = cursor[t] THEN cell ELSE nodes[i]
  BY DEF Stored
<1>3. \A n : n # Wanted(t).name => SameLists(n)
  BY <1>1, <1>2 DEF SameLists, SameFile
<1>4. ASSUME NEW w, w = Wanted(t).name, Holds(cell, Due(w)) PROVE ListSettled(w)'
  <2>1. \A i \in 1..Len(nodes') : nodes'[i].name = w => nodes'[i] = cell
    BY <1>1, <1>2, <1>4
  <2>2. \A i \in 1..Len(nodes') : nodes'[i].name = w => Holds(cell, Due(w))'
    BY <1>4 DEF Holds, Due
  <2> QED
    BY <1>4, <2>1 DEF ListSettled, Holds, Due
<1> QED
  BY <1>1, <1>2, <1>3, <1>4

-----------------------------------------------------------------------------
(* The lists, action by action: update_filetable.                          *)

LEMMA ScanLists ==
  ASSUME Safe, Tidy, Lists, NEW t \in Threads, NextNode(t) \/ Scan(t) \/ Advance(t)
  PROVE  Lists'
<1>1. /\ OthersSame(t) /\ pc[t] \in {"next", "scan", "advance"} /\ job'[t] = job[t]
      /\ UNCHANGED <<nodes, expected>>
      /\ pc'[t] \in {"scan", "advance", "append", "compare"}
  BY NextNodeLemma, ScanLemma, AdvanceLemma
<1>2. Updating(t) /\ Updating(t)'
  BY <1>1 DEF Updating, UpdateLabels
<1>3. PICK e : e = Wanted(t)
  OBVIOUS
<1>4. PICK ip : ip = job[t].ip
  OBVIOUS
<1>5. e \in Entry /\ e = job[t].list[1] /\ Len(job[t].list) \in Nat \ {0}
  BY <1>2, <1>3, UpdateLemma DEF Updating
<1>6. \A n : SameLists(n)
  BY <1>1, UnchangedLists
<1>7. ListAwaits(e, ip)'
  <2>1. ListAwaits(e, ip)
    BY <1>1, <1>2, <1>4, <1>5 DEF Lists, UpdateLists, Before
  <2> QED
    BY <1>6, <2>1, ListAwaitsSame
<1>8. AtHead(t, ip, Due(e.name))'
  BY <1>1 DEF AtHead
<1> QED
  BY <1>1, <1>2, <1>3, <1>4, <1>5, <1>6, <1>7, <1>8, ListSameEntry

LEMMA CompareLists ==
  ASSUME Safe, Tidy, Lists, OneNode, NEW t \in Threads, Compare(t)
  PROVE  Lists'
<1>1. /\ OthersSame(t) /\ pc[t] = "compare" /\ UNCHANGED <<nodes, expected>>
      /\ \/ /\ SameVersion(Here(t), Wanted(t)) /\ pc'[t] = "find"
            /\ job'[t] = job[t] /\ cursor'[t] = cursor[t]
         \/ /\ Newer(Wanted(t), Here(t)) /\ pc'[t] = "size"
            /\ job'[t] = job[t] /\ cursor'[t] = cursor[t]
         \/ Newer(Here(t), Wanted(t)) /\ Finished(t)
  BY CompareLemma
<1>2. PICK e : e = Wanted(t)
  OBVIOUS
<1>3. PICK ip : ip = job[t].ip
  OBVIOUS
<1>4. /\ e \in Entry /\ e.name \in Names /\ Updating(t)
      /\ Here(t) \in Cell /\ cursor[t] \in 1..Len(nodes) /\ nodes[cursor[t]].name = e.name
      /\ \A i \in 1..Len(nodes) : nodes[i].name = e.name => nodes[i] = Here(t)
  BY <1>1, <1>2, TheNode DEF Found, Here
<1>5. ListAwaits(e, ip)
  <2>1. Len(job[t].list) \in Nat \ {0} /\ e = job[t].list[1]
    BY <1>2, <1>4, UpdateLemma DEF Updating
  <2> QED
    BY <1>1, <1>3, <1>4, <2>1 DEF Lists, UpdateLists, Before
<1>6. PICK list \in ProperLists :
        Holds(Here(t), list) /\ Due(e.name) = Merged(Here(t), list, e, ip)
  BY <1>4, <1>5 DEF ListAwaits, Here
<1>7. /\ e.timestamp \in Nat /\ e.size \in Nat
      /\ Here(t).timestamp \in Nat /\ Here(t).size \in Nat
  BY <1>4 DEF Entry, Cell
<1>8. \A n : SameLists(n)
  BY <1>1, UnchangedLists
<1>9. pc'[t] \in {"find", "size"} => Due(e.name)' = Due(e.name) /\ Here(t)' = Here(t)
  BY <1>1 DEF Due, Here, Finished
<1>10. CASE pc'[t] = "find" /\ job'[t] = job[t] /\ SameVersion(Here(t), Wanted(t))
  <2>1. Updating(t)' /\ pc'[t] \notin Before
    BY <1>10 DEF Updating, UpdateLabels, Before
  <2>2. Due(e.name) = Enlist(list, ip)
    BY <1>2, <1>6, <1>7, <1>10 DEF Merged, SameVersion, Newer
  <2>3. Holds(Here(t), list)'
    BY <1>6, <1>9, <1>10 DEF Holds
  <2>4. AtHead(t, ip, Due(e.name))'
    BY <1>9, <1>10, <2>2, <2>3 DEF AtHead
  <2> QED
    BY <1>1, <1>2, <1>3, <1>4, <1>8, <1>10, <2>1, <2>4, ListSameEntry
<1>11. CASE pc'[t] = "size" /\ job'[t] = job[t] /\ Newer(Wanted(t), Here(t))
  <2>1. Updating(t)' /\ pc'[t] \notin Before
    BY <1>11 DEF Updating, UpdateLabels, Before
  <2>2. Due(e.name)' = <<ip>>
    BY <1>2, <1>6, <1>9, <1>11 DEF Merged
  <2>3. AtHead(t, ip, Due(e.name))'
    BY <1>11, <2>2 DEF AtHead
  <2> QED
    BY <1>1, <1>2, <1>3, <1>4, <1>8, <1>11, <2>1, <2>3, ListSameEntry
<1>12. CASE Finished(t) /\ Newer(Here(t), Wanted(t))
  <2>1. PICK w \in Names : w = e.name
    BY <1>4
  <2>2. ~Newer(e, Here(t)) /\ ~SameVersion(e, Here(t)) /\ ~SameVersion(Here(t), e)
    BY <1>2, <1>7, <1>12 DEF SameVersion, Newer
  <2>3. Done(t)
    BY <1>2, <2>2 DEF Compare
  <2>4. Due(w) = list
    BY <1>6, <2>1, <2>2 DEF Merged
  <2>5. ListSettled(w)
    BY <1>4, <1>6, <2>1, <2>4 DEF ListSettled
  <2>6. ListSettled(w)' /\ w = Wanted(t).name
    BY <1>2, <1>8, <2>1, <2>5, ListSettledSame
  <2> QED
    BY <1>1, <1>4, <1>8, <1>12, <2>3, <2>6, ListNextEntry
<1> QED
  BY <1>1, <1>10, <1>11, <1>12

LEMMA FindSlotLists ==
  ASSUME Safe, Tidy, Lists, OneNode, NEW t \in Threads, FindSlot(t)
  PROVE  Lists'
<1>1. OthersSame(t) /\ pc[t] = "find" /\ UNCHANGED <<nodes, expected>>
  BY FindSlotLemma
<1>2. PICK e : e = Wanted(t)
  OBVIOUS
<1>3. PICK ip : ip = job[t].ip
  OBVIOUS
<1>4. /\ e \in Entry /\ e.name \in Names /\ Updating(t) /\ ip \in Ips
      /\ \A i \in 1..Len(nodes) : nodes[i].name = e.name => nodes[i] = Here(t)
  BY <1>1, <1>2, <1>3, TheNode, UpdateLemma DEF Found, Here, Updating
<1>5. PICK list \in ProperLists : Holds(Here(t), list) /\ Due(e.name) = Enlist(list, ip)
  BY <1>1, <1>2, <1>3, <1>4 DEF Lists, UpdateLists, AtHead
<1>6. Len(list) \in 0..MAX_PEER_NUM /\ MAX_PEER_NUM \in Nat
  BY MaxPeerNumAssumption DEF ProperLists
<1>7. FirstEmpty(Here(t), 0) = Len(list) /\ (Listed(Here(t), ip) <=> ip \in Holders(list))
  BY <1>4, <1>5, <1>6, HoldsLemma
<1>8. \A n : SameLists(n)
  BY <1>1, UnchangedLists
<1>9. CASE (Listed(Here(t), ip) \/ Len(list) = MAX_PEER_NUM) /\ Done(t)
  <2>1. Due(e.name) = list
    BY <1>5, <1>6, <1>7, <1>9 DEF Enlist
  <2>2. ListSettled(e.name)
    BY <1>4, <1>5, <2>1 DEF ListSettled
  <2>3. PICK w \in Names : w = e.name
    BY <1>4
  <2>4. ListSettled(w)' /\ w = Wanted(t).name
    BY <1>2, <1>8, <2>2, <2>3, ListSettledSame
  <2>5. Finished(t)
    BY <1>4, <1>9, DoneLemma DEF Finished, Updating
  <2> QED
    BY <1>1, <1>4, <1>8, <1>9, <2>4, <2>5, ListNextEntry
<1>10. CASE /\ ~Listed(Here(t), ip) /\ Len(list) < MAX_PEER_NUM
            /\ index' = [index EXCEPT ![t] = Len(list)]
            /\ Goto(t, "enlist") /\ UNCHANGED <<job, cursor, counter>>
  <2>1. pc'[t] = "enlist" /\ index'[t] = Len(list) /\ job'[t] = job[t] /\ Here(t)' = Here(t)
    BY <1>1, <1>10, TypesLemma DEF LocalTypes, Goto, Here
  <2>2. Due(e.name)' = Append(list, ip)
    BY <1>1, <1>5, <1>6, <1>7, <1>10 DEF Enlist, Due
  <2>3. Holds(Here(t), list)'
    BY <1>5, <2>1 DEF Holds
  <2>4. AtHead(t, ip, Due(e.name))'
    BY <1>10, <2>1, <2>2, <2>3 DEF AtHead
  <2>5. Updating(t)' /\ pc'[t] \notin Before
    BY <2>1 DEF Updating, UpdateLabels, Before
  <2> QED
    BY <1>1, <1>2, <1>3, <1>4, <1>8, <2>1, <2>4, <2>5, ListSameEntry
<1> QED
  BY <1>3, <1>7, <1>9, <1>10 DEF FindSlot

LEMMA EnlistIpLists ==
  ASSUME Safe, Tidy, Lists, OneNode, NEW t \in Threads, EnlistIp(t)
  PROVE  Lists'
<1>1. OthersSame(t) /\ pc[t] = "enlist" /\ Finished(t) /\ expected' = expected
  BY EnlistIpLemma
<1>2. PICK w : w = Wanted(t).name
  OBVIOUS
<1>3. PICK ip : ip = job[t].ip
  OBVIOUS
<1>4. w \in Names /\ Updating(t) /\ ip \in Ips /\ Here(t) \in Cell
  BY <1>1, <1>2, <1>3, TheNode, UpdateLemma DEF Found, Updating
<1>5. PICK list \in ProperLists :
        /\ Holds(Here(t), list) /\ index[t] = Len(list)
        /\ Len(list) < MAX_PEER_NUM /\ Due(w) = Append(list, ip)
  BY <1>1, <1>2, <1>3, <1>4 DEF Lists, UpdateLists, AtHead
<1>6. PICK cell : cell = PutIp(Here(t), Len(list), ip)
  OBVIOUS
<1>7. Done(t) /\ Stored(t, cell)
  BY <1>3, <1>5, <1>6, SetStored DEF EnlistIp, LastStore
<1>8. Holds(cell, Due(w))
  BY <1>4, <1>5, <1>6, PutAppended
<1>9. cell.name = Here(t).name
  BY <1>4, <1>6 DEF PutIp, Cell
<1>10. ListSettled(w)' /\ \A n \in Names : n # w => SameLists(n)
  BY <1>1, <1>2, <1>7, <1>8, <1>9, StoredLists DEF Found
<1> QED
  BY <1>1, <1>2, <1>4, <1>7, <1>10, ListNextEntry

\* The stores of a newer version, up to the one that makes the peer its only holder.
LEMMA StoreLists ==
  ASSUME Safe, Tidy, Lists, OneNode, NEW t \in Threads,
         StoreSize(t) \/ StoreTimestamp(t) \/ StoreSoleHolder(t)
  PROVE  Lists'
<1>1. /\ OthersSame(t) /\ expected' = expected
      /\ job'[t] = job[t] /\ cursor'[t] = cursor[t]
      /\ pc[t] \in {"size", "timestamp", "sole"} /\ pc'[t] \in {"timestamp", "sole", "clean"}
      /\ pc'[t] = "clean" => StoreSoleHolder(t)
  BY StoreSizeLemma, StoreTimestampLemma, SoleHolderLemma
<1>2. PICK e : e = Wanted(t)
  OBVIOUS
<1>3. PICK ip : ip = job[t].ip
  OBVIOUS
<1>4. /\ e \in Entry /\ e.name \in Names /\ Updating(t) /\ Updating(t)' /\ ip \in Ips
      /\ Here(t) \in Cell /\ pc'[t] \notin Before /\ pc[t] \in Found
  <2>1. pc[t] \in Found /\ Updating(t)' /\ pc'[t] \notin Before
    BY <1>1 DEF Found, Updating, UpdateLabels, Before
  <2> QED
    BY <1>2, <1>3, <2>1, TheNode, UpdateLemma DEF Updating
<1>5. PICK cell :
        /\ Stored(t, cell) /\ cell.name = Here(t).name
        /\ pc'[t] = "clean" => cell.newpeerip[0] = ip
  <2>1. CASE StoreSize(t)
    <3>1. PICK cell : cell = [Here(t) EXCEPT !.size = Wanted(t).size]
      OBVIOUS
    <3>2. Stored(t, cell) /\ pc'[t] = "timestamp"
      BY <2>1, <3>1, StoreSizeLemma
    <3>3. cell.name = Here(t).name
      BY <1>4, <3>1 DEF Cell
    <3> QED
      BY <3>2, <3>3
  <2>2. CASE StoreTimestamp(t)
    <3>1. PICK cell : cell = [Here(t) EXCEPT !.timestamp = Wanted(t).timestamp]
      OBVIOUS
    <3>2. Stored(t, cell) /\ pc'[t] = "sole"
      BY <2>2, <3>1, StoreTimestampLemma
    <3>3. cell.name = Here(t).name
      BY <1>4, <3>1 DEF Cell
    <3> QED
      BY <3>2, <3>3
  <2>3. CASE StoreSoleHolder(t)
    <3>1. PICK cell : cell = PutIp(Here(t), 0, ip)
      OBVIOUS
    <3>2. Stored(t, cell)
      BY <1>3, <2>3, <3>1, SetStored DEF StoreSoleHolder, Store
    <3>3. 0 \in Slots
      BY MaxPeerNumAssumption DEF Slots
    <3>4. cell.name = Here(t).name /\ cell.newpeerip[0] = ip
      BY <1>4, <3>1, <3>3, PutIpLemma, PutIpArray
    <3> QED
      BY <3>2, <3>4
  <2> QED
    BY <2>1, <2>2, <2>3
<1>6. (\A n : n # e.name => SameLists(n)) /\ nodes'[cursor[t]] = cell
  BY <1>1, <1>2, <1>4, <1>5, StoredLists
<1>7. Due(e.name)' = <<ip>>
  <2>1. Due(e.name) = <<ip>>
    BY <1>1, <1>2, <1>3, <1>4 DEF Lists, UpdateLists, AtHead
  <2> QED
    BY <1>1, <2>1 DEF Due
<1>8. Here(t)' = cell
  BY <1>1, <1>6 DEF Here
<1>9. AtHead(t, ip, Due(e.name))'
  BY <1>1, <1>5, <1>7, <1>8 DEF AtHead
<1> QED
  BY <1>1, <1>2, <1>3, <1>4, <1>6, <1>9, ListSameEntry

LEMMA CleanListLists ==
  ASSUME Safe, Tidy, Lists, OneNode, NEW t \in Threads, CleanList(t)
  PROVE  Lists'
<1>1. OthersSame(t) /\ pc[t] = "clean" /\ Finished(t) /\ expected' = expected
  BY CleanListLemma
<1>2. PICK w : w = Wanted(t).name
  OBVIOUS
<1>3. PICK ip : ip = job[t].ip
  OBVIOUS
<1>4. w \in Names /\ Updating(t) /\ Here(t) \in Cell
  BY <1>1, <1>2, TheNode DEF Found
<1>5. Due(w) = <<ip>> /\ Here(t).newpeerip[0] = ip
  BY <1>1, <1>2, <1>3, <1>4 DEF Lists, UpdateLists, AtHead
<1>6. PICK kept : kept = [i \in Slots |-> IF i = 0 THEN Here(t).newpeerip[0] ELSE NoIp]
  OBVIOUS
<1>7. PICK cell : cell = [Here(t) EXCEPT !.newpeerip = kept]
  OBVIOUS
<1>8. Done(t) /\ Stored(t, cell)
  <2>1. Done(t) /\ Set(t, cell)
    BY <1>6, <1>7 DEF CleanList, LastStore
  <2> QED
    BY <2>1, SetStored
<1>9. cell.name = Here(t).name /\ cell.newpeerip = kept
  BY <1>4, <1>7 DEF Cell
<1>10. Holds(cell, Due(w))
  <2>1. 0 \in Slots
    BY MaxPeerNumAssumption DEF Slots
  <2>2. cell.newpeerip[0] = ip /\ \A k \in Slots : k # 0 => cell.newpeerip[k] = NoIp
    BY <1>5, <1>6, <1>9, <2>1
  <2> QED
    BY <1>5, <2>2, HoldsSole
<1>11. ListSettled(w)' /\ \A n \in Names : n # w => SameLists(n)
  BY <1>1, <1>2, <1>8, <1>9, <1>10, StoredLists DEF Found
<1> QED
  BY <1>1, <1>2, <1>4, <1>8, <1>11, ListNextEntry

LEMMA AppendNodeLists ==
  ASSUME Safe, Tidy, Lists, OneNode, NEW t \in Threads, AppendNode(t)
  PROVE  Lists'
<1> DEFINE new == Len(nodes) + 1
<1>1. /\ OthersSame(t) /\ pc[t] = "append" /\ pc'[t] \in {"sethead", "reread"}
      /\ job'[t] = job[t] /\ expected' = expected
      /\ Len(nodes') = new /\ nodes'[new] = Fresh
      /\ \A i \in 1..Len(nodes) :
           /\ nodes'[i].name = nodes[i].name /\ nodes'[i].newpeerip = nodes[i].newpeerip
           /\ nodes'[i].timestamp = nodes[i].timestamp /\ nodes'[i].size = nodes[i].size
  BY AppendNodeLemma
<1>2. Len(nodes) \in Nat /\ \A i \in 1..new : i # new => i \in 1..Len(nodes)
  BY TypesLemma
<1>3. new \in 1..new /\ new \notin 1..Len(nodes) /\ \A i \in 1..Len(nodes) : i \in 1..new
  BY <1>2
<1> HIDE DEF new
<1>4. ASSUME NEW n \in Names PROVE SameLists(n)
  <2>1. nodes'[new].name # n
    BY <1>1, NoneAssumption DEF Fresh
  <2> QED
    BY <1>1, <1>2, <1>3, <2>1 DEF SameLists, SameFile
<1>5. PICK e : e = Wanted(t)
  OBVIOUS
<1>6. PICK ip : ip = job[t].ip
  OBVIOUS
<1>7. /\ e \in Entry /\ e.name \in Names /\ Updating(t) /\ Updating(t)' /\ pc'[t] \notin Before
      /\ e = job[t].list[1] /\ Len(job[t].list) \in Nat \ {0}
  BY <1>1, <1>5, UpdateLemma DEF Updating, UpdateLabels, Before, Entry
<1>8. Due(e.name)' = <<ip>>
  <2>1. ~HasNode(e.name)
    BY <1>1, <1>5 DEF OneNode
  <2>2. ListAwaits(e, ip)
    BY <1>1, <1>6, <1>7 DEF Lists, UpdateLists, Before
  <2>3. Due(e.name) = <<ip>>
    BY <2>1, <2>2 DEF ListAwaits
  <2> QED
    BY <1>1, <2>3 DEF Due
<1>9. Holds(nodes'[Len(nodes')], <<>>)
  <2>1. nodes'[Len(nodes')] = Fresh
    BY <1>1
  <2>2. \A k \in Slots : ~(k < 0)
    BY DEF Slots
  <2>3. Holds(Fresh, <<>>)
    BY <2>2 DEF Fresh, Holds
  <2> QED
    BY <2>1, <2>3
<1>10. AtHead(t, ip, Due(e.name))'
  <2>1. Holds(nodes[Len(nodes)], <<>>)'
    BY <1>9 DEF Holds
  <2> QED
    BY <1>1, <1>8, <2>1 DEF AtHead
<1> QED
  BY <1>1, <1>4, <1>5, <1>6, <1>7, <1>10, ListSameEntry

LEMMA LinkLists ==
  ASSUME Safe, Tidy, Lists, NEW t \in Threads, SetHead(t) \/ Reread(t)
  PROVE  Lists'
<1>1. /\ OthersSame(t) /\ pc[t] \in {"sethead", "reread"} /\ pc'[t] = "name"
      /\ job'[t] = job[t] /\ UNCHANGED <<nodes, expected>>
  BY SetHeadLemma, RereadLemma, RereadNames
<1>2. PICK e : e = Wanted(t)
  OBVIOUS
<1>3. PICK ip : ip = job[t].ip
  OBVIOUS
<1>4. e \in Entry /\ Updating(t) /\ Updating(t)' /\ pc'[t] \notin Before
  BY <1>1, <1>2, UpdateLemma DEF Updating, UpdateLabels, Before
<1>5. \A n : SameLists(n)
  BY <1>1, UnchangedLists
<1>6. Due(e.name) = <<ip>> /\ Holds(nodes[Len(nodes)], <<>>)
  BY <1>1, <1>2, <1>3, <1>4 DEF Lists, UpdateLists, AtHead
<1>7. AtHead(t, ip, Due(e.name))'
  <2>1. Due(e.name)' = <<ip>> /\ Holds(nodes[Len(nodes)], <<>>)'
    BY <1>1, <1>6 DEF Due, Holds
  <2> QED
    BY <1>1, <2>1 DEF AtHead
<1> QED
  BY <1>1, <1>2, <1>3, <1>4, <1>5, <1>7, ListSameEntry

LEMMA StoreNameLists ==
  ASSUME Safe, Tidy, Lists, OneNode, NEW t \in Threads, StoreName(t)
  PROVE  Lists'
<1>1. /\ OthersSame(t) /\ pc[t] = "name" /\ pc'[t] = "fill"
      /\ job'[t] = job[t] /\ cursor'[t] = cursor[t] /\ expected' = expected
  BY StoreNameLemma
<1>2. PICK e : e = Wanted(t)
  OBVIOUS
<1>3. PICK ip : ip = job[t].ip
  OBVIOUS
<1>4. PICK cell : cell = [Here(t) EXCEPT !.name = e.name]
  OBVIOUS
<1>5. Stored(t, cell)
  BY <1>2, <1>4, StoreNameLemma
<1>6. /\ Here(t) \in Cell /\ cursor[t] \in 1..Len(nodes)
      /\ e \in Entry /\ e.name \in Names /\ Updating(t) /\ Updating(t)' /\ pc'[t] \notin Before
  BY <1>1, <1>2, HereLemma, UpdateLemma
     DEF Safe, ThreadOK, NodeLabels, Updating, UpdateLabels, Before, Entry
<1>7. cell.name = e.name /\ cell.newpeerip = Here(t).newpeerip
  BY <1>4, <1>6 DEF Cell
<1>8. Here(t).name = NoName /\ cursor[t] = Len(nodes)
  BY StoreNameNames
<1>9. ASSUME NEW n \in Names, n # e.name PROVE SameLists(n)
  <2>1. /\ Len(nodes') = Len(nodes)
        /\ \A i \in 1..Len(nodes) : nodes'[i] = IF i = cursor[t] THEN cell ELSE nodes[i]
    BY <1>5 DEF Stored
  <2>2. nodes[cursor[t]].name # n
    BY <1>8, NoneAssumption DEF Here
  <2> QED
    BY <1>1, <1>7, <1>9, <2>1, <2>2 DEF SameLists, SameFile
<1>10. Here(t)' = cell
  BY <1>1, <1>5, <1>6 DEF Here, Stored
<1>11. Due(e.name)' = <<ip>> /\ Holds(cell, <<>>)
  <2>1. Due(e.name) = <<ip>> /\ Holds(nodes[Len(nodes)], <<>>)
    BY <1>1, <1>2, <1>3, <1>6 DEF Lists, UpdateLists, AtHead
  <2>2. Holds(Here(t), <<>>)
    BY <1>8, <2>1 DEF Here
  <2> QED
    BY <1>1, <1>7, <2>1, <2>2 DEF Due, Holds
<1>12. AtHead(t, ip, Due(e.name))'
  <2>1. Holds(Here(t), <<>>)'
    BY <1>10, <1>11 DEF Holds
  <2> QED
    BY <1>1, <1>11, <2>1 DEF AtHead
<1> QED
  BY <1>1, <1>2, <1>3, <1>6, <1>9, <1>12, ListSameEntry

LEMMA FillNodeLists ==
  ASSUME Safe, Tidy, Lists, OneNode, NEW t \in Threads, FillNode(t)
  PROVE  Lists'
<1>1. /\ OthersSame(t) /\ pc[t] = "fill" /\ pc'[t] = "cut"
      /\ job'[t] = job[t] /\ cursor'[t] = cursor[t] /\ expected' = expected
  BY FillNodeLemma
<1>2. PICK e : e = Wanted(t)
  OBVIOUS
<1>3. PICK ip : ip = job[t].ip
  OBVIOUS
<1>4. /\ e \in Entry /\ e.name \in Names /\ Updating(t) /\ Updating(t)' /\ ip \in Ips
      /\ Here(t) \in Cell /\ pc'[t] \notin Before /\ pc[t] \in Found
  <2>1. pc[t] \in Found /\ Updating(t)' /\ pc'[t] \notin Before
    BY <1>1 DEF Found, Updating, UpdateLabels, Before
  <2> QED
    BY <1>2, <1>3, <2>1, TheNode, UpdateLemma DEF Updating
<1>5. PICK put : put = PutIp(Here(t), 0, ip)
  OBVIOUS
<1>6. 0 \in Slots
  BY MaxPeerNumAssumption DEF Slots
<1>7. /\ put \in Cell /\ put.name = Here(t).name
      /\ \A k \in Slots : put.newpeerip[k] = IF k = 0 THEN ip ELSE Here(t).newpeerip[k]
  BY <1>4, <1>5, <1>6, PutIpLemma, PutIpArray
<1>8. PICK cell : cell = [put EXCEPT !.size = e.size, !.timestamp = e.timestamp]
  OBVIOUS
<1>9. cell.name = Here(t).name /\ cell.newpeerip = put.newpeerip
  BY <1>7, <1>8 DEF Cell
<1>10. Stored(t, cell)
  <2>1. Set(t, cell)
    BY <1>2, <1>3, <1>5, <1>8 DEF FillNode, Store
  <2> QED
    BY <2>1, SetStored
<1>11. (\A n : n # e.name => SameLists(n)) /\ nodes'[cursor[t]] = cell
  BY <1>1, <1>2, <1>4, <1>9, <1>10, StoredLists
<1>12. Due(e.name) = <<ip>> /\ Holds(Here(t), <<>>)
  BY <1>1, <1>2, <1>3, <1>4 DEF Lists, UpdateLists, AtHead
<1>13. Holds(cell, <<ip>>)
  <2>1. \A k \in Slots : Here(t).newpeerip[k] = NoIp
    <3>1. Len(<<>>) = 0 /\ \A k \in Slots : ~(k < 0)
      BY DEF Slots
    <3> QED
      BY <1>12, <3>1 DEF Holds
  <2> QED
    BY <1>6, <1>7, <1>9, <2>1, HoldsSole
<1>14. AtHead(t, ip, Due(e.name))'
  <2>1. Here(t)' = cell /\ Due(e.name)' = <<ip>>
    BY <1>1, <1>11, <1>12 DEF Here, Due
  <2>2. Holds(Here(t), Due(e.name))'
    BY <1>13, <2>1 DEF Holds
  <2> QED
    BY <1>1, <2>2 DEF AtHead
<1> QED
  BY <1>1, <1>2, <1>3, <1>4, <1>11, <1>14, ListSameEntry

LEMMA CutTailLists ==
  ASSUME Safe, Tidy, Lists, OneNode, NEW t \in Threads, CutTail(t)
  PROVE  Lists'
<1>1. PICK cell : cell = [Here(t) EXCEPT !.next = NULL]
  OBVIOUS
<1>2. /\ OthersSame(t) /\ pc[t] = "cut" /\ Finished(t) /\ Stored(t, cell)
      /\ expected' = expected
  BY <1>1, CutTailLemma
<1>3. Done(t)
  BY DEF CutTail, LastStore
<1>4. PICK w : w = Wanted(t).name
  OBVIOUS
<1>5. w \in Names /\ Updating(t) /\ Here(t) \in Cell
  BY <1>2, <1>4, TheNode DEF Found
<1>6. cell.name = Here(t).name /\ cell.newpeerip = Here(t).newpeerip
  BY <1>1, <1>5 DEF Cell
<1>7. Holds(cell, Due(w))
  <2>1. Holds(Here(t), Due(w))
    BY <1>2, <1>4, <1>5 DEF Lists, UpdateLists, AtHead
  <2> QED
    BY <1>6, <2>1 DEF Holds
<1>8. ListSettled(w)' /\ \A n \in Names : n # w => SameLists(n)
  BY <1>2, <1>4, <1>6, <1>7, StoredLists DEF Found
<1> QED
  BY <1>2, <1>3, <1>4, <1>5, <1>8, ListNextEntry

-----------------------------------------------------------------------------
(* The lists, action by action: delete_peer.                               *)

LEMMA SameDue ==
  ASSUME expected' = expected, NEW cell, NEW ip
  PROVE  /\ Forgotten(cell, ip) => Forgotten(cell, ip)'
         /\ ToForget(cell, ip) => ToForget(cell, ip)'
BY DEF Forgotten, ToForget, Due, Holds

\* The thread is in the same call of delete_peer, and what it does to the node it is at
\* leaves the others as they are.
LEMMA DeleteFrame ==
  ASSUME Safe, Lists, NEW t \in Threads, pc[t] \in DeleteLabels, pc'[t] \in DeleteLabels,
         OthersSame(t), expected' = expected, NEW ip, ip = job[t].ip, job'[t].ip = ip,
         Len(nodes') = Len(nodes), NEW c, c \in 1..Len(nodes),
         \A i \in 1..Len(nodes) : i # c => nodes'[i] = nodes[i],
         \A i \in 1..Len(nodes) : /\ i # c /\ Past(t, i)' => Past(t, i)
                                  /\ i # c /\ Ahead(t, i)' => Ahead(t, i),
         Past(t, c)' => Forgotten(nodes[c], ip)',
         ~Ahead(t, c)',
         pc'[t] = "move" =>
           \E list \in ProperLists :
             /\ Holds(Here(t)', list) /\ expected[Here(t)'.name].newpeerip = Delist(list, ip)
             /\ counter'[t] = Len(list) /\ index'[t] < Len(list)
             /\ list[index'[t] + 1] = ip,
         pc'[t] = "clear" =>
           \E moved \in Seq(Ips) :
             /\ Holds(Here(t)', moved) /\ counter'[t] = Len(moved)
             /\ expected[Here(t)'.name].newpeerip = SubSeq(moved, 1, Len(moved) - 1)
             /\ expected[Here(t)'.name].newpeerip \in ProperLists
             /\ ip \notin Holders(expected[Here(t)'.name].newpeerip)
  PROVE  Lists'
<1>1. Alone(t) /\ DeleteLists(t)
  BY AloneLemma DEF Lists, DeleteLabels
<1>2. ASSUME NEW i \in 1..Len(nodes')
      PROVE  /\ Past(t, i)' => Forgotten(nodes[i], job[t].ip)'
             /\ Ahead(t, i)' => ToForget(nodes[i], job[t].ip)'
  <2>1. CASE i = c
    BY <2>1
  <2>2. CASE i # c
    <3>1. PICK cell : cell = nodes[i]
      OBVIOUS
    <3>2. (Past(t, i)' => Forgotten(cell, ip)) /\ (Ahead(t, i)' => ToForget(cell, ip))
      BY <1>1, <2>2, <3>1 DEF DeleteLists
    <3>3. (Past(t, i)' => Forgotten(cell, ip)') /\ (Ahead(t, i)' => ToForget(cell, ip)')
      BY <3>2, SameDue
    <3>4. nodes'[i] = cell
      BY <2>2, <3>1
    <3> QED
      BY <3>3, <3>4
  <2> QED
    BY <2>1, <2>2
<1>3. DeleteLists(t)'
  BY <1>2 DEF DeleteLists, Due, Holds
<1>4. \A n \in Names : expected'[n] # NoFile => expected'[n].newpeerip \in ProperLists
  BY DEF Lists, Due
<1>5. pc'[t] # "idle" /\ ~Updating(t)'
  BY DEF DeleteLabels, Updating, UpdateLabels
<1> QED
  BY <1>1, <1>3, <1>4, <1>5, ListsFrame

LEMMA FindPeerLists ==
  ASSUME Safe, Lists, InOrder, NEW t \in Threads, FindPeer(t)
  PROVE  Lists'
<1>1. /\ OthersSame(t) /\ pc[t] = "forget" /\ UNCHANGED <<nodes, expected>>
      /\ LocalTypes /\ TypeOK
  BY FindPeerLemma, TypesLemma DEF Safe
<1>2. Alone(t) /\ DeleteLists(t)
  BY <1>1, AloneLemma DEF Lists, DeleteLabels
<1>3. PICK ip : ip = job[t].ip
  OBVIOUS
<1>4. ip \in Ips /\ pc[t] \in DeleteLabels
  BY <1>1, <1>3, DeleteLemma DEF DeleteLabels
<1>5. \A n \in Names : expected'[n] # NoFile => expected'[n].newpeerip \in ProperLists
  BY <1>1 DEF Lists, Due
<1>6. CASE cursor[t] = NULL
  <2>1. pc'[t] = "idle"
    BY <1>6, ReturnLemma DEF FindPeer
  <2>2. ~Updating(t)' /\ pc'[t] \notin DeleteLabels
    BY <2>1 DEF Updating, UpdateLabels, DeleteLabels
  <2>3. \A n \in Names : ListSettled(n)
    BY <1>2, <1>6 DEF DeleteLists, Past, Forgotten, ListSettled
  <2>4. \A n \in Names : ListSettled(n)'
    BY <1>1, <2>3, ListSettledSame, UnchangedLists
  <2> QED
    BY <1>1, <1>2, <1>5, <2>2, <2>4, ListsFrame
<1>7. CASE cursor[t] # NULL
  <2>1. PICK c : c = cursor[t]
    OBVIOUS
  <2>2. c \in 1..Len(nodes) /\ Len(nodes) \in Nat /\ Here(t) = nodes[c]
    BY <1>1, <1>7, <2>1, HereLemma DEF Here
  <2>3. PICK cell : cell = Here(t)
    OBVIOUS
  <2>4. index[t] \in 0..MAX_PEER_NUM
    BY <1>1 DEF LocalTypes
  <2>5. index[t] = 0 => ToForget(cell, ip)
    BY <1>1, <1>2, <1>3, <1>7, <2>1, <2>2, <2>3 DEF DeleteLists, Ahead
  <2>6. index[t] # 0 => Forgotten(cell, ip)
    <3>1. index[t] # 0 => index[t] > 0
      BY <2>4
    <3> QED
      BY <1>1, <1>2, <1>3, <2>1, <2>2, <2>3, <3>1 DEF DeleteLists, Past
  <2> DEFINE found == {i \in index[t]..(FirstEmpty(cell, index[t]) - 1) :
                         cell.newpeerip[i] = ip}
  <2>7. found \subseteq Slots
    <3>1. FirstEmpty(cell, index[t]) \in index[t]..MAX_PEER_NUM
      BY <2>4, FirstEmptyLemma
    <3> QED
      BY <2>4, <3>1, MaxPeerNumAssumption DEF Slots
  <2>8. CASE found = {}
    <3>1. /\ cursor' = [cursor EXCEPT ![t] = cell.next]
          /\ index' = [index EXCEPT ![t] = 0]
          /\ UNCHANGED <<pc, job>>
      BY <1>3, <1>7, <2>3, <2>8 DEF FindPeer
    <3>2. cursor'[t] = cell.next /\ index'[t] = 0 /\ pc'[t] = "forget" /\ job'[t] = job[t]
      BY <1>1, <3>1 DEF LocalTypes
    <3>3. cell.next = IF c = Len(nodes) THEN NULL ELSE c + 1
      BY <2>2, <2>3 DEF InOrder
    <3>4. Forgotten(cell, ip)
      <4>1. CASE index[t] # 0
        BY <2>6, <4>1
      <4>2. CASE index[t] = 0
        <5>1. PICK list \in ProperLists :
                Holds(cell, list) /\ Due(cell.name) = Delist(list, ip)
          BY <2>5, <4>2 DEF ToForget
        <5>2. Len(list) \in Nat /\ FirstEmpty(cell, 0) = Len(list)
              /\ \A k \in 0..(Len(list) - 1) : cell.newpeerip[k] = list[k + 1]
          <6>1. Len(list) \in Nat /\ 0 \in 0..Len(list)
            BY DEF ProperLists
          <6> QED
            BY <5>1, <6>1, HoldsLemma
        <5>3. ASSUME NEW i \in 1..Len(list), list[i] = ip PROVE FALSE
          <6>1. i - 1 \in 0..(Len(list) - 1) /\ i - 1 + 1 = i
            BY <5>2
          <6>2. i - 1 \in found
            BY <4>2, <5>2, <5>3, <6>1
          <6> QED
            BY <2>8, <6>2
        <5>4. ip \notin Holders(list)
          BY <5>3 DEF Holders
        <5>5. Delist(list, ip) = list
          BY <1>4, <5>4, DelistLemma
        <5> QED
          BY <5>1, <5>4, <5>5 DEF Forgotten
      <4> QED
        BY <4>1, <4>2
    <3> HIDE DEF found
    <3>5. cursor'[t] = NULL \/ cursor'[t] = c + 1
      BY <3>2, <3>3
    <3>6. /\ \A i \in 1..Len(nodes) : /\ i # c /\ Past(t, i)' => Past(t, i)
                                      /\ i # c /\ Ahead(t, i)' => Ahead(t, i)
          /\ ~Ahead(t, c)'
      <4>1. ASSUME NEW i \in 1..Len(nodes), i # c, Past(t, i)' PROVE Past(t, i)
        <5>1. i < c
          BY <1>1, <2>2, <3>2, <3>3, <4>1 DEF Past, NULL
        <5> QED
          BY <2>1, <5>1 DEF Past
      <4>2. ASSUME NEW i \in 1..Len(nodes), Ahead(t, i)' PROVE i # c /\ Ahead(t, i)
        <5>1. i > c
          BY <2>2, <3>2, <3>5, <4>2 DEF Ahead
        <5> QED
          BY <1>7, <2>1, <2>2, <5>1 DEF Ahead
      <4> QED
        BY <2>2, <4>1, <4>2
    <3>7. Forgotten(nodes[c], ip)'
      <4>1. Forgotten(cell, ip)'
        BY <1>1, <3>4, SameDue
      <4> QED
        BY <1>1, <2>2, <2>3, <4>1
    <3> QED
      BY <1>1, <1>3, <1>4, <2>2, <3>2, <3>6, <3>7, DeleteFrame
  <2>9. CASE found # {}
    <3>1. PICK i : i = CHOOSE k \in found : \A j \in found : k <= j
      OBVIOUS
    <3>2. found \subseteq Nat
      BY <2>7 DEF Slots
    <3>3. i \in found
      BY <2>9, <3>1, <3>2, Smallest
    <3>4. i \in Slots /\ cell.newpeerip[i] = ip
      BY <2>7, <3>3
    <3>5. /\ index' = [index EXCEPT ![t] = i]
          /\ counter' = [counter EXCEPT ![t] = FirstEmpty(cell, i + 1)]
          /\ Goto(t, "move") /\ UNCHANGED <<cursor, job>>
      BY <1>3, <1>7, <2>3, <2>9, <3>1 DEF FindPeer
    <3> HIDE DEF found
    <3>6. index[t] = 0
      <4> SUFFICES ASSUME Forgotten(cell, ip) PROVE FALSE
        BY <2>6
      <4>1. i + 1 \in 1..Len(Due(cell.name)) /\ Due(cell.name)[i + 1] = ip
        BY <1>4, <3>4, HoldsLemma DEF Forgotten
      <4> QED
        BY <4>1 DEF Forgotten, Holders
    <3>7. PICK list \in ProperLists :
            Holds(cell, list) /\ Due(cell.name) = Delist(list, ip)
      BY <2>5, <3>6 DEF ToForget
    <3>8. i + 1 \in 1..Len(list) /\ list[i + 1] = ip
      BY <1>4, <3>4, <3>7, HoldsLemma
    <3>9. FirstEmpty(cell, i + 1) = Len(list) /\ i < Len(list)
      <4>1. i + 1 \in 0..Len(list) /\ i < Len(list)
        BY <3>4, <3>8 DEF ProperLists, Slots
      <4> QED
        BY <3>7, <4>1, HoldsLemma
    <3>10. /\ pc'[t] = "move" /\ index'[t] = i /\ counter'[t] = Len(list)
           /\ cursor'[t] = c /\ job'[t] = job[t] /\ Here(t)' = cell
      BY <1>1, <2>1, <2>3, <3>5, <3>9 DEF LocalTypes, Goto, Here
    <3>11. /\ \A k \in 1..Len(nodes) : /\ k # c /\ Past(t, k)' => Past(t, k)
                                       /\ k # c /\ Ahead(t, k)' => Ahead(t, k)
           /\ ~Ahead(t, c)' /\ ~Past(t, c)'
      BY <1>7, <2>1, <2>2, <3>10 DEF Past, Ahead
    <3>12. \E l \in ProperLists :
             /\ Holds(Here(t)', l) /\ expected[Here(t)'.name].newpeerip = Delist(l, ip)
             /\ counter'[t] = Len(l) /\ index'[t] < Len(l)
             /\ l[index'[t] + 1] = ip
      BY <3>7, <3>8, <3>9, <3>10 DEF Due
    <3>13. pc'[t] # "clear" /\ pc'[t] \in DeleteLabels
      BY <3>10 DEF DeleteLabels
    <3> QED
      BY <1>1, <1>3, <1>4, <2>2, <3>10, <3>11, <3>12, <3>13, DeleteFrame
  <2> QED
    BY <2>8, <2>9
<1> QED
  BY <1>6, <1>7

LEMMA MoveLastLists ==
  ASSUME Safe, Lists, NEW t \in Threads, MoveLast(t)
  PROVE  Lists'
<1>1. /\ OthersSame(t) /\ pc[t] = "move" /\ pc'[t] = "clear" /\ expected' = expected
      /\ LocalTypes /\ TypeOK
  BY MoveLastLemma, TypesLemma DEF Safe
<1>2. job'[t] = job[t] /\ cursor'[t] = cursor[t] /\ counter'[t] = counter[t]
  BY DEF MoveLast, frame
<1>3. DeleteLists(t) /\ pc[t] \in DeleteLabels /\ pc'[t] \in DeleteLabels
  BY <1>1 DEF Lists, DeleteLabels
<1>4. PICK ip : ip = job[t].ip
  OBVIOUS
<1>5. PICK c : c = cursor[t]
  OBVIOUS
<1>6. /\ c \in 1..Len(nodes) /\ Len(nodes) \in Nat /\ ip \in Ips /\ c # NULL
      /\ Here(t) \in Cell /\ Here(t) = nodes[c]
  BY <1>1, <1>3, <1>4, <1>5, HereLemma, DeleteLemma DEF Safe, ThreadOK, NodeLabels, Here
<1>7. PICK list \in ProperLists :
        /\ Holds(Here(t), list) /\ Due(Here(t).name) = Delist(list, ip)
        /\ counter[t] = Len(list) /\ index[t] < Len(list)
        /\ list[index[t] + 1] = ip
  BY <1>1, <1>3, <1>4 DEF DeleteLists
<1>8. /\ index[t] \in Slots /\ Len(list) \in Nat /\ list \in Seq(Ips)
      /\ index[t] + 1 \in 1..Len(list) /\ Len(list) - 1 \in 0..(Len(list) - 1)
      /\ Len(list) - 1 + 1 = Len(list)
  <2>1. index[t] \in Slots
    BY <1>1 DEF Safe, ThreadOK
  <2> QED
    BY <1>7, <2>1 DEF ProperLists, Slots
<1>9. PICK last : last = list[Len(list)]
  OBVIOUS
<1>10. Here(t).newpeerip[counter[t] - 1] = last /\ last \in Ips
  <2>1. Here(t).newpeerip[Len(list) - 1] = list[Len(list) - 1 + 1]
    BY <1>7, <1>8, HoldsLemma
  <2>2. last \in Ips
    <3>1. Len(list) \in 1..Len(list)
      BY <1>8
    <3> QED
      BY <1>8, <1>9, <3>1, ElementOfSeq
  <2> QED
    BY <1>7, <1>8, <1>9, <2>1, <2>2
<1>11. PICK moved : moved = [list EXCEPT ![index[t] + 1] = last]
  OBVIOUS
<1>12. PICK cell :
         /\ Stored(t, cell) /\ cell.name = Here(t).name /\ Holds(cell, moved)
  <2>1. CASE counter[t] - 1 > index[t]
    <3>1. PICK cell : cell = PutIp(Here(t), index[t], last)
      OBVIOUS
    <3>2. Stored(t, cell)
      BY <1>10, <2>1, <3>1, SetStored DEF MoveLast
    <3>3. cell.name = Here(t).name
      BY <1>6, <1>8, <1>10, <3>1, PutIpLemma
    <3>4. Holds(cell, moved)
      BY <1>6, <1>7, <1>8, <1>9, <1>11, <3>1, PutMoved
    <3> QED
      BY <3>2, <3>3, <3>4
  <2>2. CASE ~(counter[t] - 1 > index[t])
    <3>1. nodes' = nodes
      BY <2>2 DEF MoveLast
    <3>2. Stored(t, Here(t))
      BY <3>1 DEF Stored, Here
    <3>3. index[t] + 1 = Len(list)
      BY <1>7, <1>8, <2>2 DEF Slots
    <3>4. Holds(Here(t), moved)
      BY <1>6, <1>7, <1>8, <1>9, <1>11, <3>3, PutMoved
    <3> QED
      BY <3>2, <3>4
  <2> QED
    BY <2>1, <2>2
<1>13. /\ Len(nodes') = Len(nodes) /\ Here(t)' = cell
       /\ \A i \in 1..Len(nodes) : i # c => nodes'[i] = nodes[i]
  BY <1>2, <1>5, <1>6, <1>12 DEF Stored, Here
<1>14. /\ \A i \in 1..Len(nodes) : /\ i # c /\ Past(t, i)' => Past(t, i)
                                   /\ i # c /\ Ahead(t, i)' => Ahead(t, i)
       /\ ~Ahead(t, c)' /\ ~Past(t, c)'
  BY <1>1, <1>2, <1>5, <1>6 DEF Past, Ahead
<1>15. /\ moved \in Seq(Ips) /\ Len(moved) = Len(list)
       /\ Delist(list, ip) = SubSeq(moved, 1, Len(list) - 1)
       /\ Delist(list, ip) \in ProperLists /\ ip \notin Holders(Delist(list, ip))
  <2> PICK p : p = index[t] + 1
    OBVIOUS
  <2>1. p \in 1..Len(list) /\ list[p] = ip /\ moved = [list EXCEPT ![p] = list[Len(list)]]
    BY <1>7, <1>8, <1>9, <1>11
  <2>2. moved \in Seq(Ips) /\ Len(moved) = Len(list)
    BY <1>8, <1>9, <1>10, <1>11, ExceptSeq
  <2>3. Delist(list, ip) = SubSeq(moved, 1, Len(list) - 1)
    BY <1>6, <1>7, <2>1, DelistLemma
  <2>4. Delist(list, ip) \in ProperLists /\ ip \notin Holders(Delist(list, ip))
    BY <1>6, <1>7, DelistLemma
  <2> QED
    BY <2>2, <2>3, <2>4
<1>16. \E m \in Seq(Ips) :
         /\ Holds(Here(t)', m) /\ counter'[t] = Len(m)
         /\ expected[Here(t)'.name].newpeerip = SubSeq(m, 1, Len(m) - 1)
         /\ expected[Here(t)'.name].newpeerip \in ProperLists
         /\ ip \notin Holders(expected[Here(t)'.name].newpeerip)
  BY <1>2, <1>7, <1>12, <1>13, <1>15 DEF Due
<1> QED
  BY <1>1, <1>2, <1>3, <1>4, <1>6, <1>13, <1>14, <1>16, DeleteFrame

LEMMA ClearLastLists ==
  ASSUME Safe, Lists, NEW t \in Threads, ClearLast(t)
  PROVE  Lists'
<1>1. /\ OthersSame(t) /\ pc[t] = "clear" /\ pc'[t] = "forget" /\ expected' = expected
      /\ LocalTypes /\ TypeOK
  BY ClearLastLemma, TypesLemma DEF Safe
<1>2. job'[t] = job[t] /\ cursor'[t] = cursor[t] /\ index'[t] = index[t] + 1
  BY <1>1 DEF ClearLast, LocalTypes
<1>3. DeleteLists(t) /\ pc[t] \in DeleteLabels /\ pc'[t] \in DeleteLabels
  BY <1>1 DEF Lists, DeleteLabels
<1>4. PICK ip : ip = job[t].ip
  OBVIOUS
<1>5. PICK c : c = cursor[t]
  OBVIOUS
<1>6. /\ c \in 1..Len(nodes) /\ Len(nodes) \in Nat /\ c # NULL
      /\ Here(t) \in Cell /\ Here(t) = nodes[c]
      /\ index[t] \in Nat /\ counter[t] \in 1..MAX_PEER_NUM
  <2>1. cursor[t] # NULL /\ index[t] \in Nat /\ counter[t] > index[t] /\ counter[t] \in 0..MAX_PEER_NUM
    BY <1>1 DEF Safe, ThreadOK, NodeLabels, Slots, LocalTypes
  <2>2. counter[t] \in 1..MAX_PEER_NUM
    BY <2>1, MaxPeerNumAssumption
  <2> QED
    BY <1>1, <1>5, <2>1, <2>2, HereLemma DEF Here
<1>7. PICK due : due = Due(Here(t).name)
  OBVIOUS
<1>8. PICK moved \in Seq(Ips) :
        /\ Holds(Here(t), moved) /\ counter[t] = Len(moved)
        /\ due = SubSeq(moved, 1, Len(moved) - 1)
        /\ due \in ProperLists /\ ip \notin Holders(due)
  BY <1>1, <1>3, <1>4, <1>7 DEF DeleteLists
<1>9. PICK cell : cell = PutIp(Here(t), counter[t] - 1, NoIp)
  OBVIOUS
<1>10. Holds(cell, due)
  BY <1>6, <1>8, <1>9, PutCleared
<1>11. cell.name = Here(t).name
  BY <1>6, <1>9 DEF PutIp, Cell
<1>12. Stored(t, cell)
  BY <1>9, SetStored DEF ClearLast
<1>13. /\ Len(nodes') = Len(nodes) /\ nodes'[c] = cell
       /\ \A i \in 1..Len(nodes) : i # c => nodes'[i] = nodes[i]
  BY <1>5, <1>6, <1>12 DEF Stored
<1>14. /\ \A i \in 1..Len(nodes) : /\ i # c /\ Past(t, i)' => Past(t, i)
                                   /\ i # c /\ Ahead(t, i)' => Ahead(t, i)
       /\ ~Ahead(t, c)'
  <2>1. index'[t] # 0
    BY <1>2, <1>6
  <2> QED
    BY <1>1, <1>2, <1>5, <1>6, <2>1 DEF Past, Ahead
<1>15. Forgotten(nodes[c], ip)'
  <2>1. Forgotten(cell, ip)
    BY <1>7, <1>8, <1>10, <1>11 DEF Forgotten
  <2>2. Forgotten(cell, ip)'
    BY <1>1, <2>1, SameDue
  <2> QED
    BY <1>13, <2>2
<1> QED
  BY <1>1, <1>2, <1>3, <1>4, <1>6, <1>13, <1>14, <1>15, DeleteFrame

-----------------------------------------------------------------------------
(* The lists: the start of a call.                                         *)

\* A call that overlaps with none finds the table as the calls before have left it.
LEMMA StartLists ==
  ASSUME Safe, Tidy, VersionsInv, Lists, NEW t \in Threads, pc[t] = "idle",
         races = {}, NEW call, Overlaps(t, call) = {}
  PROVE  /\ Alone(t)
         /\ \A n \in Names : ListSettled(n) /\ Settled(n)
         /\ \A i \in 1..Len(nodes) : nodes[i] \in Cell /\ nodes[i].name \in Names
<1>1. Versions /\ OneNode
  BY DEF VersionsInv
<1>2. ASSUME NEW u \in Threads, u # t PROVE pc[u] = "idle"
  <2>1. job[u] = None
    BY <1>2 DEF Overlaps
  <2> QED
    BY <2>1 DEF Safe, ThreadOK
<1>3. \A u \in Threads : pc[u] = "idle"
  BY <1>2
<1>4. \A n \in Names : ListSettled(n)
  BY <1>3 DEF Lists
<1>5. \A n \in Names : Settled(n)
  BY <1>1, <1>3 DEF Versions, Pending, UpdateLabels
<1>6. ASSUME NEW i \in 1..Len(nodes) PROVE nodes[i] \in Cell /\ nodes[i].name \in Names
  <2>1. nodes[i] \in Cell
    <3>1. nodes \in Seq(Cell)
      BY DEF Safe, TypeOK
    <3> HIDE DEF Cell
    <3> QED
      BY <3>1, ElementOfSeq
  <2>2. nodes[i].name # NoName
    BY <1>1, <1>3 DEF OneNode, Unnamed
  <2> QED
    BY <2>1, <2>2 DEF Cell
<1> QED
  BY <1>2, <1>4, <1>5, <1>6 DEF Alone

LEMMA StartDeleteLists ==
  ASSUME Safe, Tidy, VersionsInv, Lists, races' = {},
         NEW t \in Threads, NEW ip \in Ips, StartDelete(t, ip)
  PROVE  Lists'
<1>1. /\ OthersSame(t) /\ pc[t] = "idle" /\ pc'[t] = "forget" /\ UNCHANGED nodes
      /\ LocalTypes
  BY StartDeleteLemma, TypesLemma
<1>2. /\ job'[t].ip = ip /\ cursor'[t] = head /\ index'[t] = 0
      /\ expected' = ForgetPeer(expected, ip)
      /\ races' = races \cup Overlaps(t, "delete")
  <2>1. job' = [job EXCEPT ![t] = [call |-> "delete", ip |-> ip]]
    BY DEF StartDelete
  <2>2. job'[t] = [call |-> "delete", ip |-> ip]
    BY <1>1, <2>1 DEF LocalTypes
  <2> QED
    BY <1>1, <2>2 DEF StartDelete, LocalTypes
<1>3. races = {} /\ Overlaps(t, "delete") = {}
  BY <1>2
<1>4. /\ Alone(t)
      /\ \A n \in Names : ListSettled(n) /\ Settled(n)
      /\ \A i \in 1..Len(nodes) : nodes[i] \in Cell /\ nodes[i].name \in Names
  BY <1>1, <1>3, StartLists
<1>5. ASSUME NEW n \in Names, expected[n] # NoFile
      PROVE  /\ Due(n) \in ProperLists
             /\ expected'[n].newpeerip = Delist(Due(n), ip)
             /\ expected'[n].newpeerip \in ProperLists
  <2>1. Due(n) \in ProperLists
    BY <1>5 DEF Lists
  <2>2. expected[n] \in TrackerNode
    BY <1>5 DEF Safe, TypeOK, TrackerTable
  <2>3. expected'[n] = [expected[n] EXCEPT !.newpeerip = Delist(Due(n), ip)]
    BY <1>2, <1>5 DEF ForgetPeer, Due
  <2>4. expected'[n].newpeerip = Delist(Due(n), ip)
    BY <2>2, <2>3 DEF TrackerNode
  <2> QED
    BY <2>1, <2>4, DelistLemma
<1>6. ASSUME NEW n \in Names, expected'[n] # NoFile PROVE expected'[n].newpeerip \in ProperLists
  <2>1. expected[n] # NoFile
    BY <1>2, <1>6 DEF ForgetPeer
  <2> QED
    BY <1>5, <2>1
<1>7. InOrder /\ Len(nodes) \in Nat /\ \A u \in Threads : pc[u] # "sethead"
  BY <1>1, <1>4, TypesLemma DEF Tidy, Alone
<1>8. ASSUME NEW i \in 1..Len(nodes')
      PROVE  /\ ~Past(t, i)'
             /\ ToForget(nodes[i], job[t].ip)'
  <2>1. i \in 1..Len(nodes) /\ nodes # <<>>
    BY <1>1, <1>7, EmptySeq
  <2>2. head = 1
    BY <1>7, <2>1 DEF InOrder
  <2>3. ~Past(t, i)'
    BY <1>1, <1>2, <2>1, <2>2 DEF Past, NULL
  <2>4. PICK cell : cell = nodes[i]
    OBVIOUS
  <2>5. cell.name \in Names /\ expected[cell.name] # NoFile /\ Holds(cell, Due(cell.name))
    BY <1>4, <2>1, <2>4 DEF Settled, HasNode, ListSettled
  <2>6. ToForget(cell, ip)'
    <3>1. PICK list \in ProperLists : list = Due(cell.name)
      BY <1>5, <2>5
    <3>2. Holds(cell, list) /\ expected'[cell.name].newpeerip = Delist(list, ip)
      BY <1>5, <2>5, <3>1
    <3> QED
      BY <3>2 DEF ToForget, Due, Holds
  <2> QED
    BY <1>1, <1>2, <2>3, <2>4, <2>6
<1>9. DeleteLists(t)'
  BY <1>1, <1>8 DEF DeleteLists
<1>10. ~Updating(t)' /\ pc'[t] # "idle"
  BY <1>1 DEF Updating, UpdateLabels
<1> QED
  BY <1>1, <1>4, <1>6, <1>9, <1>10, ListsFrame

LEMMA StartUpdateLists ==
  ASSUME Safe, Tidy, VersionsInv, Lists, races' = {},
         NEW t \in Threads, NEW ip \in Ips, NEW list \in Announced, StartUpdate(t, ip, list)
  PROVE  Lists'
<1>1. /\ OthersSame(t) /\ pc[t] = "idle" /\ pc'[t] = "next" /\ job'[t].list = list
      /\ UNCHANGED nodes /\ LocalTypes
  BY StartUpdateLemma, TypesLemma
<1>2. /\ job'[t].ip = ip /\ expected' = MergeTable(expected, AsTable(list), ip)
      /\ races' = races \cup Overlaps(t, "update")
  <2>1. job' = [job EXCEPT ![t] = [call |-> "update", ip |-> ip, list |-> list]]
    BY DEF StartUpdate
  <2>2. job'[t] = [call |-> "update", ip |-> ip, list |-> list]
    BY <1>1, <2>1 DEF LocalTypes
  <2> QED
    BY <2>2 DEF StartUpdate
<1>3. races = {} /\ Overlaps(t, "update") = {}
  BY <1>2
<1>4. /\ Alone(t)
      /\ \A n \in Names : ListSettled(n) /\ Settled(n)
      /\ \A i \in 1..Len(nodes) : nodes[i] \in Cell /\ nodes[i].name \in Names
  BY <1>1, <1>3, StartLists
<1>5. /\ list \in Seq(Entry) /\ Len(list) \in Nat \ {0} /\ AsTable(list) \in PeerTable
      /\ expected \in TrackerTable
  BY AsTableLemma DEF Safe, TypeOK
<1>6. ASSUME NEW n \in Names, AsTable(list)[n] = NoFile
      PROVE  expected'[n] = expected[n] /\ ListSettled(n)'
  <2>1. expected'[n] = expected[n]
    BY <1>2, <1>6 DEF MergeTable
  <2>2. SameLists(n)
    BY <1>1, <2>1 DEF SameLists, SameFile
  <2> QED
    BY <1>4, <2>1, <2>2, ListSettledSame
<1>7. ASSUME NEW n \in Names, NEW node, node = AsTable(list)[n], node # NoFile
      PROVE  /\ expected'[n] = MergeNode(expected[n], node, ip) /\ node \in PeerNode
             /\ expected[n] = NoFile => expected'[n].newpeerip = <<ip>>
             /\ expected[n] # NoFile => expected'[n].newpeerip = Merged(expected[n], Due(n), node, ip)
             /\ expected'[n].newpeerip \in ProperLists
  <2>1. expected'[n] = MergeNode(expected[n], node, ip) /\ node \in PeerNode
    BY <1>2, <1>5, <1>7 DEF MergeTable, PeerTable
  <2>2. FreshNode(node, ip).newpeerip = <<ip>>
    BY DEF FreshNode
  <2>3. expected[n] = NoFile => expected'[n].newpeerip = <<ip>>
    BY <2>1, <2>2 DEF MergeNode
  <2>4. ASSUME expected[n] # NoFile
        PROVE  /\ expected'[n].newpeerip = Merged(expected[n], Due(n), node, ip)
               /\ Due(n) \in ProperLists
    <3>1. expected[n] \in TrackerNode
      BY <1>5, <2>4 DEF TrackerTable
    <3>2. [expected[n] EXCEPT !.newpeerip = Enlist(Due(n), ip)].newpeerip = Enlist(Due(n), ip)
      BY <3>1 DEF TrackerNode
    <3>3. expected'[n] = IF Newer(node, expected[n]) THEN FreshNode(node, ip)
                         ELSE IF SameVersion(node, expected[n])
                         THEN [expected[n] EXCEPT !.newpeerip = Enlist(Due(n), ip)]
                         ELSE expected[n]
      BY <2>1, <2>4 DEF MergeNode, Due
    <3> QED
      BY <2>2, <2>4, <3>2, <3>3 DEF Merged, Due, Lists
  <2>5. <<ip>> \in ProperLists
    <3>1. <<>> \in ProperLists
      BY MaxPeerNumAssumption, EmptySeq DEF ProperLists
    <3> QED
      BY <3>1, EnlistLemma
  <2>6. expected'[n].newpeerip \in ProperLists
    BY <2>3, <2>4, <2>5, EnlistLemma DEF Merged
  <2> QED
    BY <2>1, <2>3, <2>4, <2>6
<1>8. ASSUME NEW n \in Names, expected'[n] # NoFile PROVE expected'[n].newpeerip \in ProperLists
  BY <1>6, <1>7, <1>8 DEF Lists, Due
<1>9. ASSUME NEW k \in 1..Len(list), NEW e, e = list[k] PROVE ListAwaits(e, ip)'
  <2>1. e \in Entry /\ e.name \in Names
    BY <1>5, <1>9, AsTableLemma DEF Entry
  <2>2. PICK node : node = AsTable(list)[e.name]
    OBVIOUS
  <2>3. node # NoFile /\ node.timestamp = e.timestamp /\ node.size = e.size
    BY <1>9, <2>1, <2>2, AsTableLemma DEF SameVersion
  <2>4. HasNode(e.name) <=> expected[e.name] # NoFile
    BY <1>4, <2>1 DEF Settled
  <2>5. ~HasNode(e.name)' => expected'[e.name].newpeerip = <<ip>>
    BY <1>1, <1>7, <2>1, <2>2, <2>3, <2>4 DEF HasNode
  <2>6. ASSUME NEW i \in 1..Len(nodes'), nodes'[i].name = e.name
        PROVE  \E l \in ProperLists : Holds(nodes'[i], l)
                 /\ expected'[e.name].newpeerip = Merged(nodes'[i], l, e, ip)
    <3>1. i \in 1..Len(nodes) /\ nodes'[i] = nodes[i] /\ nodes[i].name = e.name
      BY <1>1, <2>6
    <3>2. expected[e.name] # NoFile /\ SameVersion(nodes[i], expected[e.name])
          /\ Holds(nodes[i], Due(e.name))
      BY <1>4, <2>1, <3>1 DEF Settled, HasNode, ListSettled
    <3>3. Due(e.name) \in ProperLists
      BY <2>1, <3>2 DEF Lists
    <3>4. expected'[e.name].newpeerip = Merged(expected[e.name], Due(e.name), node, ip)
      BY <1>7, <2>1, <2>2, <2>3, <3>2
    <3>5. Merged(nodes[i], Due(e.name), e, ip) = Merged(expected[e.name], Due(e.name), node, ip)
      BY <2>3, <3>2 DEF Merged, SameVersion, Newer
    <3> QED
      BY <3>1, <3>2, <3>3, <3>4, <3>5
  <2> QED
    BY <2>5, <2>6 DEF ListAwaits, Due
<1>10. ASSUME NEW n \in Names, ~Pending(t, n)' PROVE ListSettled(n)'
  <2>1. ~\E i \in 1..Len(list) : list[i].name = n
    BY <1>1, <1>10 DEF Pending, UpdateLabels
  <2> QED
    BY <1>6, <2>1, AsTableLemma
<1>11. \A k \in 1..Len(list) : ListAwaits(list[k], ip)'
  <2> TAKE k \in 1..Len(list)
  <2>1. PICK e : e = list[k]
    OBVIOUS
  <2>2. ListAwaits(e, ip)'
    BY <1>9, <2>1
  <2> QED
    BY <2>1, <2>2
<1>12. UpdateLists(t)'
  <2>1. AtHead(t, job[t].ip, Due(Wanted(t).name))'
    BY <1>1 DEF AtHead
  <2>2. \A k \in 1..Len(job'[t].list) : ListAwaits(job[t].list[k], job[t].ip)'
    BY <1>1, <1>2, <1>11
  <2> QED
    BY <1>10, <2>1, <2>2 DEF UpdateLists
<1>13. pc'[t] # "idle" /\ pc'[t] \notin DeleteLabels
  BY <1>1 DEF DeleteLabels
<1> QED
  BY <1>1, <1>4, <1>8, <1>12, <1>13, ListsFrame

-----------------------------------------------------------------------------
\* In every reachable state in which no two calls have overlapped, each node has the
\* addresses that the calls so far should have made, or those that the call in
\* progress will bring there.
THEOREM ListsInvariance == Spec => []ListsInv
<1>1. Init => ListsInv
  <2> SUFFICES ASSUME Init PROVE Lists
    BY DEF ListsInv
  <2>1. \A i \in 1..Len(nodes) : FALSE
    BY EmptySeq DEF Init
  <2>2. \A t \in Threads : pc[t] = "idle"
    BY DEF Init
  <2>3. \A n \in Names : expected[n] = NoFile
    BY DEF Init
  <2>4. \A n \in Names : ListSettled(n)
    BY <2>1 DEF ListSettled
  <2> QED
    BY <2>2, <2>3, <2>4 DEF Lists, Updating, UpdateLabels, DeleteLabels
<1>2. Safe /\ NamesInv /\ VersionsInv /\ ListsInv /\ [Next]_vars => ListsInv'
  <2> SUFFICES ASSUME Safe, NamesInv, VersionsInv, ListsInv, [Next]_vars, races' = {}
               PROVE  Lists'
    BY DEF ListsInv
  <2>1. CASE UNCHANGED vars
    <3>1. /\ nodes' = nodes /\ expected' = expected /\ pc' = pc /\ job' = job /\ cursor' = cursor
          /\ index' = index /\ counter' = counter /\ races' = races
      BY <2>1 DEF vars, shared, local, frame, history
    <3>2. \A n : ListSettled(n)' <=> ListSettled(n)
      BY <3>1 DEF ListSettled, Due, Holds
    <3>3. ASSUME NEW t \in Threads PROVE UpdateLists(t)' <=> UpdateLists(t)
      <4>1. \A n : Pending(t, n)' <=> Pending(t, n)
        BY <3>1 DEF Pending
      <4>2. \A e, ip : ListAwaits(e, ip)' <=> ListAwaits(e, ip)
        BY <3>1 DEF ListAwaits, HasNode, Due, Merged, Holds
      <4>3. \A ip, due : AtHead(t, ip, due)' <=> AtHead(t, ip, due)
        BY <3>1 DEF AtHead, Here, Holds
      <4>4. Due(Wanted(t).name)' = Due(Wanted(t).name)
        BY <3>1 DEF Due, Wanted
      <4> QED
        BY <3>1, <3>2, <4>1, <4>2, <4>3, <4>4 DEF UpdateLists
    <3>4. ASSUME NEW t \in Threads PROVE DeleteLists(t)' <=> DeleteLists(t)
      BY <3>1 DEF DeleteLists, Past, Ahead, Forgotten, ToForget, Due, Here, Holds
    <3>5. Lists
      BY <3>1 DEF ListsInv
    <3> QED
      BY <3>1, <3>2, <3>3, <3>4, <3>5 DEF Lists, Updating, Due
  <2>2. CASE Next
    <3>1. Lists /\ OneNode /\ Tidy /\ InOrder
      <4>1. races = {}
        BY <2>2, RacesGrow
      <4> QED
        BY <4>1 DEF ListsInv, VersionsInv, NamesInv, Tidy
    <3>2. ASSUME NEW t \in Threads, Step(t) PROVE Lists'
      BY <3>1, <3>2, ScanLists, CompareLists, FindSlotLists, EnlistIpLists, StoreLists,
         CleanListLists, AppendNodeLists, LinkLists, StoreNameLists, FillNodeLists,
         CutTailLists, FindPeerLists, MoveLastLists, ClearLastLists DEF Step
    <3>3. ASSUME NEW t \in Threads, NEW ip \in Ips, StartDelete(t, ip) PROVE Lists'
      BY <3>1, <3>3, StartDeleteLists
    <3>4. ASSUME NEW t \in Threads, NEW ip \in Ips, NEW list \in Announced,
                 StartUpdate(t, ip, list)
          PROVE  Lists'
      BY <3>1, <3>4, StartUpdateLists
    <3> QED
      BY <2>2, <3>2, <3>3, <3>4 DEF Next, Start
  <2> QED
    BY <2>1, <2>2
<1> QED
  BY <1>1, <1>2, Safety, NamesInvariance, VersionsInvariance, PTL DEF Spec

\* Calls that do not overlap are as good as calls that are one step each: however many
\* updates and deletions there were, from however many threads, once none is in
\* progress and no two have overlapped the list is the table that MergeTable and
\* ForgetPeer give, every version and every address in its place.
THEOREM SerialCallsAreAtomic == Spec => []SerialCallsAtomic
<1>1. Safe /\ NamesInv /\ VersionsInv /\ ListsInv => SerialCallsAtomic
  <2> SUFFICES ASSUME Safe, NamesInv, VersionsInv, ListsInv, AllIdle, races = {}
               PROVE  Table = expected
    BY DEF SerialCallsAtomic
  <2>1. \A t \in Threads : pc[t] = "idle"
    BY DEF AllIdle, Safe, ThreadOK
  <2>2. Lists /\ Versions /\ InOrder
    BY DEF ListsInv, VersionsInv, NamesInv, Tidy
  <2>3. Chain = 1..Len(nodes)
    BY <2>1, <2>2, ChainLemma
  <2>4. nodes \in Seq(Cell) /\ expected \in TrackerTable
    BY DEF Safe, TypeOK
  <2>5. ASSUME NEW n \in Names PROVE Table[n] = expected[n]
    <3>1. Settled(n) /\ ListSettled(n)
      BY <2>1, <2>2 DEF Versions, Lists, Pending, UpdateLabels
    <3>2. InList(n) <=> HasNode(n)
      BY <2>3 DEF InList, HasNode
    <3>3. CASE ~HasNode(n)
      BY <3>1, <3>2, <3>3 DEF Settled, Table
    <3>4. CASE HasNode(n)
      <4>1. PICK cell : cell = nodes[CHOOSE i \in Chain : nodes[i].name = n]
        OBVIOUS
      <4>2. PICK node : node = expected[n]
        OBVIOUS
      <4>3. PICK due : due = node.newpeerip
        OBVIOUS
      <4>4. /\ node # NoFile /\ SameVersion(cell, node) /\ Holds(cell, due)
            /\ due \in ProperLists
        <5>1. PICK i \in 1..Len(nodes) : cell = nodes[i] /\ nodes[i].name = n
          BY <2>3, <3>4, <4>1 DEF HasNode
        <5>2. node # NoFile /\ SameVersion(cell, node)
          BY <3>1, <3>4, <4>2, <5>1 DEF Settled
        <5>3. Holds(cell, due)
          BY <3>1, <4>2, <4>3, <5>1 DEF ListSettled, Due
        <5>4. due \in ProperLists
          BY <2>2, <4>2, <4>3, <5>2 DEF Lists, Due
        <5> QED
          BY <5>2, <5>3, <5>4
      <4>5. node \in TrackerNode
        BY <2>4, <4>2, <4>4 DEF TrackerTable
      <4>6. PICK ips : ips = [i \in 1..FirstEmpty(cell, 0) |-> cell.newpeerip[i - 1]]
        OBVIOUS
      <4>7. Table[n] = [timestamp |-> cell.timestamp, size |-> cell.size, type |-> TheType,
                        newpeerip |-> ips]
        BY <3>2, <3>4, <4>1, <4>6 DEF Table
      <4>8. ips = due
        <5>1. due \in Seq(Ips) /\ Len(due) \in Nat
          BY <4>4 DEF ProperLists
        <5>2. /\ FirstEmpty(cell, 0) = Len(due)
              /\ \A k \in 0..(Len(due) - 1) : cell.newpeerip[k] = due[k + 1]
          <6>1. 0 \in 0..Len(due)
            BY <5>1
          <6> QED
            BY <4>4, <6>1, HoldsLemma
        <5>3. ASSUME NEW i \in 1..Len(due) PROVE cell.newpeerip[i - 1] = due[i]
          <6>1. i - 1 \in 0..(Len(due) - 1) /\ i - 1 + 1 = i
            BY <5>1
          <6> QED
            BY <5>2, <6>1
        <5>4. ips = [i \in 1..Len(due) |-> due[i]]
          BY <4>6, <5>2, <5>3
        <5>5. due \in [1..Len(due) -> Ips]
          BY <5>1
        <5> QED
          BY <5>4, <5>5
      <4>9. node.type = TheType
        BY <4>5, TypeAssumption DEF TrackerNode
      <4>10. Table[n] = [timestamp |-> node.timestamp, size |-> node.size, type |-> node.type,
                         newpeerip |-> node.newpeerip]
        BY <4>3, <4>4, <4>7, <4>8, <4>9 DEF SameVersion
      <4> QED
        BY <4>2, <4>5, <4>10 DEF TrackerNode
    <3> QED
      BY <3>3, <3>4
  <2>6. Table = [n \in Names |-> Table[n]]
    BY DEF Table
  <2>7. expected = [n \in Names |-> expected[n]]
    BY <2>4 DEF TrackerTable
  <2> QED
    BY <2>5, <2>6, <2>7
<1> QED
  BY <1>1, Safety, NamesInvariance, VersionsInvariance, ListsInvariance, PTL

=============================================================================
