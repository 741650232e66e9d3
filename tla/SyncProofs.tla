----------------------------- MODULE SyncProofs -----------------------------
(***************************************************************************)
(* Proofs about Sync: whatever the peers and their users do, the tables,   *)
(* the folders and the tracker fit together.  One inductive invariant      *)
(* carries all the properties of Sync: what holds of each peer, its files, *)
(* its events, its table and the two streams, and of the tracker's node.   *)
(***************************************************************************)
EXTENDS Sync, TLAPS

Kinds == {"create", "modify", "delete"}

Overlapped(p) == "overlap" \in mishaps[p]
Skewed(p) == "skewed" \in mishaps[p]

\* The deletion of the file is among the events.
HasDelete(queue) == \E i \in 1..Len(queue) : queue[i] = "delete"

\* The last of the events is another one.
EndsPresent(queue) == queue # <<>> /\ Last(queue) # "delete"

\* The time stamp of a node, of which there may be none, is not in the future of
\* p's clock.
NotLate(p, mine) == mine # NoFile => mine.timestamp <= clock[p]

\* A version is not newer than that of a node.
Covered(mine, theirs) == theirs # NoFile /\ ~Newer(mine, theirs)

\* The two nodes differ at most in the holders.
SameEntry(a, b) ==
  a # NoFile /\ b # NoFile /\ SameVersion(a, b) /\ a.type = b.type

-----------------------------------------------------------------------------
(* The inductive invariant.                                                *)

\* Nothing remains of a process that has ended but its files and what it has sent.
NothingRemains(p) ==
  p \notin online =>
    /\ node[p] = NoFile /\ events[p] = <<>> /\ inbox[p] = <<>>
    /\ \A k \in LoadIds : loads[p][k] = Idle
    /\ mishaps[p] = {}

\* A download thread has a node to write to, and a second one has overlapped.
LoadsHaveNode(p) ==
  \A k \in LoadIds : loads[p][k] # Idle =>
    /\ node[p] # NoFile
    /\ k > 1 => Overlapped(p)

\* A node that is being downloaded has a thread that will change its type.
NotStuck(p) ==
  TypeOf(node[p]) = "FILE_DOWNLOADING" =>
    \E k \in LoadIds : loads[p][k] # Idle /\ loads[p][k].step \in {"fetch", "open"}

\* A running peer whose clock and files are not at odds has nothing that is stamped
\* with a time that has not come for it.
StampsNotLate(p) ==
  p \in online /\ ~Skewed(p) =>
    /\ NotLate(p, node[p])
    /\ disk[p] # NoFile => disk[p].mtime <= clock[p]

\* A version on its way to a peer is one that the tracker has, or has had.
InboxKnown(p) ==
  \A i \in 1..Len(inbox[p]) : inbox[p][i] # NoFile => Covered(inbox[p][i], ft)

\* The table says that the file is in the folder, or a download has put it there.
HasFile(p) ==
  \/ node[p] # NoFile /\ node[p].type \notin {"FILE_DELETE", "FILE_DOWNLOADING"}
  \/ /\ TypeOf(node[p]) = "FILE_DOWNLOADING"
     /\ \E k \in LoadIds : loads[p][k] # Idle /\ loads[p][k].step = "open"

\* Then it is there, and no older than its node unless the clocks are at odds, or its
\* deletion will be noticed.
FileMatchesNode(p) ==
  HasFile(p) /\ ~Overlapped(p) =>
    IF disk[p] = NoFile THEN HasDelete(events[p])
    ELSE Skewed(p) \/ disk[p].mtime >= node[p].timestamp

\* Where there is a file although its node is deleted, or will be, it will be noticed.
FileNoticed(p) ==
  p \in online /\ disk[p] # NoFile
    /\ (TypeOf(node[p]) = "FILE_DELETE" \/ HasDelete(events[p]))
    => EndsPresent(events[p])

\* The tracker's version is not older than the peer's, or will not be.
VersionReaches(p) ==
  node[p] # NoFile =>
    \/ Covered(node[p], ft)
    \/ \E i \in 1..Len(outbox[p]) : Covered(node[p], outbox[p][i])
    \/ TypeOf(node[p]) = "FILE_DOWNLOAD"
    \/ HasDelete(events[p])
    \/ Overlapped(p)

\* A peer that has compared its node with the tracker's, or will announce something.
Compared(p) ==
  \/ outbox[p] # <<>>
  \/ Agrees(node[p], ft)
  \/ TypeOf(node[p]) \in {"FILE_DOWNLOAD", "FILE_DOWNLOADING"}
  \/ HasDelete(events[p]) /\ node[p] # NoFile

\* The last table on its way to the peer is the tracker's, or it is compared.
TableReaches(p) ==
  p \in online /\ ft # NoFile /\ mishaps[p] \cap {"missed", "overlap"} = {} =>
    IF inbox[p] = <<>> THEN Compared(p) ELSE SameEntry(Last(inbox[p]), ft)

\* The tracker has a newer version than mine, or p among the holders of mine.
KnownAs(p, mine) ==
  /\ ft # NoFile
  /\ \/ Newer(ft, mine)
     \/ /\ SameVersion(mine, ft)
        /\ p \in Holders(ft.newpeerip) \/ mishaps[p] \cap {"crowded", "delisted"} # {}

\* A peer that has a version of its own has announced it, or it is known.
AnnouncedOrKnown(p) ==
  TypeOf(node[p]) \in {"FILE_CREATE", "FILE_MODIFY"} =>
    \/ \E i \in 1..Len(outbox[p]) : outbox[p][i] # NoFile /\ SameVersion(node[p], outbox[p][i])
    \/ KnownAs(p, node[p])

PeerInv(p) ==
  /\ NothingRemains(p) /\ LoadsHaveNode(p) /\ NotStuck(p)
  /\ StampsNotLate(p) /\ InboxKnown(p)
  /\ FileMatchesNode(p) /\ FileNoticed(p)
  /\ VersionReaches(p) /\ TableReaches(p) /\ AnnouncedOrKnown(p)

\* The tracker's list of holders fits its array.
TrackerInv == ft # NoFile => Len(ft.newpeerip) <= MAX_PEER_NUM

IInv == TypeOK /\ TrackerInv /\ \A p \in Ips : PeerInv(p)

-----------------------------------------------------------------------------
(* Lists of holders.                                                       *)

\* Enlist adds the peer if there is room, and the list still fits.
LEMMA EnlistLemma ==
  ASSUME NEW list \in Seq(Ips), NEW ip \in Ips
  PROVE  /\ Enlist(list, ip) \in Seq(Ips)
         /\ \A q \in Holders(list) : q \in Holders(Enlist(list, ip))
         /\ Len(list) < MAX_PEER_NUM => ip \in Holders(Enlist(list, ip))
         /\ Len(list) <= MAX_PEER_NUM => Len(Enlist(list, ip)) <= MAX_PEER_NUM
<1>1. CASE ip \in Holders(list) \/ Len(list) >= MAX_PEER_NUM
  BY <1>1, MaxPeerNumAssumption DEF Enlist
<1>2. CASE ip \notin Holders(list) /\ Len(list) < MAX_PEER_NUM
  <2> DEFINE new == Append(list, ip)
  <2>1. Enlist(list, ip) = new
    BY <1>2, MaxPeerNumAssumption DEF Enlist
  <2>2. /\ new \in Seq(Ips) /\ Len(new) = Len(list) + 1
        /\ new[Len(new)] = ip /\ \A i \in 1..Len(list) : new[i] = list[i]
    OBVIOUS
  <2>3. Len(new) \in 1..Len(new) /\ 1..Len(list) \subseteq 1..Len(new)
    BY <2>2
  <2> HIDE DEF new
  <2>4. Len(new) <= MAX_PEER_NUM
    BY <2>2, <1>2, MaxPeerNumAssumption
  <2> QED BY <2>1, <2>2, <2>3, <2>4 DEF Holders
<1> QED BY <1>1, <1>2, MaxPeerNumAssumption

\* Delist keeps every other peer.
LEMMA DelistLemma ==
  ASSUME NEW list \in Seq(Ips), NEW ip \in Ips
  PROVE  /\ Delist(list, ip) \in Seq(Ips)
         /\ Len(Delist(list, ip)) <= Len(list)
         /\ \A q \in Holders(list) \ {ip} : q \in Holders(Delist(list, ip))
<1>1. CASE ip \notin Holders(list)
  BY <1>1 DEF Delist
<1>2. CASE ip \in Holders(list)
  <2> DEFINE last  == Len(list)
             index == CHOOSE i \in 1..last : list[i] = ip
             moved == [list EXCEPT ![index] = list[last]]
             new   == SubSeq(moved, 1, last - 1)
  <2>1. Delist(list, ip) = new
    BY <1>2 DEF Delist
  <2>2. last \in Nat \ {0} /\ index \in 1..last /\ list[index] = ip
    BY <1>2 DEF Holders
  <2> HIDE DEF index
  <2>3. /\ moved \in Seq(Ips) /\ Len(moved) = last
        /\ \A i \in 1..last : moved[i] = IF i = index THEN list[last] ELSE list[i]
    BY <2>2
  <2> HIDE DEF moved
  <2>4. /\ new \in Seq(Ips) /\ Len(new) = last - 1
        /\ \A i \in 1..(last - 1) : new[i] = moved[i]
    BY <2>2, <2>3
  <2> HIDE DEF new
  <2>5. ASSUME NEW i \in 1..last, list[i] # ip
        PROVE  list[i] \in Holders(new)
    <3>1. CASE i = last
      <4>1. index \in 1..(last - 1) /\ new[index] = list[i]
        BY <2>2, <2>3, <2>4, <2>5, <3>1
      <4> QED BY <2>4, <4>1 DEF Holders
    <3>2. CASE i # last
      <4>1. i \in 1..(last - 1) /\ new[i] = list[i]
        BY <2>2, <2>3, <2>4, <2>5, <3>2
      <4> QED BY <2>4, <4>1 DEF Holders
    <3> QED BY <3>1, <3>2
  <2>6. Len(new) <= Len(list)
    BY <2>2, <2>4
  <2>7. \A q \in Holders(list) \ {ip} : q \in Holders(new)
    BY <2>5 DEF Holders
  <2> QED BY <2>1, <2>4, <2>6, <2>7
<1> QED BY <1>1, <1>2

\* MergeNode gives a node of the tracker, at least as new as both, of which the
\* holders are kept while the version is; the announcing peer of the version is
\* among them if there is room.
LEMMA MergeNodeLemma ==
  ASSUME NEW mine \in TrackerNode \cup {NoFile}, NEW theirs \in PeerNode, NEW ip \in Ips,
         mine # NoFile => Len(mine.newpeerip) <= MAX_PEER_NUM,
         NEW new, new = MergeNode(mine, theirs, ip)
  PROVE  /\ new \in TrackerNode /\ new # NoFile
         /\ Len(new.newpeerip) <= MAX_PEER_NUM
         /\ ~Newer(theirs, new)
         /\ SameVersion(theirs, new) =>
              \/ ip \in Holders(new.newpeerip)
              \/ mine # NoFile /\ SameVersion(theirs, mine) /\ new.newpeerip = mine.newpeerip
                 /\ ip \notin Holders(mine.newpeerip) /\ Len(mine.newpeerip) = MAX_PEER_NUM
         /\ mine # NoFile =>
              \/ Newer(new, mine)
              \/ SameVersion(new, mine) /\ \A q \in Holders(mine.newpeerip) : q \in Holders(new.newpeerip)
         /\ new.timestamp = theirs.timestamp \/ (mine # NoFile /\ new.timestamp = mine.timestamp)
<1>0. theirs \in PeerNode /\ NoFile \notin TrackerNode
  BY NoFileAssumption
<1>1. CASE mine = NoFile \/ Newer(theirs, mine)
  <2>1. new = FreshNode(theirs, ip)
    BY <1>1 DEF MergeNode
  <2>2. new \in TrackerNode /\ new.newpeerip = <<ip>>
    BY <2>1, <1>0 DEF FreshNode, TrackerNode, PeerNode
  <2>3. Len(new.newpeerip) <= MAX_PEER_NUM /\ ip \in Holders(new.newpeerip)
    <3>1. Len(<<ip>>) = 1 /\ <<ip>>[1] = ip
      OBVIOUS
    <3> QED BY <2>2, <3>1, MaxPeerNumAssumption DEF Holders
  <2>4. new.timestamp = theirs.timestamp /\ new.size = theirs.size
    BY <2>1 DEF FreshNode
  <2>5. ~Newer(theirs, new)
    BY <2>4, <1>0 DEF Newer, PeerNode
  <2>6. mine # NoFile => Newer(new, mine)
    BY <2>4, <1>1 DEF Newer
  <2> QED BY <2>2, <2>3, <2>4, <2>5, <2>6, <1>0, <1>1
<1>2. CASE mine # NoFile /\ ~Newer(theirs, mine) /\ SameVersion(theirs, mine)
  <2>1. new = [mine EXCEPT !.newpeerip = Enlist(@, ip)]
    BY <1>2 DEF MergeNode
  <2>2. mine \in TrackerNode /\ mine.newpeerip \in Seq(Ips)
    BY <1>2 DEF TrackerNode
  <2>3. /\ new \in TrackerNode /\ new.newpeerip = Enlist(mine.newpeerip, ip)
        /\ new.timestamp = mine.timestamp /\ new.size = mine.size
    BY <2>1, <2>2, EnlistLemma DEF TrackerNode
  <2>4. Len(new.newpeerip) <= MAX_PEER_NUM
    BY <2>2, <2>3, <1>2, EnlistLemma
  <2>5. ~Newer(theirs, new) /\ SameVersion(new, mine)
    BY <2>3, <1>2 DEF Newer, SameVersion
  <2>6. \A q \in Holders(mine.newpeerip) : q \in Holders(new.newpeerip)
    BY <2>2, <2>3, EnlistLemma
  <2>7. \/ ip \in Holders(new.newpeerip)
        \/ /\ new.newpeerip = mine.newpeerip
           /\ ip \notin Holders(mine.newpeerip) /\ Len(mine.newpeerip) = MAX_PEER_NUM
    <3>1. CASE ip \in Holders(mine.newpeerip)
      BY <3>1, <2>6
    <3>2. CASE ip \notin Holders(mine.newpeerip) /\ Len(mine.newpeerip) < MAX_PEER_NUM
      BY <3>2, <2>2, <2>3, EnlistLemma
    <3>3. CASE ip \notin Holders(mine.newpeerip) /\ ~(Len(mine.newpeerip) < MAX_PEER_NUM)
      <4>1. Len(mine.newpeerip) = MAX_PEER_NUM
        BY <3>3, <1>2, <2>2, MaxPeerNumAssumption
      <4>2. Enlist(mine.newpeerip, ip) = mine.newpeerip
        BY <4>1, MaxPeerNumAssumption DEF Enlist
      <4> QED BY <3>3, <4>1, <4>2, <2>3
    <3> QED BY <3>1, <3>2, <3>3
  <2> QED BY <2>3, <2>4, <2>5, <2>6, <2>7, <1>0, <1>2
<1>3. CASE mine # NoFile /\ ~Newer(theirs, mine) /\ ~SameVersion(theirs, mine)
  <2>1. new = mine
    BY <1>3 DEF MergeNode
  <2>2. new \in TrackerNode /\ SameVersion(new, mine)
    BY <2>1, <1>3 DEF SameVersion
  <2> QED BY <2>1, <2>2, <1>0, <1>3
<1> QED BY <1>1, <1>2, <1>3
-----------------------------------------------------------------------------
(* Queues of events.                                                       *)

\* What it means to append an event.
LEMMA AppendLemma ==
  ASSUME NEW queue \in Seq(Kinds), NEW what \in Kinds, NEW new, new = Append(queue, what)
  PROVE  /\ new \in Seq(Kinds) /\ new # <<>> /\ Last(new) = what
         /\ HasDelete(new) <=> HasDelete(queue) \/ what = "delete"
<1>1. /\ new \in Seq(Kinds) /\ Len(new) = Len(queue) + 1 /\ Len(queue) \in Nat
      /\ new[Len(new)] = what /\ \A i \in 1..Len(queue) : new[i] = queue[i]
  OBVIOUS
<1>2. new # <<>> /\ Last(new) = what
  BY <1>1 DEF Last
<1>3. ASSUME HasDelete(new)
      PROVE  HasDelete(queue) \/ what = "delete"
  <2>1. PICK i \in 1..Len(new) : new[i] = "delete"
    BY <1>3 DEF HasDelete
  <2>2. i \in 1..Len(queue) \/ i = Len(new)
    BY <1>1, <2>1
  <2> QED BY <1>1, <2>1, <2>2 DEF HasDelete
<1>4. ASSUME HasDelete(queue) \/ what = "delete"
      PROVE  HasDelete(new)
  <2>1. CASE what = "delete"
    <3>1. Len(new) \in 1..Len(new)
      BY <1>1
    <3> QED BY <1>1, <2>1, <3>1 DEF HasDelete
  <2>2. CASE HasDelete(queue)
    <3>1. PICK i \in 1..Len(queue) : queue[i] = "delete"
      BY <2>2 DEF HasDelete
    <3>2. i \in 1..Len(new)
      BY <1>1, <3>1
    <3> QED BY <1>1, <3>1, <3>2 DEF HasDelete
  <2> QED BY <1>4, <2>1, <2>2
<1> QED BY <1>1, <1>2, <1>3, <1>4

\* What it means to take an event from the queue.
LEMMA TailLemma ==
  ASSUME NEW queue \in Seq(Kinds), queue # <<>>
  PROVE  /\ Head(queue) \in Kinds /\ Tail(queue) \in Seq(Kinds)
         /\ HasDelete(queue) <=> Head(queue) = "delete" \/ HasDelete(Tail(queue))
         /\ Tail(queue) # <<>> => Last(Tail(queue)) = Last(queue)
         /\ Tail(queue) = <<>> => Last(queue) = Head(queue)
         /\ ~HasDelete(<<>>)
<1> DEFINE n == Len(queue)
           rest == Tail(queue)
<1>1. n \in Nat \ {0} /\ Head(queue) = queue[1] /\ queue[1] \in Kinds
  OBVIOUS
<1>2. /\ rest \in Seq(Kinds) /\ Len(rest) = n - 1
      /\ \A i \in 1..(n - 1) : rest[i] = queue[i + 1]
  OBVIOUS
<1> HIDE DEF rest, n
<1>3. ASSUME HasDelete(queue)
      PROVE  Head(queue) = "delete" \/ HasDelete(rest)
  <2>1. PICK i \in 1..n : queue[i] = "delete"
    BY <1>3 DEF HasDelete, n
  <2>2. CASE i = 1
    BY <1>1, <2>1, <2>2
  <2>3. CASE i # 1
    <3>1. i - 1 \in 1..(n - 1) /\ rest[i - 1] = queue[i]
      BY <1>1, <1>2, <2>1, <2>3
    <3> QED BY <1>2, <2>1, <3>1 DEF HasDelete
  <2> QED BY <2>2, <2>3
<1>4. ASSUME Head(queue) = "delete" \/ HasDelete(rest)
      PROVE  HasDelete(queue)
  <2>1. CASE Head(queue) = "delete"
    <3>1. 1 \in 1..n
      BY <1>1
    <3> QED BY <1>1, <2>1, <3>1 DEF HasDelete, n
  <2>2. CASE HasDelete(rest)
    <3>1. PICK i \in 1..(n - 1) : rest[i] = "delete"
      BY <2>2, <1>2 DEF HasDelete
    <3>2. i + 1 \in 1..n /\ queue[i + 1] = "delete"
      BY <1>1, <1>2, <3>1
    <3> QED BY <3>2 DEF HasDelete, n
  <2> QED BY <1>4, <2>1, <2>2
<1>5. rest # <<>> => Last(rest) = Last(queue)
  <2>1. ASSUME rest # <<>>
        PROVE  Last(rest) = Last(queue)
    <3>1. n - 1 \in 1..(n - 1)
      BY <1>1, <1>2, <2>1
    <3>2. rest[n - 1] = queue[n]
      BY <1>1, <1>2, <3>1
    <3> QED BY <1>2, <3>2 DEF Last, n
  <2> QED BY <2>1
<1>6. rest = <<>> => Last(queue) = Head(queue)
  <2> SUFFICES ASSUME rest = <<>> PROVE Last(queue) = Head(queue)
    OBVIOUS
  <2>1. Len(<<>>) = 0
    OBVIOUS
  <2>2. n = 1
    BY <1>1, <1>2, <2>1
  <2> QED BY <1>1, <2>2 DEF Last, n
<1>7. ~HasDelete(<<>>)
  BY DEF HasDelete
<1> QED BY <1>1, <1>2, <1>3, <1>4, <1>5, <1>6, <1>7 DEF rest

\* What a step that touches p's file does to the events: a peer that runs has at
\* the end of its queue whether the file is there.
Noticed(p, what) ==
  /\ events' \in [Ips -> Seq(Kinds)]
  /\ \A q \in Ips \ {p} : events'[q] = events[q]
  /\ p \notin online => events'[p] = events[p]
  /\ p \in online =>
       /\ EndsPresent(events'[p]) <=> what # "delete"
       /\ HasDelete(events'[p]) <=> HasDelete(events[p]) \/ what = "delete"

LEMMA NoticeLemma ==
  ASSUME events \in [Ips -> Seq(Kinds)], NEW p \in Ips, NEW what \in Kinds,
         Notice(p, what) \/ NoticeOpenedAnd(p, what)
  PROVE  Noticed(p, what)
<1> DEFINE queue == events[p]
<1>1. queue \in Seq(Kinds) /\ Append(queue, what) \in Seq(Kinds)
  BY DEF Kinds
<1>2. /\ Append(queue, what) # <<>> /\ Last(Append(queue, what)) = what
      /\ HasDelete(Append(queue, what)) <=> HasDelete(queue) \/ what = "delete"
  BY <1>1, AppendLemma
<1>3. CASE p \in online /\ events' = [events EXCEPT ![p] = Append(@, what)]
  <2>1. events'[p] = Append(queue, what)
    BY <1>3
  <2> QED BY <1>1, <1>2, <1>3, <2>1 DEF Noticed, EndsPresent
<1>4. CASE p \in online /\ events' = events /\ queue # <<>> /\ Last(queue) = what
  <2>1. what = "delete" => HasDelete(queue)
    <3>1. Len(queue) \in 1..Len(queue)
      BY <1>1, <1>4
    <3> QED BY <1>4, <3>1 DEF Last, HasDelete
  <2> QED BY <1>4, <2>1 DEF Noticed, EndsPresent
<1>5. CASE p \notin online /\ events' = events
  BY <1>5 DEF Noticed
<1>6. \/ p \in online /\ events' = [events EXCEPT ![p] = Append(@, what)]
      \/ p \in online /\ events' = events /\ queue # <<>> /\ Last(queue) = what
      \/ p \notin online /\ events' = events
  BY DEF Notice, NoticeOpenedAnd
<1> QED BY <1>3, <1>4, <1>5, <1>6

-----------------------------------------------------------------------------
(* Type correctness.                                                       *)

\* Events of a save: the queue ends with one that is not a deletion.
LEMMA UserSavesLemma ==
  ASSUME events \in [Ips -> Seq(Kinds)], NEW p \in Ips, NEW size, UserSaves(p, size)
  PROVE  Noticed(p, "create")
<1> DEFINE queue == events[p]
           here  == Opened(p)
           first == Append(queue, here)
<1>1. queue \in Seq(Kinds) /\ here \in Kinds \ {"delete"} /\ "modify" \in Kinds
  BY DEF Kinds, Opened
<1>2. CASE p \notin online
  <2>1. events' = events
    BY <1>2 DEF UserSaves
  <2> QED BY <1>2, <2>1 DEF Noticed
<1>3. CASE p \in online
  <2> DEFINE skips == ~(here = "create" \/ queue = <<>> \/ Last(queue) # "modify")
             start == IF skips THEN queue ELSE first
  <2> HIDE DEF here
  <2>1. start \in Seq(Kinds) /\ EndsPresent(start) /\ (HasDelete(start) <=> HasDelete(queue))
    <3>1. CASE skips
      BY <1>1, <3>1 DEF EndsPresent
    <3>2. CASE ~skips
      <4>1. /\ first \in Seq(Kinds) /\ first # <<>> /\ Last(first) = here
            /\ HasDelete(first) <=> HasDelete(queue) \/ here = "delete"
        BY <1>1, AppendLemma
      <4> QED BY <1>1, <3>2, <4>1 DEF EndsPresent
    <3> QED BY <3>1, <3>2
  <2>2. /\ Append(start, "modify") \in Seq(Kinds) /\ EndsPresent(Append(start, "modify"))
        /\ HasDelete(Append(start, "modify")) <=> HasDelete(queue)
    <3>1. /\ Append(start, "modify") \in Seq(Kinds) /\ Append(start, "modify") # <<>>
          /\ Last(Append(start, "modify")) = "modify"
          /\ HasDelete(Append(start, "modify")) <=> HasDelete(start) \/ "modify" = "delete"
      <4> HIDE DEF start
      <4> QED BY <1>1, <2>1, AppendLemma
    <3> QED BY <2>1, <3>1 DEF EndsPresent
  <2>3. events' = [events EXCEPT ![p] = IF size > 0 THEN Append(start, "modify") ELSE start]
    <3>1. events' = [events EXCEPT ![p] =
            queue \o (IF here = "create" \/ queue = <<>> \/ Last(queue) # "modify"
                      THEN <<here>> ELSE <<>>)
                  \o (IF size > 0 THEN <<"modify">> ELSE <<>>)]
      BY <1>3 DEF UserSaves, here
    <3>2. queue \o <<here>> = first /\ queue \o <<>> = queue
      BY <1>1
    <3>3. start \o <<"modify">> = Append(start, "modify") /\ start \o <<>> = start
      <4> HIDE DEF start
      <4> QED BY <1>1, <2>1
    <3>4. queue \o (IF here = "create" \/ queue = <<>> \/ Last(queue) # "modify"
                    THEN <<here>> ELSE <<>>) = start
      BY <3>2
    <3> QED BY <3>1, <3>3, <3>4
  <2> HIDE DEF start
  <2>4. events'[p] = Append(start, "modify") \/ events'[p] = start
    BY <2>3
  <2>5. events' \in [Ips -> Seq(Kinds)] /\ \A q \in Ips \ {p} : events'[q] = events[q]
    BY <2>1, <2>2, <2>3
  <2>6. EndsPresent(events'[p]) /\ (HasDelete(events'[p]) <=> HasDelete(queue))
    BY <2>1, <2>2, <2>4
  <2> QED BY <1>3, <2>5, <2>6 DEF Noticed
<1> QED BY <1>2, <1>3

\* What the constants are.
LEMMA Constants ==
  /\ MaxTime \in Nat \ {0} /\ MaxChanges \in Nat /\ MaxStarts \in Nat /\ MaxLoads \in Nat
  /\ Sizes \subseteq Nat
  /\ "FILE_CREATE" \in FileTypes /\ "FILE_MODIFY" \in FileTypes /\ "FILE_DELETE" \in FileTypes
  /\ "FILE_DOWNLOAD" \in FileTypes /\ "FILE_DOWNLOADING" \in FileTypes
  /\ NoFile \notin File /\ Idle \notin Load /\ NoFile \notin PeerNode /\ NoFile \notin TrackerNode
BY SyncBounds, SyncValues, NoFileAssumption

LEMMA ClockType ==
  ASSUME TypeOK, NEW p \in Ips
  PROVE  clock[p] \in Nat
<1>1. clock[p] \in 1..MaxTime
  BY DEF TypeOK
<1> QED BY <1>1, Constants

LEMMA InitTypes == Init => TypeOK
<1> SUFFICES ASSUME Init PROVE TypeOK
  OBVIOUS
<1> QED BY Constants DEF Init, TypeOK

\* What a handled event does to the node, and to what the peer sends.
LEMMA HandleEventTypes ==
  ASSUME TypeOK, NEW p \in Ips, HandleEvent(p)
  PROVE  TypeOK'
<1>1. node[p] \in PeerNode \cup {NoFile} /\ disk[p] \in File \cup {NoFile} /\ clock[p] \in Nat
  BY ClockType DEF TypeOK
<1>2. events' \in [Ips -> Seq(Kinds)]
  <2>1. events[p] \in Seq(Kinds) /\ events[p] # <<>> /\ events' = [events EXCEPT ![p] = Tail(@)]
    BY DEF HandleEvent, TypeOK, Kinds
  <2>2. Tail(events[p]) \in Seq(Kinds)
    BY <2>1, TailLemma
  <2> QED BY <2>1, <2>2 DEF TypeOK, Kinds
<1>3. ASSUME NEW mine \in PeerNode, SetNode(p, mine), Announce(p, mine)
      PROVE  node' \in [Ips -> PeerNode \cup {NoFile}] /\ outbox' \in [Ips -> Seq(PeerNode \cup {NoFile})]
  BY <1>3 DEF TypeOK, SetNode, Announce
<1>4. ASSUME NEW type \in FileTypes, disk[p] # NoFile
      PROVE  Stamped(disk[p], type) \in PeerNode
  BY <1>1, <1>4, Constants DEF Stamped, PeerNode, File
<1>5. ASSUME NEW type \in FileTypes, node[p] # NoFile
      PROVE  /\ [node[p] EXCEPT !.type = type] \in PeerNode
             /\ [node[p] EXCEPT !.timestamp = clock[p], !.type = type] \in PeerNode
  BY <1>1, <1>5 DEF PeerNode
<1>6. \/ NoChange
      \/ \E mine \in PeerNode : SetNode(p, mine) /\ Announce(p, mine)
  <2>1. CASE disk[p] # NoFile /\ FileAdded(p)
    BY <2>1, <1>1, <1>4, <1>5, Constants DEF FileAdded, TypeOf, SetNode, TypeOK
  <2>2. CASE disk[p] # NoFile /\ FileModified(p)
    BY <2>2, <1>1, <1>4, <1>5, Constants DEF FileModified, TypeOf, SetNode, TypeOK
  <2>3. CASE FileDeleted(p)
    BY <2>3, <1>1, <1>5, Constants DEF FileDeleted, SetNode, TypeOK
  <2> QED BY <2>1, <2>2, <2>3 DEF HandleEvent
<1>7. node' \in [Ips -> PeerNode \cup {NoFile}] /\ outbox' \in [Ips -> Seq(PeerNode \cup {NoFile})]
  BY <1>3, <1>6 DEF NoChange, TypeOK
<1> QED BY <1>2, <1>7 DEF HandleEvent, TypeOK, Kinds, user, tracker

\* The start of a download thread.
LEMMA StartLoadTypes ==
  ASSUME TypeOK, NEW p \in Ips, NEW seek \in TrackerNode, StartLoad(p, seek)
  PROVE  /\ node' \in [Ips -> PeerNode \cup {NoFile}]
         /\ loads' \in [Ips -> [LoadIds -> Load \cup {Idle}]]
         /\ mishaps' \in [Ips -> SUBSET {"missed", "crowded", "delisted", "overlap", "skewed"}]
<1>1. PICK k \in LoadIds, ask \in Asked(seek.newpeerip) :
        /\ SetNode(p, [timestamp |-> seek.timestamp, size |-> seek.size, type |-> "FILE_DOWNLOADING"])
        /\ loads' = [loads EXCEPT ![p] =
             [j \in LoadIds |->
                IF j = k
                THEN [timestamp |-> seek.timestamp, size |-> seek.size,
                      ask |-> ask, got |-> {}, step |-> "fetch",
                      mixed |-> \E i \in LoadIds : loads[p][i] # Idle,
                      flushed |-> "nothing"]
                ELSE IF @[j] = Idle THEN Idle ELSE [@[j] EXCEPT !.mixed = TRUE]]]
        /\ mishaps' = [mishaps EXCEPT ![p] =
             @ \cup (IF k > 1 THEN {"overlap"} ELSE {})
               \cup (IF seek.timestamp > clock[p] THEN {"skewed"} ELSE {})]
  BY DEF StartLoad
<1>2. seek.timestamp \in Nat /\ seek.size \in Nat /\ seek.newpeerip \in Seq(Ips)
  BY DEF TrackerNode
<1>3. ask \subseteq Ips
  <2>1. Holders(seek.newpeerip) \subseteq Ips
    BY <1>2 DEF Holders
  <2>2. CASE Len(seek.newpeerip) > 2
    <3>1. SubSeq(seek.newpeerip, 1, Len(seek.newpeerip) - 1) \in Seq(Ips)
      BY <1>2, <2>2
    <3>2. Holders(SubSeq(seek.newpeerip, 1, Len(seek.newpeerip) - 1)) \subseteq Ips
      BY <3>1 DEF Holders
    <3> QED BY <2>1, <3>2, <1>1 DEF Asked
  <2>3. CASE ~(Len(seek.newpeerip) > 2)
    BY <2>1, <2>3, <1>1 DEF Asked
  <2> QED BY <2>2, <2>3
<1>4. node' \in [Ips -> PeerNode \cup {NoFile}]
  BY <1>1, <1>2, Constants DEF SetNode, PeerNode, TypeOK
<1>5. ASSUME NEW mixed \in BOOLEAN
      PROVE  [timestamp |-> seek.timestamp, size |-> seek.size, ask |-> ask, got |-> {},
              step |-> "fetch", mixed |-> mixed, flushed |-> "nothing"] \in Load
  BY <1>2, <1>3 DEF Load
<1>6. ASSUME NEW load \in Load
      PROVE  [load EXCEPT !.mixed = TRUE] \in Load
  BY DEF Load
<1>7. loads' \in [Ips -> [LoadIds -> Load \cup {Idle}]]
  <2> DEFINE here == [j \in LoadIds |->
                IF j = k
                THEN [timestamp |-> seek.timestamp, size |-> seek.size,
                      ask |-> ask, got |-> {}, step |-> "fetch",
                      mixed |-> \E i \in LoadIds : loads[p][i] # Idle,
                      flushed |-> "nothing"]
                ELSE IF loads[p][j] = Idle THEN Idle ELSE [loads[p][j] EXCEPT !.mixed = TRUE]]
  <2>1. loads \in [Ips -> [LoadIds -> Load \cup {Idle}]]
    BY DEF TypeOK
  <2>2. here \in [LoadIds -> Load \cup {Idle}]
    BY <2>1, <1>5, <1>6
  <2>3. loads' = [loads EXCEPT ![p] = here]
    BY <1>1
  <2> HIDE DEF here
  <2> QED BY <2>1, <2>2, <2>3
<1>8. mishaps' \in [Ips -> SUBSET {"missed", "crowded", "delisted", "overlap", "skewed"}]
  BY <1>1 DEF TypeOK
<1> QED BY <1>4, <1>7, <1>8

LEMMA CompareNodeTypes ==
  ASSUME TypeOK, NEW p \in Ips, CompareNode(p)
  PROVE  TypeOK'
<1>1. inbox' \in [Ips -> Seq(TrackerNode \cup {NoFile})] /\ Head(inbox[p]) \in TrackerNode \cup {NoFile}
  BY DEF CompareNode, TypeOK
<1>2. CASE WantsDownload(node[p], Head(inbox[p])) /\ StartLoad(p, Head(inbox[p])) /\ UNCHANGED <<disk, events>>
  <2>1. Head(inbox[p]) \in TrackerNode
    BY <1>1, <1>2 DEF WantsDownload
  <2> QED BY <1>1, <1>2, <2>1, StartLoadTypes DEF CompareNode, TypeOK, user, tracker
<1>3. CASE /\ WantsDelete(node[p], Head(inbox[p]))
           /\ SetNode(p, [node[p] EXCEPT !.type = "FILE_DELETE"])
           /\ RemoveFile(p)
           /\ UNCHANGED <<loads, mishaps>>
  <2>1. node' \in [Ips -> PeerNode \cup {NoFile}]
    <3>1. node \in [Ips -> PeerNode \cup {NoFile}] /\ node[p] # NoFile
      BY <1>3 DEF WantsDelete, TypeOK
    <3>2. [node[p] EXCEPT !.type = "FILE_DELETE"] \in PeerNode
      BY <3>1, Constants DEF PeerNode
    <3> QED BY <1>3, <3>1, <3>2 DEF SetNode
  <2>2. disk' \in [Ips -> File \cup {NoFile}] /\ events' \in [Ips -> Seq(Kinds)]
    <3>1. events \in [Ips -> Seq(Kinds)]
      BY DEF TypeOK, Kinds
    <3>2. CASE UNCHANGED <<disk, events>>
      BY <3>1, <3>2 DEF TypeOK
    <3>3. CASE disk' = [disk EXCEPT ![p] = NoFile] /\ Notice(p, "delete")
      <4>1. Noticed(p, "delete")
        BY <3>1, <3>3, NoticeLemma DEF Kinds
      <4> QED BY <3>3, <4>1 DEF Noticed, TypeOK
    <3> QED BY <1>3, <3>2, <3>3 DEF RemoveFile
  <2> QED BY <1>1, <1>3, <2>1, <2>2 DEF CompareNode, TypeOK, Kinds, user, tracker
<1>4. CASE UNCHANGED <<node, disk, events, loads, mishaps>>
  BY <1>1, <1>4 DEF CompareNode, TypeOK, user, tracker
<1> QED BY <1>2, <1>3, <1>4 DEF CompareNode

\* What a download thread assembles can be in a file.
LEMMA AssembledType ==
  ASSUME NEW load \in Load
  PROVE  Assembled(load) \in Data /\ (Assembled(load).size > 0 => Assembled(load).size - 1 \in Nat)
<1>1. load.got \subseteq Data /\ load.size \in Nat
  BY DEF Load
<1>2. Garbled \in Contents
  BY Constants DEF Garbled, Contents
<1>3. ASSUME NEW d \in load.got, load.got = {d}
      PROVE  (CHOOSE e \in load.got : TRUE).content \in Contents
  BY <1>1, <1>3 DEF Data
<1>4. CASE load.got = {}
  BY <1>2, <1>4 DEF Assembled, Data
<1>5. CASE load.got # {}
  BY <1>1, <1>2, <1>3, <1>5 DEF Assembled, Data
<1>6. Assembled(load) \in Data
  BY <1>4, <1>5
<1> QED BY <1>6 DEF Data

\* The file in p's folder is written, and the monitor will notice.
LEMMA WriteTypes ==
  ASSUME TypeOK, NEW p \in Ips, NEW file \in File \cup {NoFile}, NEW what \in Kinds,
         disk' = [disk EXCEPT ![p] = file], Notice(p, what) \/ NoticeOpenedAnd(p, what)
  PROVE  /\ disk' \in [Ips -> File \cup {NoFile}]
         /\ events' \in [Ips -> Seq({"create", "modify", "delete"})]
<1>1. events \in [Ips -> Seq(Kinds)]
  BY DEF TypeOK, Kinds
<1>2. Noticed(p, what)
  BY <1>1, NoticeLemma
<1> QED BY <1>2 DEF Noticed, Kinds, TypeOK

LEMMA DownloadTypes ==
  ASSUME TypeOK, NEW p \in Ips, LoadsHaveNode(p), NEW k \in LoadIds,
         \/ \E h \in Ips : Fetch(p, k, h)
         \/ OpenFile(p, k) \/ SetNodeType(p, k) \/ CloseFile(p, k)
         \/ \E part \in Flushes : Flush(p, k, part)
  PROVE  TypeOK'
<1> DEFINE load == loads[p][k]
<1>1. load \in Load /\ load # Idle
  <2>1. load # Idle
    BY DEF Fetch, Fetching, OpenFile, SetNodeType, CloseFile, Flush
  <2>2. load \in Load \cup {Idle}
    BY DEF TypeOK
  <2> QED BY <2>1, <2>2
<1>2. clock[p] \in 1..MaxTime /\ Garbled \in Contents
  BY Constants DEF TypeOK, Garbled, Contents
<1>3. ASSUME NEW new \in Load \cup {Idle}, SetLoad(p, k, new)
      PROVE  loads' \in [Ips -> [LoadIds -> Load \cup {Idle}]]
  BY <1>3 DEF SetLoad, TypeOK
<1>4. ASSUME NEW h \in Ips, Fetch(p, k, h)
      PROVE  TypeOK'
  <2> DEFINE data == [content |-> disk[h].content, size |-> disk[h].size]
  <2>1. data \in Data
    BY <1>4 DEF Fetch, TypeOK, File, Data
  <2>2. [load EXCEPT !.ask = @ \ {h}, !.got = @ \cup {data}] \in Load
    BY <1>1, <2>1 DEF Load
  <2>3. loads' \in [Ips -> [LoadIds -> Load \cup {Idle}]]
    BY <1>3, <1>4, <2>2 DEF Fetch
  <2> QED BY <1>4, <2>3 DEF Fetch, TypeOK, user, tracker
<1>5. CASE OpenFile(p, k)
  <2>1. [load EXCEPT !.step = "open"] \in Load
    BY <1>1 DEF Load
  <2>2. loads' \in [Ips -> [LoadIds -> Load \cup {Idle}]]
    BY <1>3, <1>5, <2>1 DEF OpenFile
  <2>3. [content |-> Garbled, size |-> 0, mtime |-> clock[p]] \in File
    BY <1>2 DEF File
  <2>4. Opened(p) \in Kinds
    BY DEF Opened, Kinds
  <2>5. /\ disk' \in [Ips -> File \cup {NoFile}]
        /\ events' \in [Ips -> Seq({"create", "modify", "delete"})]
    BY <1>5, <2>3, <2>4, WriteTypes DEF OpenFile
  <2> QED BY <1>5, <2>2, <2>5 DEF OpenFile, TypeOK, user, tracker
<1>6. CASE SetNodeType(p, k)
  <2>1. [load EXCEPT !.step = "typed"] \in Load
    BY <1>1 DEF Load
  <2>2. loads' \in [Ips -> [LoadIds -> Load \cup {Idle}]]
    BY <1>3, <1>6, <2>1 DEF SetNodeType
  <2>3. node[p] \in PeerNode /\ load.size \in Nat
    BY <1>1 DEF LoadsHaveNode, TypeOK, Load
  <2>4. [node[p] EXCEPT !.type = "FILE_DOWNLOAD", !.size = load.size] \in PeerNode
    BY <2>3, Constants DEF PeerNode
  <2>5. node' \in [Ips -> PeerNode \cup {NoFile}]
    BY <1>6, <2>4 DEF SetNodeType, SetNode, TypeOK
  <2>6. mishaps' \in [Ips -> SUBSET {"missed", "crowded", "delisted", "overlap", "skewed"}]
    BY <1>6 DEF SetNodeType, TypeOK
  <2> QED BY <1>6, <2>2, <2>5, <2>6 DEF SetNodeType, TypeOK, user, tracker
<1>7. CASE CloseFile(p, k)
  <2> DEFINE data == Assembled(load)
  <2>1. loads' \in [Ips -> [LoadIds -> Load \cup {Idle}]]
    BY <1>3, <1>7 DEF CloseFile
  <2>2. [content |-> data.content, size |-> data.size, mtime |-> clock[p]] \in File
    BY <1>1, <1>2, AssembledType DEF File, Data
  <2>3. "modify" \in Kinds
    BY DEF Kinds
  <2>4. \/ UNCHANGED <<disk, events>>
        \/ /\ disk' = [disk EXCEPT ![p] = [content |-> data.content, size |-> data.size, mtime |-> clock[p]]]
           /\ NoticeOpenedAnd(p, "modify") \/ Notice(p, "modify")
    BY <1>7 DEF CloseFile
  <2>5. /\ disk' \in [Ips -> File \cup {NoFile}]
        /\ events' \in [Ips -> Seq({"create", "modify", "delete"})]
    BY <2>2, <2>3, <2>4, WriteTypes DEF TypeOK
  <2> QED BY <1>7, <2>1, <2>5 DEF CloseFile, TypeOK, user, tracker
<1>8. ASSUME NEW part \in Flushes, Flush(p, k, part)
      PROVE  TypeOK'
  <2> DEFINE data == Assembled(load)
             file == [content |-> IF part = "all" THEN data.content ELSE Garbled,
                      size |-> IF part = "all" THEN data.size ELSE data.size - 1,
                      mtime |-> clock[p]]
  <2>1. data \in Data /\ data.size - 1 \in Nat
    BY <1>1, <1>8, AssembledType DEF Flush
  <2>2. file \in File
    BY <1>2, <2>1 DEF File, Data
  <2>3. [load EXCEPT !.flushed = part] \in Load
    BY <1>1, SyncBounds DEF Load
  <2>4. loads' \in [Ips -> [LoadIds -> Load \cup {Idle}]]
    BY <1>3, <1>8, <2>3 DEF Flush
  <2>5. "modify" \in Kinds /\ disk' = [disk EXCEPT ![p] = file] /\ NoticeOpenedAnd(p, "modify")
    BY <1>8 DEF Flush, Kinds
  <2>6. /\ disk' \in [Ips -> File \cup {NoFile}]
        /\ events' \in [Ips -> Seq({"create", "modify", "delete"})]
    BY <2>2, <2>5, WriteTypes
  <2> QED BY <1>8, <2>4, <2>6 DEF Flush, TypeOK, user, tracker
<1> QED BY <1>4, <1>5, <1>6, <1>7, <1>8

\* The user, the clocks, and the starts and ends of peers.
LEMMA UserTypes ==
  ASSUME TypeOK, NEW p \in Ips,
         \/ Tick(p) \/ SetBack(p) \/ \E time \in 1..MaxTime : UserStamps(p, time)
         \/ \E size \in Sizes : UserSaves(p, size)
         \/ UserDeletes(p) \/ OtherFileChanges(p) \/ Start(p) \/ Die(p)
  PROVE  TypeOK'
<1>1. CASE Tick(p) \/ SetBack(p)
  <2>1. clock \in [Ips -> 1..MaxTime] /\ clock[p] \in 1..MaxTime /\ MaxTime \in Nat
    BY Constants DEF TypeOK
  <2>5. PICK time \in 1..MaxTime : clock' = [clock EXCEPT ![p] = time]
    <3>1. CASE Tick(p)
      <4>1. clock[p] + 1 \in 1..MaxTime
        BY <2>1, <3>1 DEF Tick
      <4> QED BY <3>1, <4>1 DEF Tick
    <3>2. CASE SetBack(p)
      <4>1. clock[p] - 1 \in 1..MaxTime
        BY <2>1, <3>2 DEF SetBack
      <4> QED BY <3>2, <4>1 DEF SetBack
    <3> QED BY <1>1, <3>1, <3>2
  <2>2. clock' \in [Ips -> 1..MaxTime]
    BY <2>1, <2>5
  <2>3. changes' \in 0..MaxChanges
    BY <1>1, Constants DEF Tick, SetBack, TypeOK
  <2>4. mishaps' \in [Ips -> SUBSET {"missed", "crowded", "delisted", "overlap", "skewed"}]
    <3>1. mishaps' = mishaps \/ mishaps' = [mishaps EXCEPT ![p] =
            IF p \in online THEN @ \cup {"skewed"} ELSE @]
      BY <1>1 DEF Tick, SetBack
    <3>2. CASE mishaps' = mishaps
      BY <3>2 DEF TypeOK
    <3>3. CASE mishaps' = [mishaps EXCEPT ![p] = IF p \in online THEN @ \cup {"skewed"} ELSE @]
      BY <3>3 DEF TypeOK
    <3> QED BY <3>1, <3>2, <3>3
  <2> QED BY <1>1, <2>2, <2>3, <2>4 DEF Tick, SetBack, TypeOK, tracker
<1>7. ASSUME NEW time \in 1..MaxTime, UserStamps(p, time)
      PROVE  TypeOK'
  <2>1. disk[p] \in File /\ [disk[p] EXCEPT !.mtime = time] \in File
    BY <1>7 DEF UserStamps, TypeOK, File
  <2>2. disk' \in [Ips -> File \cup {NoFile}]
    BY <1>7, <2>1 DEF UserStamps, TypeOK
  <2>3. changes' \in 0..MaxChanges
    BY <1>7, Constants DEF UserStamps, TypeOK
  <2>4. mishaps' \in [Ips -> SUBSET {"missed", "crowded", "delisted", "overlap", "skewed"}]
    BY <1>7 DEF UserStamps, TypeOK
  <2> QED BY <1>7, <2>2, <2>3, <2>4 DEF UserStamps, TypeOK, tracker
<1>2. ASSUME NEW size \in Sizes, UserSaves(p, size)
      PROVE  TypeOK'
  <2>1. events \in [Ips -> Seq(Kinds)]
    BY DEF TypeOK, Kinds
  <2>2. Noticed(p, "create")
    BY <2>1, <1>2, UserSavesLemma
  <2>3. events' \in [Ips -> Seq({"create", "modify", "delete"})]
    BY <2>2 DEF Noticed, Kinds
  <2>4. changes' \in 0..MaxChanges /\ size \in Nat
    BY <1>2, Constants DEF UserSaves, TypeOK
  <2>5. [content |-> changes', size |-> size, mtime |-> clock[p]] \in File
    BY <2>4 DEF File, Contents, TypeOK
  <2>6. disk' \in [Ips -> File \cup {NoFile}]
    BY <1>2, <2>5 DEF UserSaves, TypeOK
  <2> QED BY <1>2, <2>3, <2>4, <2>6 DEF UserSaves, TypeOK, tracker
<1>3. CASE UserDeletes(p)
  <2>1. "delete" \in Kinds /\ disk' = [disk EXCEPT ![p] = NoFile] /\ Notice(p, "delete")
    BY <1>3 DEF UserDeletes, Kinds
  <2>2. /\ disk' \in [Ips -> File \cup {NoFile}]
        /\ events' \in [Ips -> Seq({"create", "modify", "delete"})]
    BY <2>1, WriteTypes
  <2> QED BY <1>3, <2>2, Constants DEF UserDeletes, TypeOK, tracker
<1>4. CASE OtherFileChanges(p)
  <2>1. outbox' \in [Ips -> Seq(PeerNode \cup {NoFile})]
    BY <1>4 DEF OtherFileChanges, Announce, TypeOK
  <2> QED BY <1>4, <2>1, Constants DEF OtherFileChanges, TypeOK, tracker
<1>5. CASE Start(p)
  <2>1. inbox' \in [Ips -> Seq(TrackerNode \cup {NoFile})]
    BY <1>5 DEF Start, TypeOK
  <2>2. starts' \in 0..MaxStarts /\ online' \subseteq Ips
    BY <1>5, Constants DEF Start, TypeOK
  <2>3. mishaps' \in [Ips -> SUBSET {"missed", "crowded", "delisted", "overlap", "skewed"}]
    BY <1>5 DEF Start, TypeOK
  <2> QED BY <1>5, <2>1, <2>2, <2>3 DEF Start, TypeOK, tracker
<1>6. CASE Die(p)
  <2>1. loads' \in [Ips -> [LoadIds -> Load \cup {Idle}]]
    BY <1>6 DEF Die, TypeOK
  <2>2. inbox' \in [Ips -> Seq(TrackerNode \cup {NoFile})] /\ events' \in [Ips -> Seq({"create", "modify", "delete"})]
    BY <1>6 DEF Die, TypeOK
  <2>3. node' \in [Ips -> PeerNode \cup {NoFile}] /\ online' \subseteq Ips /\ ended' \subseteq Ips
    BY <1>6 DEF Die, TypeOK
  <2>4. mishaps' \in [Ips -> SUBSET {"missed", "crowded", "delisted", "overlap", "skewed"}]
    BY <1>6 DEF Die, TypeOK
  <2> QED BY <1>6, <2>1, <2>2, <2>3, <2>4 DEF Die, TypeOK, user
<1> QED BY <1>1, <1>2, <1>3, <1>4, <1>5, <1>6, <1>7

\* What the tracker merges.
LEMMA MergeTypes ==
  ASSUME TypeOK, TrackerInv, NEW p \in Ips, NEW theirs \in PeerNode \cup {NoFile},
         ft' = IF theirs = NoFile THEN ft ELSE MergeNode(ft, theirs, p)
  PROVE  /\ ft' \in TrackerNode \cup {NoFile}
         /\ ft' # NoFile => Len(ft'.newpeerip) <= MAX_PEER_NUM
<1>1. CASE theirs = NoFile
  BY <1>1 DEF TypeOK, TrackerInv
<1>2. CASE theirs # NoFile
  <2>1. theirs \in PeerNode /\ ft \in TrackerNode \cup {NoFile} /\ ft' = MergeNode(ft, theirs, p)
    BY <1>2 DEF TypeOK
  <2> QED BY <2>1, MergeNodeLemma DEF TrackerInv
<1> QED BY <1>1, <1>2

\* What the end of a session leaves.
LEMMA DelistTypes ==
  ASSUME TypeOK, TrackerInv, NEW p \in Ips,
         ft' = IF ft = NoFile THEN NoFile ELSE [ft EXCEPT !.newpeerip = Delist(@, p)]
  PROVE  /\ ft' \in TrackerNode \cup {NoFile}
         /\ ft = NoFile <=> ft' = NoFile
         /\ ft # NoFile =>
              /\ ft'.timestamp = ft.timestamp /\ ft'.size = ft.size /\ ft'.type = ft.type
              /\ Len(ft'.newpeerip) <= MAX_PEER_NUM
              /\ \A q \in Holders(ft.newpeerip) \ {p} : q \in Holders(ft'.newpeerip)
<1>1. CASE ft = NoFile
  BY <1>1
<1>2. CASE ft # NoFile
  <2>1. ft \in TrackerNode /\ ft.newpeerip \in Seq(Ips) /\ Len(ft.newpeerip) <= MAX_PEER_NUM
    BY <1>2 DEF TypeOK, TrackerInv, TrackerNode
  <2>2. /\ Delist(ft.newpeerip, p) \in Seq(Ips)
        /\ Len(Delist(ft.newpeerip, p)) <= Len(ft.newpeerip)
        /\ \A q \in Holders(ft.newpeerip) \ {p} : q \in Holders(Delist(ft.newpeerip, p))
    BY <2>1, DelistLemma
  <2>3. Len(Delist(ft.newpeerip, p)) <= MAX_PEER_NUM
    BY <2>1, <2>2, MaxPeerNumAssumption
  <2>4. /\ ft' \in TrackerNode /\ ft'.newpeerip = Delist(ft.newpeerip, p)
        /\ ft'.timestamp = ft.timestamp /\ ft'.size = ft.size /\ ft'.type = ft.type
    BY <1>2, <2>1, <2>2 DEF TrackerNode
  <2> QED BY <1>2, <2>2, <2>3, <2>4, Constants
<1> QED BY <1>1, <1>2

LEMMA TrackerTypes ==
  ASSUME TypeOK, TrackerInv, NEW p \in Ips, RecvUpdate(p) \/ SessionEnds(p)
  PROVE  TypeOK'
<1> DEFINE Mishaps == SUBSET {"missed", "crowded", "delisted", "overlap", "skewed"}
<1>1. CASE RecvUpdate(p)
  <2>1. outbox' \in [Ips -> Seq(PeerNode \cup {NoFile})] /\ Head(outbox[p]) \in PeerNode \cup {NoFile}
    BY <1>1 DEF RecvUpdate, TypeOK
  <2>2. ft' \in TrackerNode \cup {NoFile}
    BY <1>1, <2>1, MergeTypes DEF RecvUpdate
  <2>3. PICK reached \in SUBSET online :
          /\ inbox' = [q \in Ips |-> IF q \in reached THEN Append(inbox[q], ft') ELSE inbox[q]]
          /\ mishaps' = [q \in Ips |->
               (IF q = p THEN MishapsOfMerge(p, Head(outbox[p])) ELSE mishaps[q]) \cup
               (IF q \in online \ reached THEN {"missed"} ELSE {})]
    BY <1>1 DEF RecvUpdate
  <2>4. inbox' \in [Ips -> Seq(TrackerNode \cup {NoFile})]
    BY <2>2, <2>3 DEF TypeOK
  <2>5. MishapsOfMerge(p, Head(outbox[p])) \in Mishaps
    BY DEF MishapsOfMerge, TypeOK
  <2>6. mishaps' \in [Ips -> Mishaps]
    BY <2>3, <2>5 DEF TypeOK
  <2> QED BY <1>1, <2>1, <2>2, <2>4, <2>6 DEF RecvUpdate, TypeOK, user
<1>2. CASE SessionEnds(p)
  <2>1. ft' \in TrackerNode \cup {NoFile}
    BY <1>2, DelistTypes DEF SessionEnds
  <2>2. ended' \subseteq Ips /\ mishaps' \in [Ips -> Mishaps]
    BY <1>2 DEF SessionEnds, TypeOK
  <2> QED BY <1>2, <2>1, <2>2 DEF SessionEnds, TypeOK, user
<1> QED BY <1>1, <1>2

-----------------------------------------------------------------------------
(* Steps that leave a peer alone.                                          *)

Same(q) ==
  /\ q \in online' <=> q \in online
  /\ node'[q] = node[q] /\ disk'[q] = disk[q] /\ events'[q] = events[q]
  /\ loads'[q] = loads[q] /\ inbox'[q] = inbox[q] /\ outbox'[q] = outbox[q]
  /\ mishaps'[q] = mishaps[q] /\ clock'[q] = clock[q]

LEMMA SameLemma ==
  ASSUME NEW q \in Ips, PeerInv(q), Same(q), ft' = ft
  PROVE  PeerInv(q)'
<1>2. NothingRemains(q)' /\ LoadsHaveNode(q)' /\ NotStuck(q)' /\ InboxKnown(q)'
  BY DEF PeerInv, Same, NothingRemains, LoadsHaveNode, NotStuck, InboxKnown, Overlapped, Covered
<1>3. StampsNotLate(q)'
  BY DEF PeerInv, Same, StampsNotLate, NotLate, Skewed
<1>4. FileMatchesNode(q)' /\ FileNoticed(q)'
  BY DEF PeerInv, Same, FileMatchesNode, FileNoticed, HasFile, Overlapped, Skewed
<1>5. VersionReaches(q)'
  BY DEF PeerInv, Same, VersionReaches, Covered, Overlapped
<1>6. TableReaches(q)'
  BY DEF PeerInv, Same, TableReaches, Compared, SameEntry
<1>7. AnnouncedOrKnown(q)'
  BY DEF PeerInv, Same, AnnouncedOrKnown, KnownAs
<1> QED BY <1>2, <1>3, <1>4, <1>5, <1>6, <1>7 DEF PeerInv

\* A step of one peer.
LEMMA PeerStep ==
  ASSUME IInv, TypeOK', NEW p \in Ips, ft' = ft,
         \A q \in Ips \ {p} : Same(q), PeerInv(p)'
  PROVE  IInv'
<1>1. TrackerInv'
  BY DEF IInv, TrackerInv
<1>2. ASSUME NEW q \in Ips
      PROVE  PeerInv(q)'
  BY SameLemma DEF IInv
<1> QED BY <1>1, <1>2 DEF IInv

\* The clock of p's host is changed, or the mtime of its file.
LEMMA HostStep ==
  ASSUME IInv, TypeOK', NEW p \in Ips,
         Tick(p) \/ SetBack(p) \/ \E time \in 1..MaxTime : UserStamps(p, time)
  PROVE  IInv'
<1>1. TypeOK /\ PeerInv(p) /\ clock[p] \in Nat
  BY ClockType DEF IInv
<1>2. /\ ft' = ft /\ online' = online /\ node' = node /\ events' = events
      /\ loads' = loads /\ inbox' = inbox /\ outbox' = outbox
  BY DEF Tick, SetBack, UserStamps, tracker
<1>3. \A q \in Ips \ {p} : Same(q)
  <2>1. \A q \in Ips \ {p} : clock'[q] = clock[q] /\ disk'[q] = disk[q] /\ mishaps'[q] = mishaps[q]
    BY <1>1 DEF Tick, SetBack, UserStamps, TypeOK
  <2> QED BY <1>2, <2>1 DEF Same
<1>4. /\ mishaps[p] \subseteq mishaps'[p] /\ mishaps'[p] \subseteq mishaps[p] \cup {"skewed"}
      /\ p \notin online => mishaps'[p] = mishaps[p]
  BY <1>1 DEF Tick, SetBack, UserStamps, TypeOK
<1>5. \/ Skewed(p)' \/ p \notin online
      \/ clock'[p] = clock[p] + 1 /\ disk'[p] = disk[p] /\ mishaps'[p] = mishaps[p]
  <2>1. CASE Tick(p)
    BY <1>1, <2>1 DEF Tick, TypeOK
  <2>2. CASE SetBack(p) \/ \E time \in 1..MaxTime : UserStamps(p, time)
    <3>1. mishaps' = [mishaps EXCEPT ![p] = IF p \in online THEN @ \cup {"skewed"} ELSE @]
      BY <2>2 DEF SetBack, UserStamps
    <3> QED BY <1>1, <3>1 DEF TypeOK, Skewed
  <2> QED BY <2>1, <2>2
<1>6. disk'[p] = NoFile <=> disk[p] = NoFile
  <2>1. CASE disk' = disk
    BY <2>1
  <2>2. ASSUME NEW time \in 1..MaxTime, UserStamps(p, time)
        PROVE  disk[p] # NoFile /\ disk'[p] # NoFile
    <3>3. disk[p] \in File
      BY <1>1, <2>2 DEF UserStamps, TypeOK
    <3>1. disk[p] \in File /\ [disk[p] EXCEPT !.mtime = time] \in File
      BY <3>3 DEF File
    <3>2. disk'[p] \in File
      BY <1>1, <2>2, <3>1 DEF UserStamps, TypeOK
    <3> QED BY <3>1, <3>2, Constants
  <2> QED BY <2>1, <2>2 DEF Tick, SetBack
<1>7. NothingRemains(p)' /\ LoadsHaveNode(p)' /\ NotStuck(p)' /\ InboxKnown(p)'
  BY <1>1, <1>2, <1>4 DEF PeerInv, NothingRemains, LoadsHaveNode, NotStuck, InboxKnown,
    Overlapped, Covered
<1>8. StampsNotLate(p)'
  <2> SUFFICES ASSUME p \in online, ~Skewed(p)'
               PROVE  /\ NotLate(p, node[p])'
                      /\ disk'[p] # NoFile => disk'[p].mtime <= clock'[p]
    BY <1>2 DEF StampsNotLate
  <2>1. clock'[p] = clock[p] + 1 /\ disk'[p] = disk[p] /\ ~Skewed(p)
    BY <1>5 DEF Skewed
  <2>2. NotLate(p, node[p]) /\ (disk[p] # NoFile => disk[p].mtime <= clock[p])
    BY <1>1, <2>1 DEF PeerInv, StampsNotLate
  <2>3. node[p] # NoFile => node[p].timestamp \in Nat
    BY <1>1 DEF TypeOK, PeerNode
  <2>4. disk[p] # NoFile => disk[p].mtime \in Nat
    BY <1>1, Constants DEF TypeOK, File
  <2> QED BY <1>1, <1>2, <2>1, <2>2, <2>3, <2>4 DEF NotLate
<1>9. FileMatchesNode(p)'
  <2> SUFFICES ASSUME HasFile(p), ~Overlapped(p)
               PROVE  IF disk'[p] = NoFile THEN HasDelete(events[p])
                      ELSE Skewed(p)' \/ disk'[p].mtime >= node[p].timestamp
    BY <1>2, <1>4 DEF FileMatchesNode, HasFile, Overlapped
  <2>1. p \in online
    BY <1>1 DEF PeerInv, NothingRemains, HasFile, TypeOf
  <2>2. IF disk[p] = NoFile THEN HasDelete(events[p])
        ELSE Skewed(p) \/ disk[p].mtime >= node[p].timestamp
    BY <1>1 DEF PeerInv, FileMatchesNode
  <2> QED BY <1>4, <1>5, <1>6, <2>1, <2>2 DEF Skewed
<1>10. FileNoticed(p)'
  BY <1>1, <1>2, <1>6 DEF PeerInv, FileNoticed
<1>11. VersionReaches(p)'
  BY <1>1, <1>2, <1>4 DEF PeerInv, VersionReaches, Covered, Overlapped
<1>12. TableReaches(p)'
  <2>1. mishaps'[p] \cap {"missed", "overlap"} = mishaps[p] \cap {"missed", "overlap"}
    BY <1>4
  <2> QED BY <1>1, <1>2, <2>1 DEF PeerInv, TableReaches, Compared, SameEntry
<1>13. AnnouncedOrKnown(p)'
  <2>1. mishaps'[p] \cap {"crowded", "delisted"} = mishaps[p] \cap {"crowded", "delisted"}
    BY <1>4
  <2> QED BY <1>1, <1>2, <2>1 DEF PeerInv, AnnouncedOrKnown, KnownAs
<1>14. PeerInv(p)'
  BY <1>7, <1>8, <1>9, <1>10, <1>11, <1>12, <1>13 DEF PeerInv
<1> QED BY <1>2, <1>3, <1>14, PeerStep

LEMMA DieStep ==
  ASSUME IInv, TypeOK', NEW p \in Ips, Die(p)
  PROVE  IInv'
<1>1. ASSUME NEW q \in Ips \ {p}
      PROVE  Same(q)
  BY <1>1 DEF Die, Same, IInv, TypeOK, user
<1>2. ft' = ft /\ clock' = clock /\ outbox'[p] = outbox[p] /\ disk'[p] = disk[p]
  BY DEF Die, user
<1>3. /\ p \notin online' /\ node'[p] = NoFile /\ events'[p] = <<>> /\ inbox'[p] = <<>>
      /\ \A k \in LoadIds : loads'[p][k] = Idle
      /\ mishaps'[p] = {}
  BY DEF Die, IInv, TypeOK
<1>4. NothingRemains(p)' /\ LoadsHaveNode(p)' /\ NotStuck(p)' /\ InboxKnown(p)'
  BY <1>3 DEF NothingRemains, LoadsHaveNode, NotStuck, InboxKnown, TypeOf
<1>5. StampsNotLate(p)'
  BY <1>3 DEF StampsNotLate
<1>6. FileMatchesNode(p)' /\ FileNoticed(p)' /\ VersionReaches(p)' /\ TableReaches(p)' /\ AnnouncedOrKnown(p)'
  BY <1>3 DEF FileMatchesNode, HasFile, FileNoticed, VersionReaches, TableReaches, AnnouncedOrKnown, TypeOf
<1>7. PeerInv(p)'
  BY <1>4, <1>5, <1>6 DEF PeerInv
<1> QED BY <1>1, <1>2, <1>7, PeerStep

LEMMA StartStep ==
  ASSUME IInv, TypeOK', NEW p \in Ips, Start(p)
  PROVE  IInv'
<1>1. ASSUME NEW q \in Ips \ {p}
      PROVE  Same(q)
  BY <1>1 DEF Start, Same, IInv, TypeOK
<1>2. /\ ft' = ft /\ clock' = clock /\ disk'[p] = disk[p] /\ outbox'[p] = <<>>
      /\ node'[p] = NoFile /\ events'[p] = <<>>
      /\ \A k \in LoadIds : loads'[p][k] = Idle
      /\ p \in online'
  BY DEF Start, tracker, IInv, PeerInv, NothingRemains
<1>10. mishaps'[p] = IF disk[p] # NoFile /\ disk[p].mtime > clock[p] THEN {"skewed"} ELSE {}
  BY DEF Start, IInv, TypeOK
<1>3. inbox'[p] = <<ft>>
  BY DEF Start, IInv, TypeOK
<1>4. NothingRemains(p)' /\ LoadsHaveNode(p)' /\ NotStuck(p)'
  BY <1>2 DEF NothingRemains, LoadsHaveNode, NotStuck, TypeOf
<1>5. StampsNotLate(p)'
  <2>1. clock[p] \in Nat /\ (disk[p] # NoFile => disk[p].mtime \in Nat)
    BY ClockType, Constants DEF IInv, TypeOK, File
  <2>2. ~Skewed(p)' /\ disk[p] # NoFile => disk[p].mtime <= clock[p]
    BY <1>10, <2>1 DEF Skewed
  <2> QED BY <1>2, <2>2 DEF StampsNotLate, NotLate
<1>6. InboxKnown(p)'
  <2>1. ASSUME NEW i \in 1..Len(inbox'[p]), inbox'[p][i] # NoFile
        PROVE  Covered(inbox'[p][i], ft')
    <3>1. inbox'[p][i] = ft /\ ft \in TrackerNode
      BY <1>2, <1>3, <2>1 DEF IInv, TypeOK
    <3> QED BY <1>2, <2>1, <3>1 DEF Covered, Newer, TrackerNode
  <2> QED BY <2>1 DEF InboxKnown, Covered
<1>7. TableReaches(p)'
  <2>1. Last(<<ft>>) = ft /\ <<ft>> # <<>>
    BY DEF Last
  <2> QED BY <1>2, <1>3, <2>1 DEF TableReaches, SameEntry, SameVersion
<1>8. FileMatchesNode(p)' /\ FileNoticed(p)' /\ VersionReaches(p)' /\ AnnouncedOrKnown(p)'
  BY <1>2 DEF FileMatchesNode, HasFile, FileNoticed, VersionReaches, AnnouncedOrKnown, TypeOf, HasDelete
<1>9. PeerInv(p)'
  BY <1>4, <1>5, <1>6, <1>7, <1>8 DEF PeerInv
<1> QED BY <1>1, <1>2, <1>9, PeerStep

-----------------------------------------------------------------------------
(* Steps that change p's file or its downloads, and not its table.         *)

\* The file is written now, or it is removed, and the monitor will notice.
Touches(p) ==
  \/ Noticed(p, "delete") /\ disk'[p] = NoFile
  \/ /\ \E what \in {"create", "modify"} : Noticed(p, what)
     /\ disk'[p] # NoFile /\ disk'[p].mtime = clock[p]

Opening(p, k) == loads[p][k] # Idle /\ loads[p][k].step = "open"
Loading(p, k) == loads[p][k] # Idle /\ loads[p][k].step \in {"fetch", "open"}

LEMMA FolderStep ==
  ASSUME IInv, TypeOK', NEW p \in Ips, ft' = ft, clock' = clock,
         \A q \in Ips \ {p} : Same(q),
         p \in online' <=> p \in online,
         node'[p] = node[p], inbox'[p] = inbox[p], outbox'[p] = outbox[p], mishaps'[p] = mishaps[p],
         \A k \in LoadIds : loads'[p][k] # Idle => loads[p][k] # Idle,
         \A k \in LoadIds : Loading(p, k) => Loading(p, k)',
         \/ Touches(p)
         \/ /\ disk'[p] = disk[p] /\ events'[p] = events[p]
            /\ \A k \in LoadIds : Opening(p, k)' => Opening(p, k)
  PROVE  IInv'
<1>1. PeerInv(p) /\ clock[p] \in Nat /\ (Skewed(p)' <=> Skewed(p))
  BY ClockType DEF IInv, Skewed
<1>2. NothingRemains(p)'
  BY <1>1 DEF PeerInv, NothingRemains, Touches, Noticed
<1>3. LoadsHaveNode(p)' /\ InboxKnown(p)'
  BY <1>1 DEF PeerInv, LoadsHaveNode, Overlapped, InboxKnown, Covered
<1>4. NotStuck(p)'
  BY <1>1 DEF PeerInv, NotStuck, Loading
<1>5. StampsNotLate(p)'
  BY <1>1 DEF PeerInv, StampsNotLate, NotLate, Touches
<1>6. HasDelete(events[p]) => HasDelete(events'[p])
  BY <1>1 DEF PeerInv, Touches, Noticed
<1>7. FileMatchesNode(p)'
  <2> SUFFICES ASSUME HasFile(p)', ~Overlapped(p)'
               PROVE  IF disk'[p] = NoFile THEN HasDelete(events'[p])
                      ELSE Skewed(p) \/ disk'[p].mtime >= node'[p].timestamp
    BY <1>1 DEF FileMatchesNode
  <2>1. node[p] # NoFile /\ p \in online
    BY <1>1 DEF HasFile, TypeOf, PeerInv, NothingRemains
  <2>2. CASE Touches(p)
    <3>1. node[p].timestamp \in Nat /\ (Skewed(p) \/ clock[p] >= node[p].timestamp)
      BY <1>1, <2>1 DEF PeerInv, StampsNotLate, NotLate, IInv, TypeOK, PeerNode
    <3> QED BY <2>1, <2>2, <3>1 DEF Touches, Noticed
  <2>3. CASE /\ disk'[p] = disk[p] /\ events'[p] = events[p]
             /\ \A k \in LoadIds : Opening(p, k)' => Opening(p, k)
    <3>1. HasFile(p) /\ ~Overlapped(p)
      BY <2>3 DEF HasFile, Opening, Overlapped
    <3> QED BY <1>1, <2>3, <3>1 DEF PeerInv, FileMatchesNode
  <2> QED BY <2>2, <2>3
<1>8. FileNoticed(p)'
  BY <1>1 DEF PeerInv, FileNoticed, Touches, Noticed
<1>9. VersionReaches(p)'
  BY <1>1, <1>6 DEF PeerInv, VersionReaches, Covered, Overlapped
<1>10. TableReaches(p)'
  BY <1>1, <1>6 DEF PeerInv, TableReaches, Compared, SameEntry
<1>11. AnnouncedOrKnown(p)'
  BY <1>1 DEF PeerInv, AnnouncedOrKnown, KnownAs
<1>12. PeerInv(p)'
  BY <1>2, <1>3, <1>4, <1>5, <1>7, <1>8, <1>9, <1>10, <1>11 DEF PeerInv
<1> QED BY <1>12, PeerStep

LEMMA UserFileStep ==
  ASSUME IInv, TypeOK', NEW p \in Ips, UserDeletes(p) \/ \E size \in Sizes : UserSaves(p, size)
  PROVE  IInv'
<1>1. events \in [Ips -> Seq(Kinds)]
  BY DEF IInv, TypeOK, Kinds
<1>2. CASE UserDeletes(p)
  <2>1. Noticed(p, "delete")
    BY <1>1, <1>2, NoticeLemma DEF UserDeletes, Kinds
  <2>2. Touches(p)
    BY <1>2, <2>1 DEF Touches, UserDeletes, IInv, TypeOK
  <2>3. \A q \in Ips \ {p} : Same(q)
    BY <1>2, <2>1 DEF Same, UserDeletes, Noticed, IInv, TypeOK
  <2> QED BY <1>2, <2>2, <2>3, FolderStep DEF UserDeletes, tracker, Loading
<1>3. ASSUME NEW size \in Sizes, UserSaves(p, size)
      PROVE  IInv'
  <2> DEFINE file == [content |-> changes', size |-> size, mtime |-> clock[p]]
  <2>1. Noticed(p, "create")
    BY <1>1, <1>3, UserSavesLemma
  <2>2. disk'[p] = file
    BY <1>3 DEF UserSaves, IInv, TypeOK
  <2>3. file \in File
    BY <1>3, Constants DEF UserSaves, File, Contents, TypeOK, IInv
  <2>4. Touches(p)
    BY <2>1, <2>2, <2>3, Constants DEF Touches
  <2>5. \A q \in Ips \ {p} : Same(q)
    BY <1>3, <2>1 DEF Same, UserSaves, Noticed, IInv, TypeOK
  <2> QED BY <1>3, <2>4, <2>5, FolderStep DEF UserSaves, tracker, Loading
<1> QED BY <1>2, <1>3

\* What a step of one download thread leaves alone.
LEMMA SetLoadLemma ==
  ASSUME TypeOK, NEW p \in Ips, NEW k \in LoadIds, NEW load, SetLoad(p, k, load)
  PROVE  /\ \A q \in Ips \ {p} : loads'[q] = loads[q]
         /\ loads'[p][k] = load
         /\ \A j \in LoadIds \ {k} : loads'[p][j] = loads[p][j]
BY DEF SetLoad, TypeOK

LEMMA LoadIsLoad ==
  ASSUME TypeOK, NEW p \in Ips, NEW k \in LoadIds, loads[p][k] # Idle
  PROVE  loads[p][k] \in Load
<1>1. loads[p][k] \in Load \cup {Idle}
  BY DEF TypeOK
<1> QED BY <1>1

LEMMA DownloadStep ==
  ASSUME IInv, TypeOK', NEW p \in Ips, NEW k \in LoadIds,
         \/ \E h \in Ips : Fetch(p, k, h)
         \/ OpenFile(p, k) \/ CloseFile(p, k)
         \/ \E part \in Flushes : Flush(p, k, part)
  PROVE  IInv'
<1> DEFINE load == loads[p][k]
<1>1. TypeOK /\ events \in [Ips -> Seq(Kinds)]
  BY DEF IInv, TypeOK, Kinds
<1>2. load # Idle
  BY DEF Fetch, Fetching, OpenFile, CloseFile, Flush
<1>3. load \in Load
  BY <1>1, <1>2, LoadIsLoad
<1>4. ASSUME NEW h \in Ips, Fetch(p, k, h)
      PROVE  IInv'
  <2> DEFINE new == [load EXCEPT !.ask = @ \ {h},
                       !.got = @ \cup {[content |-> disk[h].content, size |-> disk[h].size]}]
  <2>1. new.step = load.step
    BY <1>3 DEF Load
  <2>2. SetLoad(p, k, new)
    BY <1>4 DEF Fetch
  <2>3. load.step = "fetch"
    BY <1>4 DEF Fetch, Fetching
  <2>4. new # Idle
    <3>1. new \in Load
      <4>1. disk[h] \in File
        BY <1>1, <1>4 DEF Fetch, TypeOK
      <4>2. [content |-> disk[h].content, size |-> disk[h].size] \in Data
        BY <4>1 DEF Data, File
      <4> QED BY <1>3, <4>2 DEF Load
    <3> QED BY <3>1, Constants
  <2> HIDE DEF new
  <2>5. /\ \A q \in Ips \ {p} : loads'[q] = loads[q]
        /\ loads'[p][k] = new /\ \A j \in LoadIds \ {k} : loads'[p][j] = loads[p][j]
    BY <1>1, <2>2, SetLoadLemma
  <2>6. \A q \in Ips \ {p} : Same(q)
    BY <1>4, <2>5 DEF Fetch, Same, user
  <2>7. /\ \A j \in LoadIds : loads'[p][j] # Idle => loads[p][j] # Idle
        /\ \A j \in LoadIds : Loading(p, j) => Loading(p, j)'
        /\ \A j \in LoadIds : Opening(p, j)' => Opening(p, j)
    BY <1>2, <2>1, <2>3, <2>4, <2>5 DEF Loading, Opening
  <2> QED BY <1>4, <2>6, <2>7, FolderStep DEF Fetch, user, tracker, Loading, Opening
<1>5. CASE OpenFile(p, k)
  <2> DEFINE new == [load EXCEPT !.step = "open"]
             file == [content |-> Garbled, size |-> 0, mtime |-> clock[p]]
  <2>1. new \in Load /\ new.step = "open" /\ new # Idle
    BY <1>3, Constants DEF Load
  <2>2. SetLoad(p, k, new)
    BY <1>5 DEF OpenFile
  <2> HIDE DEF new
  <2>3. /\ \A q \in Ips \ {p} : loads'[q] = loads[q]
        /\ loads'[p][k] = new /\ \A j \in LoadIds \ {k} : loads'[p][j] = loads[p][j]
    BY <1>1, <2>2, SetLoadLemma
  <2>4. Opened(p) \in {"create", "modify"} /\ {"create", "modify"} \subseteq Kinds
    BY DEF Opened, Kinds
  <2>5. Noticed(p, Opened(p))
    BY <1>1, <1>5, <2>4, NoticeLemma DEF OpenFile
  <2>6. disk'[p] = file /\ file # NoFile
    <3>1. Garbled \in Contents /\ clock[p] \in 1..MaxTime
      BY <1>1, Constants DEF Garbled, Contents, TypeOK
    <3>2. file \in File
      BY <3>1 DEF File
    <3> QED BY <1>1, <1>5, <3>2, Constants DEF OpenFile, TypeOK
  <2>7. Touches(p)
    BY <2>4, <2>5, <2>6 DEF Touches
  <2>8. \A q \in Ips \ {p} : Same(q)
    BY <1>1, <1>5, <2>3, <2>5 DEF OpenFile, Noticed, Same, TypeOK, user
  <2>9. /\ \A j \in LoadIds : loads'[p][j] # Idle => loads[p][j] # Idle
        /\ \A j \in LoadIds : Loading(p, j) => Loading(p, j)'
    BY <1>2, <2>1, <2>3 DEF Loading
  <2> QED BY <1>5, <2>7, <2>8, <2>9, FolderStep DEF OpenFile, user, tracker, Loading
<1>6. CASE CloseFile(p, k)
  <2> DEFINE data == Assembled(load)
             file == [content |-> data.content, size |-> data.size, mtime |-> clock[p]]
  <2>1. SetLoad(p, k, Idle) /\ load.step = "typed"
    BY <1>6 DEF CloseFile
  <2>2. /\ \A q \in Ips \ {p} : loads'[q] = loads[q]
        /\ loads'[p][k] = Idle /\ \A j \in LoadIds \ {k} : loads'[p][j] = loads[p][j]
    BY <1>1, <2>1, SetLoadLemma
  <2>3. /\ \A j \in LoadIds : loads'[p][j] # Idle => loads[p][j] # Idle
        /\ \A j \in LoadIds : Loading(p, j) => Loading(p, j)'
        /\ \A j \in LoadIds : Opening(p, j)' => Opening(p, j)
    BY <1>2, <2>1, <2>2 DEF Loading, Opening
  <2>4. CASE UNCHANGED <<disk, events>>
    <3>1. \A q \in Ips \ {p} : Same(q)
      BY <1>6, <2>2, <2>4 DEF CloseFile, Same, user
    <3> QED BY <1>6, <2>3, <2>4, <3>1, FolderStep DEF CloseFile, user, tracker, Loading, Opening
  <2>5. CASE /\ disk' = [disk EXCEPT ![p] = file]
             /\ NoticeOpenedAnd(p, "modify") \/ Notice(p, "modify")
    <3>1. Noticed(p, "modify")
      BY <1>1, <2>5, NoticeLemma DEF Kinds
    <3>2. file \in File
      <4>1. clock[p] \in 1..MaxTime
        BY <1>1 DEF TypeOK
      <4> QED BY <1>3, <4>1, AssembledType DEF File, Data
    <3>3. Touches(p)
      BY <1>1, <2>5, <3>1, <3>2, Constants DEF Touches, TypeOK
    <3>4. \A q \in Ips \ {p} : Same(q)
      BY <1>1, <1>6, <2>2, <2>5, <3>1 DEF CloseFile, Noticed, Same, TypeOK, user
    <3> QED BY <1>6, <2>3, <3>3, <3>4, FolderStep DEF CloseFile, user, tracker, Loading, Opening
  <2> QED BY <1>6, <2>4, <2>5 DEF CloseFile
<1>7. ASSUME NEW part \in Flushes, Flush(p, k, part)
      PROVE  IInv'
  <2> DEFINE new == [load EXCEPT !.flushed = part]
             data == Assembled(load)
             file == [content |-> IF part = "all" THEN data.content ELSE Garbled,
                      size |-> IF part = "all" THEN data.size ELSE data.size - 1,
                      mtime |-> clock[p]]
  <2>1. new \in Load /\ new.step = load.step /\ new # Idle
    BY <1>3, SyncBounds, Constants DEF Load
  <2>2. SetLoad(p, k, new) /\ load.step = "open"
    BY <1>7 DEF Flush
  <2> HIDE DEF new
  <2>3. /\ \A q \in Ips \ {p} : loads'[q] = loads[q]
        /\ loads'[p][k] = new /\ \A j \in LoadIds \ {k} : loads'[p][j] = loads[p][j]
    BY <1>1, <2>2, SetLoadLemma
  <2>4. Noticed(p, "modify")
    BY <1>1, <1>7, NoticeLemma DEF Flush, Kinds
  <2>5. disk'[p] = file
    BY <1>1, <1>7 DEF Flush, TypeOK
  <2>6. disk'[p] # NoFile /\ disk'[p].mtime = clock[p]
    <3>1. Garbled \in Contents /\ clock[p] \in 1..MaxTime
      BY <1>1, Constants DEF Garbled, Contents, TypeOK
    <3>2. data \in Data /\ data.size - 1 \in Nat
      BY <1>3, <1>7, AssembledType DEF Flush
    <3>3. file \in File
      BY <3>1, <3>2 DEF File, Data
    <3> QED BY <2>5, <3>3, Constants
  <2>7. Touches(p)
    BY <2>4, <2>6 DEF Touches
  <2>8. \A q \in Ips \ {p} : Same(q)
    BY <1>1, <1>7, <2>3, <2>4 DEF Flush, Noticed, Same, TypeOK, user
  <2>9. /\ \A j \in LoadIds : loads'[p][j] # Idle => loads[p][j] # Idle
        /\ \A j \in LoadIds : Loading(p, j) => Loading(p, j)'
    BY <1>2, <2>1, <2>3 DEF Loading
  <2> QED BY <1>7, <2>7, <2>8, <2>9, FolderStep DEF Flush, user, tracker, Loading
<1> QED BY <1>4, <1>5, <1>6, <1>7

-----------------------------------------------------------------------------
(* Steps that change p's table.                                            *)

LEMMA SetNodeTypeStep ==
  ASSUME IInv, TypeOK', NEW p \in Ips, NEW k \in LoadIds, SetNodeType(p, k)
  PROVE  IInv'
<1> DEFINE load == loads[p][k]
           mine == node[p]
           new  == [load EXCEPT !.step = "typed"]
<1>1. TypeOK /\ PeerInv(p) /\ load # Idle /\ load.step = "open"
  BY DEF IInv, SetNodeType
<1>2. load \in Load
  BY <1>1, LoadIsLoad
<1>3. new # Idle
  <2>1. new \in Load
    BY <1>2 DEF Load
  <2> QED BY <2>1, Constants
<1>4. SetLoad(p, k, new)
  BY DEF SetNodeType
<1> HIDE DEF new
<1>5. /\ \A q \in Ips \ {p} : loads'[q] = loads[q]
      /\ loads'[p][k] = new /\ \A j \in LoadIds \ {k} : loads'[p][j] = loads[p][j]
  BY <1>1, <1>4, SetLoadLemma
<1>6. mine # NoFile /\ mine \in PeerNode /\ p \in online
  BY <1>1 DEF PeerInv, LoadsHaveNode, NothingRemains, TypeOK
<1>7. node' = [node EXCEPT ![p] = [mine EXCEPT !.type = "FILE_DOWNLOAD", !.size = load.size]]
  BY DEF SetNodeType, SetNode
<1>8. /\ node'[p] # NoFile /\ node'[p].type = "FILE_DOWNLOAD"
      /\ node'[p].timestamp = mine.timestamp
  <2>1. [mine EXCEPT !.type = "FILE_DOWNLOAD", !.size = load.size] \in PeerNode
    BY <1>2, <1>6, Constants DEF PeerNode, Load
  <2> QED BY <1>1, <1>6, <1>7, <2>1, Constants DEF TypeOK, PeerNode
<1>9. TypeOf(node'[p]) = "FILE_DOWNLOAD"
  BY <1>8 DEF TypeOf
<1>10. /\ ft' = ft /\ clock' = clock /\ online' = online /\ disk' = disk /\ events' = events
       /\ inbox' = inbox /\ outbox' = outbox
       /\ mishaps[p] \subseteq mishaps'[p]
       /\ mine.type = "FILE_DELETE" => Overlapped(p)'
       /\ mishaps'[p] \subseteq mishaps[p] \cup {"overlap"}
  BY <1>1 DEF SetNodeType, user, tracker, TypeOK, Overlapped
<1>11. \A q \in Ips \ {p} : Same(q)
  BY <1>1, <1>5, <1>7, <1>10 DEF SetNodeType, Same, TypeOK
<1>12. NothingRemains(p)' /\ NotStuck(p)' /\ InboxKnown(p)'
  BY <1>1, <1>6, <1>9, <1>10 DEF PeerInv, NothingRemains, NotStuck, InboxKnown, Covered
<1>13. LoadsHaveNode(p)'
  BY <1>1, <1>5, <1>8, <1>10 DEF PeerInv, LoadsHaveNode, Overlapped
<1>14. StampsNotLate(p)'
  BY <1>1, <1>6, <1>8, <1>10 DEF PeerInv, StampsNotLate, NotLate, Skewed
<1>15. FileMatchesNode(p)'
  <2> SUFFICES ASSUME ~Overlapped(p)'
               PROVE  IF disk[p] = NoFile THEN HasDelete(events[p])
                      ELSE Skewed(p)' \/ disk[p].mtime >= mine.timestamp
    BY <1>8, <1>10 DEF FileMatchesNode
  <2>1. mine.type # "FILE_DELETE" /\ ~Overlapped(p) /\ (Skewed(p) => Skewed(p)')
    BY <1>10 DEF Overlapped, Skewed
  <2>2. HasFile(p)
    BY <1>1, <1>6, <2>1 DEF HasFile, TypeOf, Opening
  <2> QED BY <1>1, <2>1, <2>2 DEF PeerInv, FileMatchesNode
<1>16. FileNoticed(p)'
  BY <1>1, <1>9, <1>10 DEF PeerInv, FileNoticed
<1>17. VersionReaches(p)' /\ AnnouncedOrKnown(p)'
  BY <1>8, <1>9 DEF VersionReaches, AnnouncedOrKnown
<1>18. TableReaches(p)'
  BY <1>1, <1>9, <1>10 DEF PeerInv, TableReaches, Compared, SameEntry
<1>19. PeerInv(p)'
  BY <1>12, <1>13, <1>14, <1>15, <1>16, <1>17, <1>18 DEF PeerInv
<1> QED BY <1>10, <1>11, <1>19, PeerStep

LEMMA OtherFileStep ==
  ASSUME IInv, TypeOK', NEW p \in Ips, OtherFileChanges(p)
  PROVE  IInv'
<1>1. TypeOK /\ PeerInv(p) /\ outbox[p] \in Seq(PeerNode \cup {NoFile}) /\ node[p] \in PeerNode \cup {NoFile}
  BY DEF IInv, TypeOK
<1>2. outbox'[p] = Append(outbox[p], node[p])
  BY <1>1 DEF OtherFileChanges, Announce, TypeOK
<1>3. /\ ft' = ft /\ clock' = clock /\ online' = online /\ disk' = disk /\ events' = events
      /\ inbox' = inbox /\ node' = node /\ loads' = loads /\ mishaps' = mishaps
  BY DEF OtherFileChanges, tracker
<1>4. \A q \in Ips \ {p} : Same(q)
  BY <1>1, <1>3 DEF OtherFileChanges, Announce, Same, TypeOK
<1>5. /\ Len(outbox'[p]) = Len(outbox[p]) + 1 /\ Len(outbox[p]) \in Nat
      /\ \A i \in 1..Len(outbox[p]) : outbox'[p][i] = outbox[p][i]
      /\ outbox'[p][Len(outbox[p]) + 1] = node[p] /\ outbox'[p] # <<>>
  BY <1>1, <1>2
<1>6. 1..Len(outbox[p]) \subseteq 1..Len(outbox'[p])
  BY <1>5
<1>7. /\ NothingRemains(p)' /\ LoadsHaveNode(p)' /\ NotStuck(p)' /\ InboxKnown(p)'
      /\ FileMatchesNode(p)' /\ FileNoticed(p)'
  BY <1>1, <1>3 DEF PeerInv, NothingRemains, LoadsHaveNode, NotStuck, InboxKnown,
    FileMatchesNode, FileNoticed, HasFile, Overlapped, Skewed, Covered
<1>8. StampsNotLate(p)'
  BY <1>1, <1>3 DEF PeerInv, StampsNotLate, NotLate, Skewed
<1>9. VersionReaches(p)'
  BY <1>1, <1>3, <1>5, <1>6 DEF PeerInv, VersionReaches, Covered, Overlapped
<1>10. TableReaches(p)'
  BY <1>1, <1>3, <1>5 DEF PeerInv, TableReaches, Compared, SameEntry
<1>11. AnnouncedOrKnown(p)'
  BY <1>1, <1>3, <1>5, <1>6 DEF PeerInv, AnnouncedOrKnown, KnownAs
<1>12. PeerInv(p)'
  BY <1>7, <1>8, <1>9, <1>10, <1>11 DEF PeerInv
<1> QED BY <1>3, <1>4, <1>12, PeerStep

\* What one turn of the monitor does to p's table.
Handles(p) ==
  \/ /\ node'[p] = node[p] /\ outbox'[p] = outbox[p]
     /\ Head(events[p]) = "delete" => node[p] = NoFile
     /\ Head(events[p]) # "delete" /\ disk[p] # NoFile => TypeOf(node[p]) # "FILE_DELETE"
  \/ /\ node'[p] # NoFile /\ node'[p] \in PeerNode /\ outbox'[p] = Append(outbox[p], node'[p])
     /\ \/ /\ Head(events[p]) = "delete"
           /\ node'[p].type = "FILE_DELETE" /\ node'[p].timestamp = clock[p]
        \/ /\ Head(events[p]) # "delete" /\ disk[p] # NoFile
           /\ TypeOf(node[p]) # "FILE_DOWNLOADING"
           /\ node'[p].type \in {"FILE_CREATE", "FILE_MODIFY"}
           /\ \/ node'[p].timestamp = disk[p].mtime
              \/ TypeOf(node[p]) = "FILE_DOWNLOAD" /\ node'[p].timestamp = node[p].timestamp

LEMMA HandlesLemma ==
  ASSUME TypeOK, NEW p \in Ips, HandleEvent(p)
  PROVE  /\ Handles(p)
         /\ \A q \in Ips \ {p} : node'[q] = node[q] /\ outbox'[q] = outbox[q]
<1>1. /\ node[p] \in PeerNode \cup {NoFile} /\ disk[p] \in File \cup {NoFile} /\ clock[p] \in Nat
      /\ events[p] \in Seq(Kinds) /\ events[p] # <<>>
  BY ClockType DEF TypeOK, HandleEvent, Kinds
<1>2. ASSUME NEW mine \in PeerNode, SetNode(p, mine), Announce(p, mine)
      PROVE  /\ node'[p] = mine /\ node'[p] # NoFile /\ outbox'[p] = Append(outbox[p], mine)
             /\ \A q \in Ips \ {p} : node'[q] = node[q] /\ outbox'[q] = outbox[q]
  BY <1>2, Constants DEF TypeOK, SetNode, Announce
<1>3. ASSUME NEW type \in FileTypes, disk[p] # NoFile
      PROVE  /\ Stamped(disk[p], type) \in PeerNode /\ Stamped(disk[p], type).type = type
             /\ Stamped(disk[p], type).timestamp = disk[p].mtime
  BY <1>1, <1>3, Constants DEF Stamped, PeerNode, File
<1>4. ASSUME NEW type \in FileTypes, node[p] # NoFile
      PROVE  /\ [node[p] EXCEPT !.type = type] \in PeerNode
             /\ [node[p] EXCEPT !.type = type].type = type
             /\ [node[p] EXCEPT !.type = type].timestamp = node[p].timestamp
             /\ [node[p] EXCEPT !.timestamp = clock[p], !.type = type] \in PeerNode
             /\ [node[p] EXCEPT !.timestamp = clock[p], !.type = type].type = type
             /\ [node[p] EXCEPT !.timestamp = clock[p], !.type = type].timestamp = clock[p]
  BY <1>1, <1>4 DEF PeerNode
<1>5. CASE Head(events[p]) = "create" /\ disk[p] # NoFile /\ FileAdded(p)
  <2>1. CASE NoChange /\ TypeOf(node[p]) \in {"FILE_CREATE", "FILE_MODIFY", "FILE_DOWNLOADING"}
    BY <1>5, <2>1 DEF Handles, NoChange
  <2>2. CASE /\ TypeOf(node[p]) # "FILE_DOWNLOADING"
             /\ SetNode(p, Stamped(disk[p], "FILE_CREATE")) /\ Announce(p, Stamped(disk[p], "FILE_CREATE"))
    BY <1>2, <1>3, <1>5, <2>2, Constants DEF Handles
  <2>3. CASE /\ TypeOf(node[p]) = "FILE_DOWNLOAD"
             /\ SetNode(p, [node[p] EXCEPT !.type = "FILE_MODIFY"])
             /\ Announce(p, [node[p] EXCEPT !.type = "FILE_MODIFY"])
    <3> DEFINE mine == [node[p] EXCEPT !.type = "FILE_MODIFY"]
    <3>1. node[p] # NoFile
      BY <2>3 DEF TypeOf
    <3>2. mine \in PeerNode /\ mine.type = "FILE_MODIFY" /\ mine.timestamp = node[p].timestamp
      BY <1>4, <3>1, Constants
    <3>3. SetNode(p, mine) /\ Announce(p, mine)
      BY <2>3
    <3> HIDE DEF mine
    <3>4. /\ node'[p] = mine /\ node'[p] # NoFile /\ outbox'[p] = Append(outbox[p], mine)
          /\ \A q \in Ips \ {p} : node'[q] = node[q] /\ outbox'[q] = outbox[q]
      BY <1>2, <3>2, <3>3
    <3> QED BY <1>5, <2>3, <3>2, <3>4 DEF Handles
  <2> QED BY <1>5, <2>1, <2>2, <2>3 DEF FileAdded, SetNode, TypeOK
<1>6. CASE Head(events[p]) = "modify" /\ disk[p] # NoFile /\ FileModified(p)
  <2>1. CASE NoChange /\ TypeOf(node[p]) \in {"none", "FILE_DOWNLOADING"}
    BY <1>6, <2>1 DEF Handles, NoChange
  <2>2. CASE /\ TypeOf(node[p]) # "FILE_DOWNLOADING"
             /\ SetNode(p, Stamped(disk[p], "FILE_MODIFY")) /\ Announce(p, Stamped(disk[p], "FILE_MODIFY"))
    BY <1>2, <1>3, <1>6, <2>2, Constants DEF Handles
  <2>3. CASE /\ TypeOf(node[p]) = "FILE_DOWNLOAD"
             /\ SetNode(p, [node[p] EXCEPT !.type = "FILE_MODIFY"])
             /\ Announce(p, [node[p] EXCEPT !.type = "FILE_MODIFY"])
    <3> DEFINE mine == [node[p] EXCEPT !.type = "FILE_MODIFY"]
    <3>1. node[p] # NoFile
      BY <2>3 DEF TypeOf
    <3>2. mine \in PeerNode /\ mine.type = "FILE_MODIFY" /\ mine.timestamp = node[p].timestamp
      BY <1>4, <3>1, Constants
    <3>3. SetNode(p, mine) /\ Announce(p, mine)
      BY <2>3
    <3> HIDE DEF mine
    <3>4. /\ node'[p] = mine /\ node'[p] # NoFile /\ outbox'[p] = Append(outbox[p], mine)
          /\ \A q \in Ips \ {p} : node'[q] = node[q] /\ outbox'[q] = outbox[q]
      BY <1>2, <3>2, <3>3
    <3> QED BY <1>6, <2>3, <3>2, <3>4 DEF Handles
  <2> QED BY <1>6, <2>1, <2>2, <2>3 DEF FileModified, SetNode, TypeOK, TypeOf
<1>7. CASE Head(events[p]) = "delete" /\ FileDeleted(p)
  <2>1. CASE NoChange /\ node[p] = NoFile
    BY <1>7, <2>1 DEF Handles, NoChange
  <2>2. CASE /\ node[p] # NoFile
             /\ SetNode(p, [node[p] EXCEPT !.timestamp = clock[p], !.type = "FILE_DELETE"])
             /\ Announce(p, [node[p] EXCEPT !.timestamp = clock[p], !.type = "FILE_DELETE"])
    <3> DEFINE mine == [node[p] EXCEPT !.timestamp = clock[p], !.type = "FILE_DELETE"]
    <3>1. mine \in PeerNode /\ mine.type = "FILE_DELETE" /\ mine.timestamp = clock[p]
      BY <1>4, <2>2, Constants
    <3>2. SetNode(p, mine) /\ Announce(p, mine)
      BY <2>2
    <3> HIDE DEF mine
    <3>3. /\ node'[p] = mine /\ node'[p] # NoFile /\ outbox'[p] = Append(outbox[p], mine)
          /\ \A q \in Ips \ {p} : node'[q] = node[q] /\ outbox'[q] = outbox[q]
      BY <1>2, <3>1, <3>2
    <3> QED BY <1>7, <3>1, <3>3 DEF Handles
  <2> QED BY <1>7, <2>1, <2>2 DEF FileDeleted, SetNode, TypeOK
<1>8. CASE Head(events[p]) # "delete" /\ disk[p] = NoFile /\ NoChange
  BY <1>8 DEF Handles, NoChange
<1> QED BY <1>5, <1>6, <1>7, <1>8 DEF HandleEvent

LEMMA HandleEventStep ==
  ASSUME IInv, TypeOK', NEW p \in Ips, HandleEvent(p)
  PROVE  IInv'
<1> DEFINE queue == events[p]
           what  == Head(queue)
           rest  == Tail(queue)
<1>1. TypeOK /\ PeerInv(p) /\ clock[p] \in Nat /\ node[p] \in PeerNode \cup {NoFile} /\ disk[p] \in File \cup {NoFile}
  <2>1. TypeOK /\ PeerInv(p) /\ clock[p] \in Nat
    BY ClockType DEF IInv
  <2> QED BY <2>1 DEF TypeOK
<1>2. /\ ft' = ft /\ clock' = clock /\ online' = online /\ disk' = disk
      /\ inbox' = inbox /\ loads' = loads /\ mishaps' = mishaps /\ p \in online
      /\ queue \in Seq(Kinds) /\ queue # <<>>
  BY <1>1 DEF HandleEvent, user, tracker, TypeOK, Kinds
<1>3. events'[p] = rest /\ \A q \in Ips \ {p} : events'[q] = events[q]
  BY <1>1 DEF HandleEvent, TypeOK
<1>4. /\ HasDelete(queue) <=> what = "delete" \/ HasDelete(rest)
      /\ rest # <<>> => Last(rest) = Last(queue)
      /\ rest = <<>> => Last(queue) = what /\ ~HasDelete(rest)
  BY <1>2, TailLemma
<1> HIDE DEF what, rest, queue
<1>5. Handles(p) /\ \A q \in Ips \ {p} : node'[q] = node[q] /\ outbox'[q] = outbox[q]
  BY <1>1, HandlesLemma
<1>6. \A q \in Ips \ {p} : Same(q)
  BY <1>2, <1>3, <1>5 DEF Same
<1>7. CASE /\ node'[p] = node[p] /\ outbox'[p] = outbox[p]
           /\ what = "delete" => node[p] = NoFile
           /\ what # "delete" /\ disk[p] # NoFile => TypeOf(node[p]) # "FILE_DELETE"
  <2>1. node[p] # NoFile /\ HasDelete(queue) => HasDelete(rest)
    BY <1>4, <1>7
  <2>2. NothingRemains(p)' /\ LoadsHaveNode(p)' /\ NotStuck(p)' /\ InboxKnown(p)' /\ StampsNotLate(p)'
    BY <1>1, <1>2, <1>7 DEF PeerInv, NothingRemains, LoadsHaveNode, NotStuck, InboxKnown,
      StampsNotLate, NotLate, Overlapped, Skewed, Covered
  <2>3. FileMatchesNode(p)'
    BY <1>1, <1>2, <1>3, <1>7, <2>1 DEF PeerInv, FileMatchesNode, HasFile, Overlapped, Skewed, TypeOf, queue
  <2>4. FileNoticed(p)'
    <3> SUFFICES ASSUME disk[p] # NoFile, TypeOf(node[p]) = "FILE_DELETE" \/ HasDelete(rest)
                 PROVE  EndsPresent(rest)
      BY <1>2, <1>3, <1>7 DEF FileNoticed
    <3>1. EndsPresent(queue)
      BY <1>1, <1>2, <1>4 DEF PeerInv, FileNoticed, queue
    <3>2. rest # <<>>
      <4> SUFFICES ASSUME rest = <<>> PROVE FALSE
        OBVIOUS
      <4>1. what # "delete" /\ ~HasDelete(rest)
        BY <1>4, <3>1 DEF EndsPresent
      <4> QED BY <1>7, <4>1
    <3> QED BY <1>4, <3>1, <3>2 DEF EndsPresent
  <2>5. VersionReaches(p)' /\ TableReaches(p)' /\ AnnouncedOrKnown(p)'
    BY <1>1, <1>2, <1>3, <1>7, <2>1 DEF PeerInv, VersionReaches, TableReaches, AnnouncedOrKnown,
      Covered, Overlapped, Compared, SameEntry, KnownAs, queue
  <2>6. PeerInv(p)'
    BY <2>2, <2>3, <2>4, <2>5 DEF PeerInv
  <2> QED BY <1>2, <1>6, <2>6, PeerStep
<1>8. CASE /\ node'[p] # NoFile /\ node'[p] \in PeerNode /\ outbox'[p] = Append(outbox[p], node'[p])
           /\ \/ /\ what = "delete"
                 /\ node'[p].type = "FILE_DELETE" /\ node'[p].timestamp = clock[p]
              \/ /\ what # "delete" /\ disk[p] # NoFile
                 /\ TypeOf(node[p]) # "FILE_DOWNLOADING"
                 /\ node'[p].type \in {"FILE_CREATE", "FILE_MODIFY"}
                 /\ \/ node'[p].timestamp = disk[p].mtime
                    \/ TypeOf(node[p]) = "FILE_DOWNLOAD" /\ node'[p].timestamp = node[p].timestamp
  <2>1. TypeOf(node'[p]) = node'[p].type
    BY <1>8 DEF TypeOf
  <2>2. /\ Len(outbox[p]) \in Nat /\ Len(outbox'[p]) = Len(outbox[p]) + 1
        /\ \A i \in 1..Len(outbox[p]) : outbox'[p][i] = outbox[p][i]
        /\ outbox'[p][Len(outbox[p]) + 1] = node'[p] /\ outbox'[p] # <<>>
    <3>1. outbox[p] \in Seq(PeerNode \cup {NoFile})
      BY <1>1 DEF TypeOK
    <3> QED BY <1>8, <3>1
  <2>3. Len(outbox[p]) + 1 \in 1..Len(outbox'[p])
    BY <2>2
  <2>4. NothingRemains(p)' /\ LoadsHaveNode(p)' /\ NotStuck(p)' /\ InboxKnown(p)'
    BY <1>1, <1>2, <1>8, <2>1 DEF PeerInv, NothingRemains, LoadsHaveNode, NotStuck, InboxKnown,
      Overlapped, Covered
  <2>6. StampsNotLate(p)'
    <3>1. \/ node'[p].timestamp = clock[p]
          \/ disk[p] # NoFile /\ node'[p].timestamp = disk[p].mtime
          \/ node[p] # NoFile /\ node'[p].timestamp = node[p].timestamp
      BY <1>8 DEF TypeOf
    <3> QED BY <1>1, <1>2, <3>1 DEF PeerInv, StampsNotLate, NotLate, Skewed
  <2>7. FileMatchesNode(p)'
    <3> SUFFICES ASSUME HasFile(p)', ~Overlapped(p)
                 PROVE  disk[p] # NoFile /\ (Skewed(p) \/ disk[p].mtime >= node'[p].timestamp)
      BY <1>2 DEF FileMatchesNode, Overlapped, Skewed
    <3>1. what # "delete" /\ disk[p] # NoFile
      BY <1>8, <2>1 DEF HasFile
    <3>2. CASE node'[p].timestamp = disk[p].mtime
      BY <1>1, <3>1, <3>2, Constants DEF File
    <3>3. CASE TypeOf(node[p]) = "FILE_DOWNLOAD" /\ node'[p].timestamp = node[p].timestamp
      <4>1. HasFile(p)
        <5>1. node[p] # NoFile /\ node[p].type = "FILE_DOWNLOAD"
          BY <3>3 DEF TypeOf
        <5> QED BY <5>1 DEF HasFile
      <4> QED BY <1>1, <3>1, <3>3, <4>1 DEF PeerInv, FileMatchesNode
    <3> QED BY <1>8, <3>1, <3>2, <3>3
  <2>8. FileNoticed(p)'
    <3> SUFFICES ASSUME disk[p] # NoFile, node'[p].type = "FILE_DELETE" \/ HasDelete(rest)
                 PROVE  EndsPresent(rest)
      BY <1>2, <1>3, <2>1 DEF FileNoticed
    <3>1. HasDelete(queue)
      BY <1>4, <1>8
    <3>2. EndsPresent(queue)
      BY <1>1, <1>2, <3>1 DEF PeerInv, FileNoticed, queue
    <3>3. rest # <<>>
      BY <1>4, <3>1, <3>2 DEF EndsPresent
    <3> QED BY <1>4, <3>2, <3>3 DEF EndsPresent
  <2>9. VersionReaches(p)'
    <3>1. Covered(node'[p], node'[p])
      BY <1>8 DEF Covered, Newer, PeerNode
    <3> QED BY <2>2, <2>3, <3>1 DEF VersionReaches, Covered
  <2>10. TableReaches(p)'
    BY <1>1, <1>2, <2>2 DEF PeerInv, TableReaches, Compared, SameEntry
  <2>11. AnnouncedOrKnown(p)'
    BY <1>8, <2>2, <2>3 DEF AnnouncedOrKnown, SameVersion
  <2>12. PeerInv(p)'
    BY <2>4, <2>6, <2>7, <2>8, <2>9, <2>10, <2>11 DEF PeerInv
  <2> QED BY <1>2, <1>6, <2>12, PeerStep
<1> QED BY <1>5, <1>7, <1>8 DEF Handles, what, queue

\* What the start of a download does to p's table and threads.
LEMMA StartLoadLemma ==
  ASSUME TypeOK, NEW p \in Ips, NEW seek \in TrackerNode, StartLoad(p, seek)
  PROVE  /\ node'[p] \in PeerNode /\ node'[p] # NoFile /\ node'[p].type = "FILE_DOWNLOADING"
         /\ node'[p].timestamp = seek.timestamp /\ node'[p].size = seek.size
         /\ \A q \in Ips \ {p} : /\ node'[q] = node[q] /\ loads'[q] = loads[q]
                                 /\ mishaps'[q] = mishaps[q]
         /\ \E k \in LoadIds :
              /\ loads'[p][k] # Idle /\ loads'[p][k].step = "fetch"
              /\ \A j \in LoadIds \ {k} : loads'[p][j] # Idle => loads[p][j] # Idle
              /\ k > 1 => "overlap" \in mishaps'[p]
              /\ k = 1 => \A j \in LoadIds : j \in {k} \/ j > 1
         /\ mishaps[p] \subseteq mishaps'[p]
         /\ mishaps'[p] \subseteq mishaps[p] \cup {"overlap", "skewed"}
         /\ seek.timestamp > clock[p] => "skewed" \in mishaps'[p]
<1>1. PICK k \in LoadIds, ask \in Asked(seek.newpeerip) :
        /\ SetNode(p, [timestamp |-> seek.timestamp, size |-> seek.size, type |-> "FILE_DOWNLOADING"])
        /\ loads' = [loads EXCEPT ![p] =
             [j \in LoadIds |->
                IF j = k
                THEN [timestamp |-> seek.timestamp, size |-> seek.size,
                      ask |-> ask, got |-> {}, step |-> "fetch",
                      mixed |-> \E i \in LoadIds : loads[p][i] # Idle,
                      flushed |-> "nothing"]
                ELSE IF @[j] = Idle THEN Idle ELSE [@[j] EXCEPT !.mixed = TRUE]]]
        /\ mishaps' = [mishaps EXCEPT ![p] =
             @ \cup (IF k > 1 THEN {"overlap"} ELSE {})
               \cup (IF seek.timestamp > clock[p] THEN {"skewed"} ELSE {})]
  BY DEF StartLoad
<1> DEFINE mine == [timestamp |-> seek.timestamp, size |-> seek.size, type |-> "FILE_DOWNLOADING"]
           load == [timestamp |-> seek.timestamp, size |-> seek.size,
                    ask |-> ask, got |-> {}, step |-> "fetch",
                    mixed |-> \E i \in LoadIds : loads[p][i] # Idle,
                    flushed |-> "nothing"]
<1>2. mine \in PeerNode /\ mine # NoFile
  <2>1. mine \in PeerNode
    BY Constants DEF PeerNode, TrackerNode
  <2> QED BY <2>1, Constants
<1>3. node'[p] = mine /\ \A q \in Ips \ {p} : node'[q] = node[q]
  BY <1>1 DEF SetNode, TypeOK
<1>4. loads'[p][k] = load
  BY <1>1 DEF TypeOK
<1>5. loads' \in [Ips -> [LoadIds -> Load \cup {Idle}]]
  BY StartLoadTypes
<1>6. load # Idle
  <2>1. ask \subseteq Ips
    <3>1. seek.newpeerip \in Seq(Ips)
      BY DEF TrackerNode
    <3>2. Holders(seek.newpeerip) \subseteq Ips
      BY <3>1 DEF Holders
    <3>3. ASSUME Len(seek.newpeerip) > 2
          PROVE  Holders(SubSeq(seek.newpeerip, 1, Len(seek.newpeerip) - 1)) \subseteq Ips
      <4>1. SubSeq(seek.newpeerip, 1, Len(seek.newpeerip) - 1) \in Seq(Ips)
        BY <3>1, <3>3
      <4> QED BY <4>1 DEF Holders
    <3> QED BY <1>1, <3>2, <3>3 DEF Asked
  <2>2. load \in Load
    BY <2>1 DEF Load, TrackerNode
  <2> QED BY <2>2, Constants
<1>7. ASSUME NEW j \in LoadIds \ {k}, loads'[p][j] # Idle
      PROVE  loads[p][j] # Idle
  <2>1. loads'[p][j] = IF loads[p][j] = Idle THEN Idle ELSE [loads[p][j] EXCEPT !.mixed = TRUE]
    BY <1>1 DEF TypeOK
  <2> QED BY <1>7, <2>1
<1>8. /\ \A q \in Ips \ {p} : loads'[q] = loads[q] /\ mishaps'[q] = mishaps[q]
      /\ mishaps'[p] = mishaps[p] \cup (IF k > 1 THEN {"overlap"} ELSE {})
                      \cup (IF seek.timestamp > clock[p] THEN {"skewed"} ELSE {})
  BY <1>1 DEF TypeOK
<1>9. k = 1 => \A j \in LoadIds : j \in {k} \/ j > 1
  BY DEF LoadIds
<1>10. /\ loads'[p][k] # Idle /\ loads'[p][k].step = "fetch"
       /\ \A j \in LoadIds \ {k} : loads'[p][j] # Idle => loads[p][j] # Idle
       /\ k > 1 => "overlap" \in mishaps'[p]
  BY <1>4, <1>6, <1>7, <1>8
<1> QED BY <1>2, <1>3, <1>8, <1>9, <1>10

\* What it means to take a table from the inbox.
LEMMA InboxTail ==
  ASSUME IInv, NEW p \in Ips, inbox[p] # <<>>, inbox'[p] = Tail(inbox[p])
  PROVE  /\ Head(inbox[p]) \in TrackerNode \cup {NoFile}
         /\ Head(inbox[p]) # NoFile => Covered(Head(inbox[p]), ft)
         /\ \A i \in 1..Len(inbox'[p]) : inbox'[p][i] # NoFile => Covered(inbox'[p][i], ft)
         /\ inbox'[p] # <<>> => Last(inbox'[p]) = Last(inbox[p])
         /\ inbox'[p] = <<>> => Last(inbox[p]) = Head(inbox[p])
<1> DEFINE queue == inbox[p]
           rest  == inbox'[p]
           n     == Len(queue)
<1>1. queue \in Seq(TrackerNode \cup {NoFile}) /\ InboxKnown(p)
  BY DEF IInv, TypeOK, PeerInv
<1>2. /\ n \in Nat \ {0} /\ Head(queue) = queue[1] /\ queue[1] \in TrackerNode \cup {NoFile}
      /\ Len(rest) = n - 1 /\ \A i \in 1..(n - 1) : rest[i] = queue[i + 1]
      /\ rest \in Seq(TrackerNode \cup {NoFile})
  BY <1>1
<1>3. 1 \in 1..n /\ \A i \in 1..(n - 1) : i + 1 \in 1..n
  BY <1>2
<1>4. \A i \in 1..Len(rest) : rest[i] # NoFile => Covered(rest[i], ft)
  BY <1>1, <1>2, <1>3 DEF InboxKnown
<1>5. Head(queue) # NoFile => Covered(Head(queue), ft)
  BY <1>1, <1>2, <1>3 DEF InboxKnown
<1>6. rest # <<>> => Last(rest) = Last(queue)
  <2> SUFFICES ASSUME rest # <<>> PROVE Last(rest) = Last(queue)
    OBVIOUS
  <2>1. n - 1 \in 1..(n - 1)
    BY <1>2
  <2>2. rest[n - 1] = queue[n]
    BY <1>2, <2>1
  <2> QED BY <1>2, <2>2 DEF Last
<1>7. rest = <<>> => Last(queue) = Head(queue)
  <2> SUFFICES ASSUME rest = <<>> PROVE Last(queue) = Head(queue)
    OBVIOUS
  <2>1. Len(rest) = 0
    <3>1. Len(<<>>) = 0
      OBVIOUS
    <3> QED BY <3>1
  <2>2. n = 1
    BY <1>2, <2>1
  <2> QED BY <1>2, <2>2 DEF Last
<1> QED BY <1>2, <1>4, <1>5, <1>6, <1>7

LEMMA CompareNodeStep ==
  ASSUME IInv, TypeOK', NEW p \in Ips, CompareNode(p)
  PROVE  IInv'
<1> DEFINE seek == Head(inbox[p])
           mine == node[p]
<1>1. /\ TypeOK /\ PeerInv(p) /\ mine \in PeerNode \cup {NoFile} /\ ft \in TrackerNode \cup {NoFile}
      /\ events \in [Ips -> Seq(Kinds)]
  BY DEF IInv, TypeOK, Kinds
<1>2. /\ ft' = ft /\ clock' = clock /\ online' = online /\ outbox' = outbox /\ p \in online
      /\ inbox[p] # <<>> /\ inbox'[p] = Tail(inbox[p])
      /\ \A q \in Ips \ {p} : inbox'[q] = inbox[q]
  BY <1>1 DEF CompareNode, user, tracker, TypeOK
<1>3. /\ seek \in TrackerNode \cup {NoFile}
      /\ seek # NoFile => Covered(seek, ft)
      /\ \A i \in 1..Len(inbox'[p]) : inbox'[p][i] # NoFile => Covered(inbox'[p][i], ft)
      /\ inbox'[p] # <<>> => Last(inbox'[p]) = Last(inbox[p])
      /\ inbox'[p] = <<>> => Last(inbox[p]) = seek
  BY <1>2, InboxTail
<1> HIDE DEF seek
<1>4. InboxKnown(p)'
  BY <1>2, <1>3 DEF InboxKnown, Covered
<1>5. CASE WantsDownload(mine, seek) /\ StartLoad(p, seek) /\ UNCHANGED <<disk, events>>
  <2>1. seek \in TrackerNode /\ Covered(seek, ft)
    BY <1>3, <1>5 DEF WantsDownload
  <2>2. /\ node'[p] \in PeerNode /\ node'[p] # NoFile /\ node'[p].type = "FILE_DOWNLOADING"
        /\ node'[p].timestamp = seek.timestamp /\ node'[p].size = seek.size
        /\ \A q \in Ips \ {p} : /\ node'[q] = node[q] /\ loads'[q] = loads[q]
                                /\ mishaps'[q] = mishaps[q]
        /\ mishaps[p] \subseteq mishaps'[p]
        /\ mishaps'[p] \subseteq mishaps[p] \cup {"overlap", "skewed"}
        /\ seek.timestamp > clock[p] => Skewed(p)'
    BY <1>1, <1>5, <2>1, StartLoadLemma DEF Skewed
  <2>3. PICK k \in LoadIds :
          /\ loads'[p][k] # Idle /\ loads'[p][k].step = "fetch"
          /\ \A j \in LoadIds \ {k} : loads'[p][j] # Idle => loads[p][j] # Idle
          /\ k > 1 => "overlap" \in mishaps'[p]
          /\ k = 1 => \A j \in LoadIds : j \in {k} \/ j > 1
    BY <1>1, <1>5, <2>1, StartLoadLemma
  <2>4. TypeOf(node'[p]) = "FILE_DOWNLOADING"
    BY <2>2 DEF TypeOf
  <2>5. Overlapped(p) => Overlapped(p)'
    BY <2>2 DEF Overlapped
  <2>6. \A q \in Ips \ {p} : Same(q)
    BY <1>2, <1>5, <2>2 DEF Same
  <2>7. NothingRemains(p)' /\ NotStuck(p)' /\ AnnouncedOrKnown(p)'
    BY <1>2, <2>3, <2>4 DEF NothingRemains, NotStuck, AnnouncedOrKnown
  <2>8. LoadsHaveNode(p)'
    BY <1>1, <2>2, <2>3, <2>5 DEF PeerInv, LoadsHaveNode, Overlapped
  <2>9. StampsNotLate(p)'
    <3>1. Skewed(p)' \/ node'[p].timestamp <= clock[p]
      <4>1. seek.timestamp \in Nat /\ clock[p] \in Nat
        BY <1>1, <2>1, ClockType DEF TrackerNode
      <4> QED BY <2>2, <4>1
    <3> QED BY <1>1, <1>2, <1>5, <2>2, <3>1 DEF PeerInv, StampsNotLate, NotLate, Skewed
  <2>10. FileMatchesNode(p)'
    <3> SUFFICES ASSUME HasFile(p)', ~Overlapped(p)' PROVE FALSE
      BY DEF FileMatchesNode
    <3>1. PICK j \in LoadIds : loads'[p][j] # Idle /\ loads'[p][j].step = "open"
      BY <2>2 DEF HasFile
    <3>2. j # k /\ loads[p][j] # Idle
      BY <2>3, <3>1
    <3>3. k = 1
      BY <2>3 DEF Overlapped, LoadIds
    <3>4. j > 1
      BY <2>3, <3>2, <3>3
    <3> QED BY <1>1, <2>5, <3>2, <3>4 DEF PeerInv, LoadsHaveNode
  <2>11. FileNoticed(p)'
    BY <1>1, <1>2, <1>5, <2>4 DEF PeerInv, FileNoticed
  <2>12. VersionReaches(p)'
    BY <1>2, <2>1, <2>2 DEF VersionReaches, Covered, Newer
  <2>13. TableReaches(p)'
    <3>1. mishaps'[p] \cap {"missed", "overlap"} = {} => mishaps[p] \cap {"missed", "overlap"} = {}
      BY <2>2
    <3> QED BY <1>1, <1>2, <1>3, <2>4, <3>1 DEF PeerInv, TableReaches, Compared, SameEntry
  <2>14. PeerInv(p)'
    BY <1>4, <2>7, <2>8, <2>9, <2>10, <2>11, <2>12, <2>13 DEF PeerInv
  <2> QED BY <1>2, <2>6, <2>14, PeerStep
<1>6. CASE /\ WantsDelete(mine, seek)
           /\ SetNode(p, [mine EXCEPT !.type = "FILE_DELETE"])
           /\ RemoveFile(p)
           /\ UNCHANGED <<loads, mishaps>>
  <2>1. mine # NoFile /\ mine \in PeerNode /\ mine.type # "FILE_DELETE"
        /\ seek # NoFile /\ seek.type = "FILE_DELETE"
    BY <1>1, <1>6 DEF WantsDelete
  <2>2. /\ node'[p] # NoFile /\ node'[p].type = "FILE_DELETE"
        /\ node'[p].timestamp = mine.timestamp /\ node'[p].size = mine.size
        /\ \A q \in Ips \ {p} : node'[q] = node[q]
    <3>1. [mine EXCEPT !.type = "FILE_DELETE"] \in PeerNode
      BY <2>1, Constants DEF PeerNode
    <3>2. node'[p] = [mine EXCEPT !.type = "FILE_DELETE"] /\ \A q \in Ips \ {p} : node'[q] = node[q]
      BY <1>1, <1>6 DEF SetNode, TypeOK
    <3> QED BY <2>1, <3>1, <3>2, Constants DEF PeerNode
  <2>3. TypeOf(node'[p]) = "FILE_DELETE"
    BY <2>2 DEF TypeOf
  <2>4. /\ disk'[p] = NoFile /\ \A q \in Ips \ {p} : disk'[q] = disk[q] /\ events'[q] = events[q]
        /\ HasDelete(events[p]) \/ disk[p] # NoFile => HasDelete(events'[p])
    <3>1. CASE disk[p] = NoFile /\ UNCHANGED <<disk, events>>
      BY <3>1
    <3>2. CASE disk[p] # NoFile /\ disk' = [disk EXCEPT ![p] = NoFile] /\ Notice(p, "delete")
      <4>1. Noticed(p, "delete")
        BY <1>1, <3>2, NoticeLemma DEF Kinds
      <4> QED BY <1>1, <1>2, <3>2, <4>1 DEF Noticed, TypeOK
    <3> QED BY <1>6, <3>1, <3>2 DEF RemoveFile
  <2>5. \A q \in Ips \ {p} : Same(q)
    BY <1>2, <1>6, <2>2, <2>4 DEF Same
  <2>6. NothingRemains(p)' /\ NotStuck(p)' /\ AnnouncedOrKnown(p)' /\ FileNoticed(p)' /\ FileMatchesNode(p)'
    BY <1>2, <2>2, <2>3, <2>4 DEF NothingRemains, NotStuck, AnnouncedOrKnown, FileNoticed,
      FileMatchesNode, HasFile
  <2>7. LoadsHaveNode(p)' /\ StampsNotLate(p)'
    BY <1>1, <1>2, <1>6, <2>1, <2>2, <2>4 DEF PeerInv, LoadsHaveNode, StampsNotLate, NotLate, Overlapped, Skewed
  <2>8. VersionReaches(p)'
    <3>1. \A theirs : Covered(mine, theirs) => Covered(node'[p], theirs)
      BY <2>2 DEF Covered, Newer
    <3>2. CASE mine.type = "FILE_DOWNLOAD" /\ ~Overlapped(p)
      <4>1. HasFile(p)
        BY <2>1, <3>2 DEF HasFile
      <4>2. HasDelete(events[p]) \/ disk[p] # NoFile
        BY <1>1, <3>2, <4>1 DEF PeerInv, FileMatchesNode
      <4> QED BY <2>4, <4>2 DEF VersionReaches
    <3>3. CASE Overlapped(p)
      BY <1>6, <3>3 DEF VersionReaches, Overlapped
    <3>4. CASE mine.type # "FILE_DOWNLOAD"
      <4>1. TypeOf(mine) # "FILE_DOWNLOAD"
        BY <2>1, <3>4 DEF TypeOf
      <4>2. \/ Covered(mine, ft)
            \/ \E i \in 1..Len(outbox[p]) : Covered(mine, outbox[p][i])
            \/ HasDelete(events[p])
            \/ Overlapped(p)
        BY <1>1, <2>1, <4>1 DEF PeerInv, VersionReaches
      <4>3. \/ Covered(node'[p], ft)
            \/ \E i \in 1..Len(outbox[p]) : Covered(node'[p], outbox[p][i])
            \/ HasDelete(events'[p])
            \/ Overlapped(p)'
        BY <1>6, <2>4, <3>1, <4>2 DEF Overlapped
      <4> QED BY <1>2, <4>3 DEF VersionReaches, Covered
    <3> QED BY <3>2, <3>3, <3>4
  <2>9. TableReaches(p)'
    <3> SUFFICES ASSUME ft # NoFile, mishaps[p] \cap {"missed", "overlap"} = {}
                 PROVE  IF inbox'[p] = <<>> THEN Compared(p)' ELSE SameEntry(Last(inbox'[p]), ft)
      BY <1>2, <1>6 DEF TableReaches, SameEntry
    <3>1. SameEntry(Last(inbox[p]), ft)
      BY <1>1, <1>2 DEF PeerInv, TableReaches
    <3>2. ASSUME inbox'[p] = <<>> PROVE Compared(p)'
      BY <1>2, <1>3, <2>1, <2>3, <3>1, <3>2 DEF Compared, Agrees, SameEntry
    <3> QED BY <1>3, <3>1, <3>2
  <2>10. PeerInv(p)'
    BY <1>4, <2>6, <2>7, <2>8, <2>9 DEF PeerInv
  <2> QED BY <1>2, <2>5, <2>10, PeerStep
<1>7. CASE /\ ~WantsDownload(mine, seek) /\ ~WantsDelete(mine, seek)
           /\ UNCHANGED <<node, disk, events, loads, mishaps>>
  <2>1. \A q \in Ips \ {p} : Same(q)
    BY <1>2, <1>7 DEF Same
  <2>2. /\ NothingRemains(p)' /\ LoadsHaveNode(p)' /\ NotStuck(p)' /\ StampsNotLate(p)'
        /\ FileMatchesNode(p)' /\ FileNoticed(p)' /\ VersionReaches(p)' /\ AnnouncedOrKnown(p)'
    BY <1>1, <1>2, <1>7 DEF PeerInv, NothingRemains, LoadsHaveNode, NotStuck, StampsNotLate, NotLate,
      FileMatchesNode, HasFile, FileNoticed, VersionReaches, AnnouncedOrKnown, Overlapped, Skewed, Covered, KnownAs
  <2>3. TableReaches(p)'
    <3> SUFFICES ASSUME ft # NoFile, mishaps[p] \cap {"missed", "overlap"} = {}
                 PROVE  IF inbox'[p] = <<>> THEN Compared(p) ELSE SameEntry(Last(inbox'[p]), ft)
      BY <1>2, <1>7 DEF TableReaches, SameEntry, Compared
    <3>1. SameEntry(Last(inbox[p]), ft)
      BY <1>1, <1>2 DEF PeerInv, TableReaches
    <3>2. ASSUME inbox'[p] = <<>> PROVE Compared(p)
      <4> SUFFICES ASSUME ~Compared(p) PROVE FALSE
        OBVIOUS
      <4>1. /\ seek # NoFile /\ seek \in TrackerNode /\ ft \in TrackerNode
            /\ seek.timestamp = ft.timestamp /\ seek.size = ft.size /\ seek.type = ft.type
        BY <1>1, <1>3, <3>1, <3>2 DEF SameEntry, SameVersion
      <4>2. seek.size > 0 /\ ~(seek.type = "FILE_DELETE" /\ TypeOf(mine) \in {"none", "FILE_DELETE"})
        BY <4>1 DEF Compared, Agrees, TrackerNode
      <4>3. mine # NoFile
        BY <1>7, <4>1, <4>2 DEF WantsDownload
      <4>4. /\ mine \in PeerNode /\ TypeOf(mine) = mine.type
            /\ mine.type \notin {"FILE_DOWNLOAD", "FILE_DOWNLOADING"}
            /\ ~SameVersion(mine, ft) /\ ~HasDelete(events[p]) /\ outbox[p] = <<>>
        BY <1>1, <4>3 DEF Compared, Agrees, TypeOf
      <4>5. Len(outbox[p]) = 0
        BY <4>4
      <4>6. Covered(mine, ft)
        BY <1>1, <4>3, <4>4, <4>5 DEF PeerInv, VersionReaches, Overlapped
      <4>7. Newer(ft, mine)
        BY <4>1, <4>4, <4>6 DEF Covered, Newer, SameVersion, PeerNode, TrackerNode
      <4>8. CASE seek.type = "FILE_DELETE"
        BY <1>7, <4>1, <4>2, <4>3, <4>4, <4>7, <4>8 DEF WantsDelete, Newer, PeerNode, TrackerNode
      <4>9. CASE seek.type # "FILE_DELETE"
        <5>1. Newer(seek, mine)
          BY <4>1, <4>7 DEF Newer
        <5> QED BY <1>7, <4>1, <4>2, <4>4, <4>9, <5>1 DEF WantsDownload
      <4> QED BY <4>8, <4>9
    <3> QED BY <1>3, <3>1, <3>2
  <2>4. PeerInv(p)'
    BY <1>4, <2>2, <2>3 DEF PeerInv
  <2> QED BY <1>2, <2>1, <2>4, PeerStep
<1> QED BY <1>5, <1>6, <1>7 DEF CompareNode, seek

-----------------------------------------------------------------------------
(* Steps of the tracker.                                                   *)

\* Versions are ordered.
LEMMA VersionOrder ==
  ASSUME NEW a, NEW b, NEW c,
         a.timestamp \in Nat, a.size \in Nat, b.timestamp \in Nat, b.size \in Nat,
         c.timestamp \in Nat, c.size \in Nat
  PROVE  /\ ~Newer(a, b) /\ ~Newer(b, c) => ~Newer(a, c)
         /\ ~Newer(a, b) /\ (Newer(c, b) \/ SameVersion(c, b)) => ~Newer(a, c)
         /\ Newer(b, a) /\ (Newer(c, b) \/ SameVersion(c, b)) => Newer(c, a)
         /\ ~Newer(a, b) => Newer(b, a) \/ SameVersion(a, b)
         /\ SameVersion(a, b) /\ Newer(c, b) => Newer(c, a)
         /\ SameVersion(a, b) /\ SameVersion(c, b) => SameVersion(a, c)
BY DEF Newer, SameVersion

\* What a step of the tracker does to its node: the version does not grow older.
Advances ==
  /\ ft' \in TrackerNode \cup {NoFile}
  /\ ft # NoFile => ft' # NoFile /\ (Newer(ft', ft) \/ SameVersion(ft', ft))

\* What was covered stays so.
LEMMA CoveredStays ==
  ASSUME TypeOK, Advances, NEW mine \in PeerNode \cup TrackerNode, Covered(mine, ft)
  PROVE  Covered(mine, ft')
<1>1. ft \in TrackerNode /\ ft' \in TrackerNode
  BY DEF TypeOK, Advances, Covered
<1>2. /\ mine.timestamp \in Nat /\ mine.size \in Nat /\ ft.timestamp \in Nat /\ ft.size \in Nat
      /\ ft'.timestamp \in Nat /\ ft'.size \in Nat
  BY <1>1 DEF PeerNode, TrackerNode
<1> QED BY <1>2, VersionOrder DEF Covered, Advances

LEMMA RecvUpdateStep ==
  ASSUME IInv, TypeOK', NEW p \in Ips, RecvUpdate(p)
  PROVE  IInv'
<1> DEFINE theirs == Head(outbox[p])
<1>1. /\ TypeOK /\ TrackerInv /\ ft \in TrackerNode \cup {NoFile}
      /\ \A q \in Ips : PeerInv(q) /\ node[q] \in PeerNode \cup {NoFile}
  <2>1. TypeOK /\ TrackerInv /\ \A q \in Ips : PeerInv(q)
    BY DEF IInv
  <2> QED BY <2>1 DEF TypeOK
<1>2. /\ clock' = clock /\ online' = online /\ node' = node /\ disk' = disk
      /\ events' = events /\ loads' = loads
      /\ outbox[p] \in Seq(PeerNode \cup {NoFile}) /\ outbox[p] # <<>>
      /\ outbox'[p] = Tail(outbox[p]) /\ \A q \in Ips \ {p} : outbox'[q] = outbox[q]
      /\ ft' = IF theirs = NoFile THEN ft ELSE MergeNode(ft, theirs, p)
  BY <1>1 DEF RecvUpdate, user, TypeOK
<1>3. PICK reached \in SUBSET online :
        /\ inbox' = [q \in Ips |-> IF q \in reached THEN Append(inbox[q], ft') ELSE inbox[q]]
        /\ mishaps' = [q \in Ips |->
             (IF q = p THEN MishapsOfMerge(p, theirs) ELSE mishaps[q]) \cup
             (IF q \in online \ reached THEN {"missed"} ELSE {})]
  BY DEF RecvUpdate
<1>4. /\ Len(outbox[p]) \in Nat \ {0} /\ theirs = outbox[p][1] /\ theirs \in PeerNode \cup {NoFile}
      /\ Len(outbox'[p]) = Len(outbox[p]) - 1
      /\ \A i \in 1..Len(outbox'[p]) : outbox'[p][i] = outbox[p][i + 1] /\ i + 1 \in 1..Len(outbox[p])
      /\ \A i \in 1..Len(outbox[p]) : i = 1 \/ (i - 1 \in 1..Len(outbox'[p]) /\ outbox'[p][i - 1] = outbox[p][i])
      /\ 1 \in 1..Len(outbox[p])
  BY <1>2
<1> HIDE DEF theirs
<1>5. /\ ft' \in TrackerNode \cup {NoFile}
      /\ ft' # NoFile => Len(ft'.newpeerip) <= MAX_PEER_NUM
  BY <1>1, <1>2, <1>4, MergeTypes
<1>6. /\ theirs # NoFile => Covered(theirs, ft')
      /\ theirs # NoFile /\ SameVersion(theirs, ft') =>
           \/ p \in Holders(ft'.newpeerip)
           \/ /\ ft # NoFile /\ SameVersion(theirs, ft)
              /\ p \notin Holders(ft.newpeerip) /\ Len(ft.newpeerip) = MAX_PEER_NUM
      /\ ft # NoFile =>
           /\ ft' # NoFile
           /\ \/ Newer(ft', ft)
              \/ SameVersion(ft', ft) /\ \A q \in Holders(ft.newpeerip) : q \in Holders(ft'.newpeerip)
      /\ ft' # NoFile =>
           \/ theirs # NoFile /\ ft'.timestamp = theirs.timestamp
           \/ ft # NoFile /\ ft'.timestamp = ft.timestamp
  <2>1. CASE theirs = NoFile
    BY <1>2, <2>1 DEF SameVersion
  <2>2. CASE theirs # NoFile
    <3>1. theirs \in PeerNode /\ ft' = MergeNode(ft, theirs, p)
      BY <1>2, <1>4, <2>2
    <3>2. ft # NoFile => Len(ft.newpeerip) <= MAX_PEER_NUM
      BY <1>1 DEF TrackerInv
    <3>3. /\ ft' \in TrackerNode /\ ft' # NoFile
          /\ Len(ft'.newpeerip) <= MAX_PEER_NUM
          /\ ~Newer(theirs, ft')
          /\ SameVersion(theirs, ft') =>
               \/ p \in Holders(ft'.newpeerip)
               \/ ft # NoFile /\ SameVersion(theirs, ft) /\ ft'.newpeerip = ft.newpeerip
                  /\ p \notin Holders(ft.newpeerip) /\ Len(ft.newpeerip) = MAX_PEER_NUM
          /\ ft # NoFile =>
               \/ Newer(ft', ft)
               \/ SameVersion(ft', ft) /\ \A q \in Holders(ft.newpeerip) : q \in Holders(ft'.newpeerip)
          /\ ft'.timestamp = theirs.timestamp \/ (ft # NoFile /\ ft'.timestamp = ft.timestamp)
      <4>1. ft \in TrackerNode \cup {NoFile}
        BY <1>1
      <4> QED BY <3>1, <3>2, <4>1, MergeNodeLemma
    <3> QED BY <2>2, <3>3 DEF Covered
  <2> QED BY <2>1, <2>2
<1>7. Advances
  BY <1>5, <1>6 DEF Advances
<1>8. TrackerInv'
  BY <1>5 DEF TrackerInv
<1>9. ASSUME NEW q \in Ips
      PROVE  PeerInv(q)'
  <2>1. /\ Overlapped(q)' <=> Overlapped(q)
        /\ Skewed(q)' <=> Skewed(q)
        /\ "missed" \in mishaps[q] => "missed" \in mishaps'[q]
        /\ q \in online \ reached => "missed" \in mishaps'[q]
        /\ q # p => mishaps[q] \subseteq mishaps'[q]
        /\ q = p => MishapsOfMerge(p, theirs) \subseteq mishaps'[p]
    BY <1>3 DEF Overlapped, Skewed, MishapsOfMerge
  <2>2. /\ q \in reached => inbox'[q] = Append(inbox[q], ft')
        /\ q \notin reached => inbox'[q] = inbox[q]
    BY <1>3
  <2>3. NothingRemains(q)'
    <3> SUFFICES ASSUME q \notin online
                 PROVE  inbox'[q] = <<>> /\ mishaps'[q] = {}
      BY <1>1, <1>2 DEF PeerInv, NothingRemains
    <3>1. inbox[q] = <<>> /\ mishaps[q] = {} /\ q \notin reached
      BY <1>1, <1>3 DEF PeerInv, NothingRemains
    <3>2. q = p => MishapsOfMerge(p, theirs) = {}
      BY <3>1 DEF MishapsOfMerge, Crowded
    <3> QED BY <1>3, <3>1, <3>2
  <2>4. LoadsHaveNode(q)' /\ NotStuck(q)' /\ FileMatchesNode(q)' /\ FileNoticed(q)'
    BY <1>1, <1>2, <2>1 DEF PeerInv, LoadsHaveNode, NotStuck, FileMatchesNode, HasFile, FileNoticed
  <2>5. StampsNotLate(q)'
    BY <1>1, <1>2, <2>1 DEF PeerInv, StampsNotLate, NotLate
  <2>6. inbox[q] \in Seq(TrackerNode \cup {NoFile})
    BY <1>1 DEF TypeOK
  <2>7. ASSUME NEW i \in 1..Len(inbox[q]), inbox[q][i] # NoFile
        PROVE  Covered(inbox[q][i], ft')
    <3>1. inbox[q][i] \in TrackerNode
      BY <2>6, <2>7
    <3>2. Covered(inbox[q][i], ft)
      BY <1>1, <2>7 DEF PeerInv, InboxKnown
    <3> QED BY <1>1, <1>7, <3>1, <3>2, CoveredStays
  <2>8. InboxKnown(q)'
    <3>1. CASE q \notin reached
      BY <2>2, <2>7, <3>1 DEF InboxKnown, Covered
    <3>2. CASE q \in reached
      <4>1. /\ Len(inbox'[q]) = Len(inbox[q]) + 1 /\ Len(inbox[q]) \in Nat
            /\ \A i \in 1..Len(inbox[q]) : inbox'[q][i] = inbox[q][i]
            /\ inbox'[q][Len(inbox[q]) + 1] = ft'
        BY <1>5, <2>2, <2>6, <3>2
      <4>2. ft' # NoFile => Covered(ft', ft')
        BY <1>5 DEF Covered, Newer, TrackerNode
      <4>3. ASSUME NEW i \in 1..Len(inbox'[q]), inbox'[q][i] # NoFile
            PROVE  Covered(inbox'[q][i], ft')
        <5>1. i \in 1..Len(inbox[q]) \/ i = Len(inbox[q]) + 1
          BY <4>1
        <5> QED BY <2>7, <4>1, <4>2, <4>3, <5>1
      <4> QED BY <4>3 DEF InboxKnown, Covered
    <3> QED BY <3>1, <3>2
  <2>9. VersionReaches(q)'
    <3> SUFFICES ASSUME node[q] # NoFile, TypeOf(node[q]) # "FILE_DOWNLOAD",
                        ~HasDelete(events[q]), ~Overlapped(q)
                 PROVE  \/ Covered(node[q], ft')
                        \/ \E i \in 1..Len(outbox'[q]) : Covered(node[q], outbox'[q][i])
      BY <1>2, <2>1 DEF VersionReaches, Covered
    <3>1. node[q] \in PeerNode
      BY <1>1
    <3>2. Covered(node[q], ft) \/ \E i \in 1..Len(outbox[q]) : Covered(node[q], outbox[q][i])
      BY <1>1 DEF PeerInv, VersionReaches
    <3>3. CASE Covered(node[q], ft)
      BY <1>1, <1>7, <3>1, <3>3, CoveredStays
    <3>4. ASSUME NEW i \in 1..Len(outbox[q]), Covered(node[q], outbox[q][i])
          PROVE  \/ Covered(node[q], ft')
                 \/ \E j \in 1..Len(outbox'[q]) : Covered(node[q], outbox'[q][j])
      <4>1. CASE q # p
        BY <1>2, <3>4, <4>1
      <4>2. CASE q = p /\ i # 1
        BY <1>4, <3>4, <4>2
      <4>3. CASE q = p /\ i = 1
        <5>1. theirs \in PeerNode /\ Covered(node[q], theirs) /\ Covered(theirs, ft') /\ ft' \in TrackerNode
          BY <1>4, <1>5, <1>6, <3>4, <4>3 DEF Covered
        <5>2. /\ node[q].timestamp \in Nat /\ node[q].size \in Nat
              /\ theirs.timestamp \in Nat /\ theirs.size \in Nat
              /\ ft'.timestamp \in Nat /\ ft'.size \in Nat
          BY <3>1, <5>1 DEF PeerNode, TrackerNode
        <5> QED BY <5>1, <5>2, VersionOrder DEF Covered
      <4> QED BY <4>1, <4>2, <4>3
    <3> QED BY <3>2, <3>3, <3>4
  <2>10. TableReaches(q)'
    <3> SUFFICES ASSUME q \in online, ft' # NoFile, mishaps'[q] \cap {"missed", "overlap"} = {}
                 PROVE  inbox'[q] # <<>> /\ SameEntry(Last(inbox'[q]), ft')
      BY <1>2 DEF TableReaches, SameEntry
    <3>1. inbox'[q] = Append(inbox[q], ft')
      BY <2>1, <2>2
    <3>2. inbox'[q] # <<>> /\ Last(inbox'[q]) = ft'
      BY <1>5, <2>6, <3>1 DEF Last
    <3> QED BY <3>2 DEF SameEntry, SameVersion
  <2>11. AnnouncedOrKnown(q)'
    <3> SUFFICES ASSUME TypeOf(node[q]) \in {"FILE_CREATE", "FILE_MODIFY"}
                 PROVE  \/ \E i \in 1..Len(outbox'[q]) :
                             outbox'[q][i] # NoFile /\ SameVersion(node[q], outbox'[q][i])
                        \/ KnownAs(q, node[q])'
      BY <1>2 DEF AnnouncedOrKnown, KnownAs
    <3>1. node[q] # NoFile /\ node[q] \in PeerNode /\ q \in online
      BY <1>1 DEF TypeOf, PeerInv, NothingRemains
    <3>2. node[q].timestamp \in Nat /\ node[q].size \in Nat
      BY <3>1 DEF PeerNode
    <3>3. CASE KnownAs(q, node[q])
      <4>1. ft \in TrackerNode /\ ft' \in TrackerNode
        BY <1>1, <1>5, <1>6, <3>3 DEF KnownAs
      <4>2. /\ ft.timestamp \in Nat /\ ft.size \in Nat /\ ft'.timestamp \in Nat /\ ft'.size \in Nat
        BY <4>1 DEF TrackerNode
      <4>3. CASE Newer(ft, node[q])
        <5>1. Newer(ft', node[q])
          BY <1>6, <3>2, <3>3, <4>2, <4>3, VersionOrder DEF KnownAs
        <5> QED BY <1>2, <1>6, <3>3, <5>1 DEF KnownAs
      <4>4. CASE SameVersion(node[q], ft) /\ Newer(ft', ft)
        <5>1. Newer(ft', node[q])
          BY <3>2, <4>2, <4>4, VersionOrder
        <5> QED BY <1>2, <1>6, <3>3, <5>1 DEF KnownAs
      <4>5. CASE SameVersion(node[q], ft) /\ SameVersion(ft', ft)
                 /\ \A r \in Holders(ft.newpeerip) : r \in Holders(ft'.newpeerip)
        <5>1. SameVersion(node[q], ft')
          BY <3>2, <4>2, <4>5, VersionOrder
        <5>2. CASE q \in Holders(ft.newpeerip)
          BY <1>2, <1>6, <3>3, <4>5, <5>1, <5>2 DEF KnownAs
        <5>3. CASE mishaps[q] \cap {"crowded", "delisted"} # {}
          <6>1. q \in Holders(ft'.newpeerip) \/ mishaps'[q] \cap {"crowded", "delisted"} # {}
            BY <2>1, <5>3 DEF MishapsOfMerge
          <6> QED BY <1>2, <1>6, <3>3, <5>1, <6>1 DEF KnownAs
        <5>4. ~Newer(ft, node[q])
          BY <3>2, <4>2, <4>5 DEF Newer, SameVersion
        <5> QED BY <3>3, <5>2, <5>3, <5>4 DEF KnownAs
      <4> QED BY <1>6, <3>3, <4>3, <4>4, <4>5 DEF KnownAs
    <3>4. ASSUME NEW i \in 1..Len(outbox[q]), outbox[q][i] # NoFile, SameVersion(node[q], outbox[q][i])
          PROVE  \/ \E j \in 1..Len(outbox'[q]) :
                      outbox'[q][j] # NoFile /\ SameVersion(node[q], outbox'[q][j])
                 \/ KnownAs(q, node[q])'
      <4>1. CASE q # p
        BY <1>2, <3>4, <4>1
      <4>2. CASE q = p /\ i # 1
        BY <1>4, <3>4, <4>2
      <4>3. CASE q = p /\ i = 1
        <5>1. /\ theirs # NoFile /\ theirs \in PeerNode /\ SameVersion(node[q], theirs)
              /\ Covered(theirs, ft') /\ ft' # NoFile /\ ft' \in TrackerNode
          BY <1>4, <1>5, <1>6, <3>4, <4>3 DEF Covered
        <5>2. /\ theirs.timestamp \in Nat /\ theirs.size \in Nat
              /\ ft'.timestamp \in Nat /\ ft'.size \in Nat
          BY <5>1 DEF PeerNode, TrackerNode
        <5>3. Newer(ft', theirs) \/ SameVersion(theirs, ft')
          BY <5>1, <5>2, VersionOrder DEF Covered
        <5>4. CASE Newer(ft', theirs)
          <6>1. Newer(ft', node[q])
            BY <3>2, <5>1, <5>2, <5>4, VersionOrder
          <6> QED BY <1>2, <5>1, <6>1 DEF KnownAs
        <5>5. CASE SameVersion(theirs, ft')
          <6>1. SameVersion(node[q], ft')
            BY <5>1, <5>5 DEF SameVersion
          <6>2. CASE p \in Holders(ft'.newpeerip)
            BY <1>2, <4>3, <5>1, <6>1, <6>2 DEF KnownAs
          <6>3. CASE p \notin Holders(ft'.newpeerip)
            <7>1. Crowded(p, theirs)
              BY <1>6, <3>1, <4>3, <5>1, <5>5, <6>3 DEF Crowded
            <7>2. "crowded" \in mishaps'[p]
              BY <2>1, <4>3, <6>3, <7>1 DEF MishapsOfMerge
            <7> QED BY <1>2, <4>3, <5>1, <6>1, <7>2 DEF KnownAs
          <6> QED BY <6>2, <6>3
        <5> QED BY <5>3, <5>4, <5>5
      <4> QED BY <4>1, <4>2, <4>3
    <3> QED BY <1>1, <3>3, <3>4 DEF PeerInv, AnnouncedOrKnown
  <2> QED BY <2>3, <2>4, <2>5, <2>8, <2>9, <2>10, <2>11 DEF PeerInv
<1> QED BY <1>8, <1>9 DEF IInv

LEMMA SessionEndsStep ==
  ASSUME IInv, TypeOK', NEW p \in Ips, SessionEnds(p)
  PROVE  IInv'
<1>1. /\ TypeOK /\ TrackerInv /\ ft \in TrackerNode \cup {NoFile} /\ \A q \in Ips : PeerInv(q)
      /\ p \in Ips
  BY DEF IInv, TypeOK
<1>2. /\ clock' = clock /\ online' = online /\ node' = node /\ disk' = disk
      /\ events' = events /\ loads' = loads /\ inbox' = inbox /\ outbox' = outbox
      /\ mishaps' = [mishaps EXCEPT ![p] = IF p \in online THEN @ \cup {"delisted"} ELSE @]
  BY DEF SessionEnds, user
<1>3. /\ ft' \in TrackerNode \cup {NoFile}
      /\ ft = NoFile <=> ft' = NoFile
      /\ ft # NoFile =>
           /\ ft'.timestamp = ft.timestamp /\ ft'.size = ft.size /\ ft'.type = ft.type
           /\ Len(ft'.newpeerip) <= MAX_PEER_NUM
           /\ \A q \in Holders(ft.newpeerip) \ {p} : q \in Holders(ft'.newpeerip)
  BY <1>1, DelistTypes DEF SessionEnds
<1>4. TrackerInv'
  BY <1>3 DEF TrackerInv
<1>5. ASSUME NEW q \in Ips
      PROVE  PeerInv(q)'
  <2>1. /\ mishaps[q] \subseteq mishaps'[q]
        /\ mishaps'[q] \cap {"missed", "overlap"} = mishaps[q] \cap {"missed", "overlap"}
        /\ Overlapped(q)' <=> Overlapped(q)
        /\ Skewed(q)' <=> Skewed(q)
        /\ q \notin online => mishaps'[q] = mishaps[q]
        /\ q \in online /\ q = p => "delisted" \in mishaps'[q]
    BY <1>1, <1>2 DEF Overlapped, Skewed, TypeOK
  <2>2. \A mine : Covered(mine, ft) => Covered(mine, ft')
    BY <1>3 DEF Covered, Newer
  <2>3. /\ NothingRemains(q)' /\ LoadsHaveNode(q)' /\ NotStuck(q)' /\ StampsNotLate(q)'
        /\ FileMatchesNode(q)' /\ FileNoticed(q)'
    BY <1>1, <1>2, <2>1 DEF PeerInv, NothingRemains, LoadsHaveNode, NotStuck, StampsNotLate, NotLate,
      FileMatchesNode, HasFile, FileNoticed
  <2>4. InboxKnown(q)'
    BY <1>1, <1>2, <2>2 DEF PeerInv, InboxKnown, Covered
  <2>5. VersionReaches(q)'
    <3> SUFFICES ASSUME node[q] # NoFile, TypeOf(node[q]) # "FILE_DOWNLOAD",
                        ~HasDelete(events[q]), ~Overlapped(q)
                 PROVE  \/ Covered(node[q], ft')
                        \/ \E i \in 1..Len(outbox[q]) : Covered(node[q], outbox[q][i])
      BY <1>2, <2>1 DEF VersionReaches, Covered
    <3> QED BY <1>1, <2>2 DEF PeerInv, VersionReaches
  <2>6. TableReaches(q)'
    <3>1. ft # NoFile => /\ \A mine : Agrees(mine, ft) => Agrees(mine, ft')
                         /\ \A mine : SameEntry(mine, ft) => SameEntry(mine, ft')
      BY <1>3 DEF Agrees, SameEntry, SameVersion
    <3> SUFFICES ASSUME q \in online, ft # NoFile, mishaps[q] \cap {"missed", "overlap"} = {}
                 PROVE  IF inbox[q] = <<>> THEN Compared(q)' ELSE SameEntry(Last(inbox[q]), ft')
      BY <1>2, <1>3, <2>1 DEF TableReaches, SameEntry
    <3>2. IF inbox[q] = <<>> THEN Compared(q) ELSE SameEntry(Last(inbox[q]), ft)
      BY <1>1 DEF PeerInv, TableReaches
    <3> QED BY <1>2, <3>1, <3>2 DEF Compared
  <2>7. AnnouncedOrKnown(q)'
    <3> SUFFICES ASSUME TypeOf(node[q]) \in {"FILE_CREATE", "FILE_MODIFY"}, KnownAs(q, node[q])
                 PROVE  KnownAs(q, node[q])'
      BY <1>1, <1>2 DEF PeerInv, AnnouncedOrKnown, KnownAs
    <3>1. q \in online
      BY <1>1 DEF PeerInv, NothingRemains, TypeOf
    <3>2. Newer(ft, node[q]) => Newer(ft', node[q])
      BY <1>3 DEF KnownAs, Newer
    <3>3. SameVersion(node[q], ft) => SameVersion(node[q], ft')
      BY <1>3 DEF KnownAs, SameVersion
    <3>4. \/ Newer(ft, node[q])
          \/ /\ SameVersion(node[q], ft)
             /\ q \in Holders(ft'.newpeerip) \/ mishaps'[q] \cap {"crowded", "delisted"} # {}
      BY <1>3, <2>1, <3>1 DEF KnownAs
    <3> QED BY <1>2, <1>3, <3>2, <3>3, <3>4 DEF KnownAs
  <2> QED BY <2>3, <2>4, <2>5, <2>6, <2>7 DEF PeerInv
<1> QED BY <1>4, <1>5 DEF IInv

-----------------------------------------------------------------------------
(* The invariant holds always.                                             *)

LEMMA InitIInv == Init => IInv
<1> SUFFICES ASSUME Init PROVE IInv
  OBVIOUS
<1>1. TypeOK
  BY InitTypes
<1>2. TrackerInv
  BY DEF Init, TrackerInv
<1>3. ASSUME NEW p \in Ips
      PROVE  PeerInv(p)
  <2>1. /\ node[p] = NoFile /\ disk[p] = NoFile /\ events[p] = <<>>
        /\ inbox[p] = <<>> /\ outbox[p] = <<>> /\ mishaps[p] = {}
        /\ \A k \in LoadIds : loads[p][k] = Idle
        /\ p \notin online /\ ft = NoFile
    BY <1>3 DEF Init
  <2>2. TypeOf(node[p]) = "none"
    BY <2>1 DEF TypeOf
  <2> QED BY <2>1, <2>2 DEF PeerInv, NothingRemains, LoadsHaveNode, NotStuck, StampsNotLate, NotLate,
    InboxKnown, FileMatchesNode, HasFile, FileNoticed, VersionReaches, TableReaches, AnnouncedOrKnown
<1> QED BY <1>1, <1>2, <1>3 DEF IInv

LEMMA NextIInv == IInv /\ [Next]_vars => IInv'
<1> SUFFICES ASSUME IInv, [Next]_vars PROVE IInv'
  OBVIOUS
<1>1. TypeOK /\ TrackerInv /\ \A p \in Ips : LoadsHaveNode(p)
  BY DEF IInv, PeerInv
<1>2. CASE UNCHANGED vars
  <2>1. TypeOK' /\ ft' = ft
    BY <1>1, <1>2, Constants DEF TypeOK, vars, user, tracker
  <2>2. \A q \in Ips : Same(q)
    BY <1>2 DEF Same, vars, user, tracker
  <2>3. \A q \in Ips : PeerInv(q)'
    BY <1>1, <2>1, <2>2, SameLemma DEF IInv
  <2> QED BY <1>1, <2>1, <2>3 DEF IInv, TrackerInv
<1>3. ASSUME NEW p \in Ips,
             Tick(p) \/ SetBack(p) \/ \E time \in 1..MaxTime : UserStamps(p, time)
      PROVE  IInv'
  <2>1. TypeOK'
    BY <1>1, <1>3, UserTypes
  <2> QED BY <1>3, <2>1, HostStep
<1>4. ASSUME NEW p \in Ips,
             UserDeletes(p) \/ OtherFileChanges(p) \/ \E size \in Sizes : UserSaves(p, size)
      PROVE  IInv'
  <2>1. TypeOK'
    BY <1>1, <1>4, UserTypes
  <2> QED BY <1>4, <2>1, UserFileStep, OtherFileStep
<1>5. ASSUME NEW p \in Ips, HandleEvent(p)
      PROVE  IInv'
  BY <1>1, <1>5, HandleEventTypes, HandleEventStep
<1>6. ASSUME NEW p \in Ips, CompareNode(p)
      PROVE  IInv'
  BY <1>1, <1>6, CompareNodeTypes, CompareNodeStep
<1>7. ASSUME NEW p \in Ips, Start(p)
      PROVE  IInv'
  BY <1>1, <1>7, UserTypes, StartStep
<1>8. ASSUME NEW p \in Ips, Die(p)
      PROVE  IInv'
  BY <1>1, <1>8, UserTypes, DieStep
<1>9. ASSUME NEW p \in Ips, RecvUpdate(p) \/ SessionEnds(p)
      PROVE  IInv'
  <2>1. TypeOK'
    BY <1>1, <1>9, TrackerTypes
  <2> QED BY <1>9, <2>1, RecvUpdateStep, SessionEndsStep
<1>10. ASSUME NEW p \in Ips, NEW k \in LoadIds,
              \/ \E h \in Ips : Fetch(p, k, h)
              \/ OpenFile(p, k) \/ SetNodeType(p, k) \/ CloseFile(p, k)
              \/ \E part \in Flushes : Flush(p, k, part)
       PROVE  IInv'
  <2>1. TypeOK'
    BY <1>1, <1>10, DownloadTypes
  <2>2. CASE SetNodeType(p, k)
    BY <2>1, <2>2, SetNodeTypeStep
  <2>3. CASE ~SetNodeType(p, k)
    BY <1>10, <2>1, <2>3, DownloadStep
  <2> QED BY <2>2, <2>3
<1>11. ASSUME NEW p \in Ips, Stop(p) \/ \E k \in LoadIds, h \in Ips : FetchFails(p, k, h)
       PROVE  IInv'
  BY <1>8, <1>11 DEF Stop, FetchFails
<1> QED BY <1>2, <1>3, <1>4, <1>5, <1>6, <1>7, <1>9, <1>10, <1>11 DEF Next

\* The inductive invariant of the whole system: what each peer's table says of its
\* file, its events and its downloads, and how its node and the tracker's are
\* related through the tables that are on their way.
THEOREM Invariance == Spec => []IInv
<1>1. Init => IInv
  BY InitIInv
<1>2. IInv /\ [Next]_vars => IInv'
  BY NextIInv
<1> QED BY <1>1, <1>2, PTL DEF Spec

-----------------------------------------------------------------------------
(* The properties of Sync.                                                 *)

\* Every variable has its type, on every peer, however long the program runs.
THEOREM TypeCorrect == Spec => []TypeOK
<1>1. IInv => TypeOK
  BY DEF IInv
<1> QED BY <1>1, Invariance, PTL

\* A node that ignores the user's changes and newer versions, because it is being
\* downloaded (peer.c:546, monitor.c fileModified), has a thread that will end that.
THEOREM NeverStuck == Spec => []NoStuckDownload
<1>1. IInv => NoStuckDownload
  BY DEF IInv, PeerInv, NotStuck, NoStuckDownload
<1> QED BY <1>1, Invariance, PTL

\* Nothing under way means nothing in the events and streams of a running peer.
LEMMA QuietPeer ==
  ASSUME Quiet, NEW p \in online
  PROVE  /\ events[p] = <<>> /\ inbox[p] = <<>> /\ outbox[p] = <<>>
         /\ \A k \in LoadIds : loads[p][k] = Idle
         /\ ~HasDelete(events[p]) /\ ~EndsPresent(events[p])
         /\ \A i \in 1..Len(outbox[p]) : FALSE
BY DEF Quiet, HasDelete, EndsPresent

\* A peer that every broadcast has reached has the tracker's version in the end, or
\* one that nobody downloads, in spite of the versions that compareNode skipped
\* (peer.c:546) and of the changes that the monitor had not yet announced.
THEOREM PeersAgree == Spec => []SettledPeersAgree
<1>1. IInv => SettledPeersAgree
  <2> SUFFICES ASSUME IInv, Quiet, ft # NoFile, NEW p \in online,
                      TypeOf(node[p]) # "FILE_DOWNLOAD",
                      mishaps[p] \cap {"missed", "overlap"} = {}
               PROVE  Agrees(node[p], ft)
    BY DEF SettledPeersAgree
  <2>1. p \in Ips /\ PeerInv(p)
    BY DEF IInv, TypeOK
  <2>2. inbox[p] = <<>> /\ outbox[p] = <<>> /\ ~HasDelete(events[p])
    BY QuietPeer
  <2>3. TypeOf(node[p]) # "FILE_DOWNLOADING"
    BY <2>1, QuietPeer DEF PeerInv, NotStuck
  <2> QED BY <2>1, <2>2, <2>3 DEF PeerInv, TableReaches, Compared
<1> QED BY <1>1, Invariance, PTL

\* A deletion reaches the folder: a node that stays FILE_DELETE has no file, whichever
\* download was writing it when the deletion came.
THEOREM DeletedIsGone == Spec => []DeletedMeansGone
<1>1. IInv => DeletedMeansGone
  <2> SUFFICES ASSUME IInv, Quiet, NEW p \in Ips, TypeOf(node[p]) = "FILE_DELETE"
               PROVE  disk[p] = NoFile
    BY DEF DeletedMeansGone, IInv, TypeOK, Quiet
  <2>1. p \in online
    BY DEF IInv, PeerInv, NothingRemains, TypeOf
  <2>2. ~EndsPresent(events[p])
    BY <2>1, QuietPeer
  <2> QED BY <2>1, <2>2 DEF IInv, PeerInv, FileNoticed
<1> QED BY <1>1, Invariance, PTL

\* No interleaving of announcements, deletions and ends of sessions takes a peer that
\* has announced the version off the list of its holders, but those that mishaps
\* tells of: the list was full, or the peer's own last session ended late.
THEOREM HoldersListed == Spec => []AnnouncedIsListed
<1>1. IInv => AnnouncedIsListed
  <2> SUFFICES ASSUME IInv, Quiet, ft # NoFile, NEW p \in online,
                      TypeOf(node[p]) \in {"FILE_CREATE", "FILE_MODIFY"}, SameVersion(node[p], ft)
               PROVE  p \in Holders(ft.newpeerip) \/ mishaps[p] \cap {"crowded", "delisted"} # {}
    BY DEF AnnouncedIsListed
  <2>1. p \in Ips /\ PeerInv(p)
    BY DEF IInv, TypeOK
  <2>2. KnownAs(p, node[p])
    BY <2>1, QuietPeer DEF PeerInv, AnnouncedOrKnown
  <2>3. ~Newer(ft, node[p])
    <3>1. node[p] \in PeerNode /\ ft \in TrackerNode
      BY <2>1 DEF IInv, TypeOK, TypeOf
    <3> QED BY <3>1 DEF Newer, SameVersion, PeerNode, TrackerNode
  <2> QED BY <2>2, <2>3 DEF KnownAs
<1> QED BY <1>1, Invariance, PTL

\* The time stamp of a node that is there, and not deleted, does not fall.
Grows(p) ==
  TypeOf(node[p]) \notin {"none", "FILE_DELETE"} /\ node'[p] # NoFile
    => \/ node'[p].timestamp >= node[p].timestamp
       \/ mishaps'[p] \cap {"overlap", "skewed"} # {}

LEMMA HandleEventGrows ==
  ASSUME IInv, NEW p \in Ips, HandleEvent(p)
  PROVE  Grows(p) /\ \A q \in Ips \ {p} : node'[q] = node[q]
<1>1. TypeOK /\ PeerInv(p) /\ clock[p] \in Nat /\ mishaps' = mishaps /\ p \in online
  BY ClockType DEF IInv, HandleEvent
<1>2. Handles(p) /\ \A q \in Ips \ {p} : node'[q] = node[q]
  BY <1>1, HandlesLemma
<1>3. Grows(p)
  <2> SUFFICES ASSUME TypeOf(node[p]) \notin {"none", "FILE_DELETE"}, ~Overlapped(p), ~Skewed(p)
               PROVE  node'[p].timestamp >= node[p].timestamp
    BY <1>1 DEF Grows, Overlapped, Skewed
  <2>1. node[p] # NoFile /\ node[p] \in PeerNode /\ node[p].timestamp \in Nat
        /\ node[p].timestamp <= clock[p]
    BY <1>1 DEF TypeOf, TypeOK, PeerNode, PeerInv, StampsNotLate, NotLate
  <2>2. ASSUME disk[p] # NoFile, TypeOf(node[p]) # "FILE_DOWNLOADING"
        PROVE  disk[p].mtime >= node[p].timestamp
    <3>1. HasFile(p)
      BY <2>1, <2>2 DEF HasFile, TypeOf
    <3> QED BY <1>1, <2>2, <3>1 DEF PeerInv, FileMatchesNode
  <2> QED BY <1>1, <1>2, <2>1, <2>2 DEF Handles
<1> QED BY <1>2, <1>3

LEMMA CompareNodeGrows ==
  ASSUME IInv, NEW p \in Ips, CompareNode(p)
  PROVE  Grows(p) /\ \A q \in Ips \ {p} : node'[q] = node[q]
<1> DEFINE seek == Head(inbox[p])
<1>1. TypeOK /\ node[p] \in PeerNode \cup {NoFile} /\ seek \in TrackerNode \cup {NoFile}
  BY DEF IInv, TypeOK, CompareNode
<1> HIDE DEF seek
<1>2. CASE WantsDownload(node[p], seek) /\ StartLoad(p, seek)
  <2>1. seek \in TrackerNode
    BY <1>1, <1>2 DEF WantsDownload
  <2>2. node'[p].timestamp = seek.timestamp /\ \A q \in Ips \ {p} : node'[q] = node[q]
    BY <1>1, <1>2, <2>1, StartLoadLemma
  <2>3. node[p] # NoFile => seek.timestamp >= node[p].timestamp
    BY <1>1, <1>2, <2>1 DEF WantsDownload, Newer, PeerNode, TrackerNode
  <2> QED BY <2>2, <2>3 DEF Grows, TypeOf
<1>3. CASE WantsDelete(node[p], seek) /\ SetNode(p, [node[p] EXCEPT !.type = "FILE_DELETE"])
  <2>1. node[p] \in PeerNode
    BY <1>1, <1>3 DEF WantsDelete
  <2>2. node'[p] = [node[p] EXCEPT !.type = "FILE_DELETE"] /\ \A q \in Ips \ {p} : node'[q] = node[q]
    BY <1>1, <1>3 DEF SetNode, TypeOK
  <2>3. node'[p].timestamp = node[p].timestamp /\ node[p].timestamp \in Nat
    BY <2>1, <2>2 DEF PeerNode
  <2> QED BY <2>2, <2>3 DEF Grows
<1>4. CASE UNCHANGED node
  BY <1>1, <1>4 DEF Grows, PeerNode, TypeOf
<1> QED BY <1>2, <1>3, <1>4 DEF CompareNode, seek

\* Neither an event handled late nor a table that arrives late takes a peer's node
\* back to an older version: what the monitor stamps is at least as new as what the
\* main thread has downloaded, unless two downloads of the file have overlapped, or
\* the peer's clock is behind the stamp that it has downloaded, or was set back, or
\* the file's mtime was set by hand.
THEOREM VersionsGrow == Spec => LocalVersionsGrow
<1> DEFINE Growing == \A p \in Ips : Grows(p)
<1>1. IInv /\ [Next]_vars => [Growing]_vars
  <2> SUFFICES ASSUME IInv, Next, NEW q \in Ips PROVE Grows(q)
    OBVIOUS
  <2>1. TypeOK /\ node[q] \in PeerNode \cup {NoFile}
    BY DEF IInv, TypeOK
  <2>2. node'[q] = node[q] => Grows(q)
    BY <2>1 DEF Grows, PeerNode, TypeOf
  <2>3. ASSUME NEW p \in Ips, HandleEvent(p) \/ CompareNode(p)
        PROVE  Grows(q)
    BY <2>2, <2>3, HandleEventGrows, CompareNodeGrows
  <2>4. ASSUME NEW p \in Ips, NEW k \in LoadIds, SetNodeType(p, k)
        PROVE  Grows(q)
    <3>1. loads[p][k] # Idle /\ loads[p][k] \in Load
      BY <2>1, <2>4, LoadIsLoad DEF SetNodeType
    <3>2. node[p] \in PeerNode
      BY <2>1, <3>1 DEF IInv, PeerInv, LoadsHaveNode, TypeOK
    <3>3. node' = [node EXCEPT ![p] = [node[p] EXCEPT !.type = "FILE_DOWNLOAD", !.size = loads[p][k].size]]
      BY <2>4 DEF SetNodeType, SetNode
    <3>4. node'[p].timestamp = node[p].timestamp /\ node[p].timestamp \in Nat
      BY <2>1, <3>2, <3>3 DEF TypeOK, PeerNode
    <3>5. CASE q = p
      BY <3>4, <3>5 DEF Grows
    <3>6. CASE q # p
      BY <2>1, <2>2, <3>3, <3>6 DEF TypeOK
    <3> QED BY <3>5, <3>6
  <2>5. ASSUME NEW p \in Ips, Die(p)
        PROVE  Grows(q)
    <3>1. node'[q] = node[q] \/ node'[q] = NoFile
      BY <2>1, <2>5 DEF Die, TypeOK
    <3> QED BY <2>2, <3>1 DEF Grows
  <2>6. ASSUME NEW p \in Ips, NEW k \in LoadIds,
               \/ \E h \in Ips : Fetch(p, k, h)
               \/ OpenFile(p, k) \/ CloseFile(p, k)
               \/ \E part \in Flushes : Flush(p, k, part)
        PROVE  Grows(q)
    BY <2>2, <2>6 DEF Fetch, OpenFile, CloseFile, Flush
  <2>7. ASSUME NEW p \in Ips,
               \/ \E size \in Sizes : UserSaves(p, size)
               \/ UserDeletes(p) \/ OtherFileChanges(p) \/ Start(p)
               \/ RecvUpdate(p) \/ SessionEnds(p)
        PROVE  Grows(q)
    BY <2>2, <2>7 DEF UserSaves, UserDeletes, OtherFileChanges, Start, RecvUpdate, SessionEnds
  <2>8. ASSUME NEW p \in Ips,
               Tick(p) \/ SetBack(p) \/ \E time \in 1..MaxTime : UserStamps(p, time)
        PROVE  Grows(q)
    BY <2>2, <2>8 DEF Tick, SetBack, UserStamps
  <2> QED BY <2>3, <2>4, <2>5, <2>6, <2>7, <2>8 DEF Next, Stop, FetchFails
<1>2. [Growing]_vars => [\A p \in Ips :
        TypeOf(node[p]) \notin {"none", "FILE_DELETE"} /\ node'[p] # NoFile
          => \/ node'[p].timestamp >= node[p].timestamp
             \/ mishaps'[p] \cap {"overlap", "skewed"} # {}]_vars
  BY DEF Grows
<1>3. Init => IInv
  BY InitIInv
<1>4. IInv /\ [Next]_vars => IInv'
  BY NextIInv
<1> QED BY <1>1, <1>2, <1>3, <1>4, PTL DEF Spec, LocalVersionsGrow

=============================================================================
