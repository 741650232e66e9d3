------------------------------ MODULE FileTable ------------------------------
(***************************************************************************)
(* The file table that DartSync's tracker keeps (common/constant.h) and    *)
(* the two things the tracker does to it: folding in a table announced by  *)
(* a peer (update_filetable) and forgetting a peer (the first half of      *)
(* delete_peer).                                                           *)
(*                                                                         *)
(* The list of nodes is a function from names: update_filetable appends a  *)
(* node only after its scan has found no node of that name, so a name      *)
(* occurs once, and nothing but a printout depends on the order.  The      *)
(* array newpeerip is the sequence of its entries before the first empty   *)
(* one, which is all that any loop over it looks at.                       *)
(***************************************************************************)
EXTENDS Integers, Sequences

CONSTANTS
  Names,         \* file names, relative to the sync folder
  Ips,           \* IP addresses of peers, as getmyip() reports them
  FileTypes,     \* the values of Node.type (FILE_CREATE, FILE_DELETE, ...)
  MAX_PEER_NUM,  \* the number of slots of newpeerip
  NoFile         \* there is no node of this name

ASSUME MaxPeerNumAssumption == MAX_PEER_NUM \in Nat \ {0}

\* A node as a peer announces it; newpeerip[0] is the announcing peer.
PeerNode == [timestamp : Nat, size : Nat, type : FileTypes]
PeerTable == [Names -> PeerNode \cup {NoFile}]

\* A node of the tracker: newpeerip lists the peers with this very version.
TrackerNode ==
  [timestamp : Nat, size : Nat, type : FileTypes, newpeerip : Seq(Ips)]
TrackerTable == [Names -> TrackerNode \cup {NoFile}]

ASSUME NoFileAssumption == NoFile \notin PeerNode \cup TrackerNode

-----------------------------------------------------------------------------
(* Versions: the pair (timestamp, size), ordered lexicographically.        *)

SameVersion(a, b) == a.timestamp = b.timestamp /\ a.size = b.size

Newer(a, b) ==
  \/ a.timestamp > b.timestamp
  \/ a.timestamp = b.timestamp /\ a.size > b.size

Holders(list) == {list[i] : i \in 1..Len(list)}

-----------------------------------------------------------------------------
(* update_filetable.                                                       *)

\* Mutant: a full list takes one more peer.
Enlist_Overflow(list, ip) ==
  IF ip \in Holders(list) THEN list ELSE Append(list, ip)

\* Mutant: the last slot is never used.
Enlist_OneShort(list, ip) ==
  IF ip \in Holders(list) \/ Len(list) >= MAX_PEER_NUM - 1
  THEN list
  ELSE Append(list, ip)

\* UPDATE_FILE_PEERS: append the peer unless it is listed or the list is full.
Enlist(list, ip) ==
  IF ip \in Holders(list) \/ Len(list) >= MAX_PEER_NUM
  THEN list
  ELSE Append(list, ip)

\* ADD_FILE, and the effect of UPDATE_FILE_VERSION: the announced version,
\* with the announcing peer as the only one that has it.
FreshNode(node, ip) ==
  [timestamp |-> node.timestamp, size |-> node.size, type |-> node.type,
   newpeerip |-> <<ip>>]

\* Mutant: only the time stamp decides, so a smaller file replaces a larger one.
MergeNode_TimeOnly(mine, node, ip) ==
  IF mine = NoFile \/ node.timestamp >= mine.timestamp
  THEN FreshNode(node, ip)
  ELSE mine

\* Mutant: the address list of the old version is not cleaned up.
MergeNode_KeepList(mine, node, ip) ==
  IF mine = NoFile
  THEN FreshNode(node, ip)
  ELSE IF Newer(node, mine)
  THEN [FreshNode(node, ip) EXCEPT
          !.newpeerip = [mine.newpeerip EXCEPT ![1] = ip]]
  ELSE IF SameVersion(node, mine)
  THEN [mine EXCEPT !.newpeerip = Enlist(@, ip)]
  ELSE mine

\* One iteration of the outer loop, for a node announced by peer ip.
MergeNode(mine, node, ip) ==
  IF mine = NoFile \/ Newer(node, mine)
  THEN FreshNode(node, ip)
  ELSE IF SameVersion(node, mine)
  THEN [mine EXCEPT !.newpeerip = Enlist(@, ip)]
  ELSE mine

MergeTable(table, peer_ft, ip) ==
  [n \in Names |-> IF peer_ft[n] = NoFile
                   THEN table[n]
                   ELSE MergeNode(table[n], peer_ft[n], ip)]

-----------------------------------------------------------------------------
(* delete_peer, first half.                                                *)

\* Overwrite the peer's entry by the last one and clear the last one.
Delist(list, ip) ==
  IF ip \notin Holders(list)
  THEN list
  ELSE LET last == Len(list)
           index == CHOOSE i \in 1..last : list[i] = ip
       IN  SubSeq([list EXCEPT ![index] = list[last]], 1, last - 1)

ForgetPeer(table, ip) ==
  [n \in Names |-> IF table[n] = NoFile
                   THEN NoFile
                   ELSE [table[n] EXCEPT !.newpeerip = Delist(@, ip)]]
=============================================================================
