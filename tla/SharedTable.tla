----------------------------- MODULE SharedTable -----------------------------
(***************************************************************************)
(* The tracker's file table as its threads see it (tracker/tracker.c): a   *)
(* linked list without a lock, which update_filetable and delete_peer walk *)
(* and change field by field, each in the thread of its connection.        *)
(*                                                                         *)
(* FileTable takes either call as one step.  Here a step is one visit of a *)
(* node or one store, and FileTable's operators say what calls that do not *)
(* overlap must come to.                                                   *)
(***************************************************************************)
EXTENDS FileTable

CONSTANTS
  Threads,    \* handshake threads
  Announced,  \* announcements: sequences of nodes with a name and a version
  MaxJobs,    \* bound on the calls
  NoIp,       \* an empty slot of newpeerip
  NoName,     \* the name of a node that has just been allocated
  None        \* the thread has nothing to do

ASSUME JobsAssumption == MaxJobs \in Nat

NULL == 0
Slots == 0..(MAX_PEER_NUM - 1)
TheType == "FILE_CREATE"   \* the type goes with the version
ASSUME TypeAssumption == FileTypes = {TheType}

\* What is announced: an empty table changes nothing, and a name is in a peer's
\* table once.
Entry == [name : Names, timestamp : Nat, size : Nat]
ASSUME AnnouncedAssumption ==
  \A list \in Announced :
    /\ list \in Seq(Entry) /\ list # <<>>
    /\ \A i, j \in 1..Len(list) : list[i].name = list[j].name => i = j

VARIABLES
  nodes,     \* the nodes ever allocated; a pointer is a position, or NULL
  head,      \* ft->head, NULL also while there is no ft
  job,       \* the call that the thread is in, or None
  pc,        \* where it is in it
  cursor,    \* its tracker_ftemp
  index,     \* its index
  counter,   \* its counter
  jobs,      \* how many calls there were
  expected,  \* history: the table if each call were one step, at its start
  races      \* history: two calls of update_filetable overlapped ("updates"), an
             \* update and a delete or two deletes ("deletes"), the appends of
             \* two updates ("appends")

shared == <<nodes, head>>
frame == <<job, cursor, index, counter>>
local == <<pc, frame>>
history == <<jobs, expected, races>>
vars == <<shared, local, history>>

Cell == [name : Names \cup {NoName}, timestamp : Nat, size : Nat,
         newpeerip : [Slots -> Ips \cup {NoIp}], next : Nat]

Jobs == [call : {"update"}, ip : Ips, list : Seq(Entry)] \cup [call : {"delete"}, ip : Ips]

ASSUME NoneAssumption == NoName \notin Names /\ NoIp \notin Ips /\ None \notin Jobs

\* Each variable has a value of its type; in particular no slot is read or written
\* outside of a node's array.
TypeOK ==
  /\ nodes \in Seq(Cell)
  /\ head \in 0..Len(nodes)
  /\ \A i \in 1..Len(nodes) : nodes[i].next \in 0..Len(nodes)
  /\ job \in [Threads -> Jobs \cup {None}]
  /\ cursor \in [Threads -> 0..Len(nodes)]
  /\ index \in [Threads -> 0..MAX_PEER_NUM] /\ counter \in [Threads -> 0..MAX_PEER_NUM]
  /\ expected \in TrackerTable
  /\ jobs \in 0..MaxJobs
  /\ races \subseteq {"updates", "deletes", "appends"}

Init ==
  /\ nodes = <<>> /\ head = NULL
  /\ job = [t \in Threads |-> None]
  /\ pc = [t \in Threads |-> "idle"]
  /\ cursor = [t \in Threads |-> NULL]
  /\ index = [t \in Threads |-> 0] /\ counter = [t \in Threads |-> 0]
  /\ jobs = 0
  /\ expected = [n \in Names |-> NoFile]
  /\ races = {}

-----------------------------------------------------------------------------
(* Steps of a thread.                                                      *)

At(t, label) == pc[t] = label
Goto(t, label) == pc' = [pc EXCEPT ![t] = label]

\* The node that the thread looks at, and the one it merges.
Here(t) == nodes[cursor[t]]
Wanted(t) == Head(job[t].list)

Set(t, cell) == nodes' = [nodes EXCEPT ![cursor[t]] = cell]

\* The end of a call, and of its local variables.
Return(t) ==
  /\ Goto(t, "idle")
  /\ job' = [job EXCEPT ![t] = None]
  /\ cursor' = [cursor EXCEPT ![t] = NULL]
  /\ index' = [index EXCEPT ![t] = 0]
  /\ counter' = [counter EXCEPT ![t] = 0]

\* On to the next node of the announced table, if there is one.
Done(t) ==
  IF Len(job[t].list) > 1
  THEN /\ job' = [job EXCEPT ![t].list = Tail(@)]
       /\ Goto(t, "next")
       /\ UNCHANGED <<cursor, index, counter>>
  ELSE Return(t)

\* The first slot from i on that is empty, or one behind the last.
FirstEmpty(cell, i) ==
  CHOOSE j \in i..MAX_PEER_NUM :
    /\ j = MAX_PEER_NUM \/ cell.newpeerip[j] = NoIp
    /\ \A k \in i..(j - 1) : cell.newpeerip[k] # NoIp

AsTable(list) ==
  [n \in Names |->
     IF \E i \in 1..Len(list) : list[i].name = n
     THEN LET node == list[CHOOSE i \in 1..Len(list) : list[i].name = n]
          IN  [timestamp |-> node.timestamp, size |-> node.size, type |-> TheType]
     ELSE NoFile]

Overlaps(t, call) ==
  UNION {IF job[u] = None THEN {}
         ELSE IF call = "update" /\ job[u].call = "update" THEN {"updates"} ELSE {"deletes"}
         : u \in Threads \ {t}}

\* ADD_FILE, from the decision to append up to the last store.
Appending == {"append", "sethead", "reread", "name", "fill", "cut"}

Appends == IF \E u \in Threads : pc[u] \in Appending THEN {"appends"} ELSE {}

\* The tracker runs until a thread has copied a name into a node at NULL.
alive == \A t \in Threads : pc[t] # "crashed"

StartUpdate(t, ip, list) ==
  /\ At(t, "idle") /\ jobs < MaxJobs
  /\ jobs' = jobs + 1
  /\ job' = [job EXCEPT ![t] = [call |-> "update", ip |-> ip, list |-> list]]
  /\ Goto(t, "next")
  /\ expected' = MergeTable(expected, AsTable(list), ip)
  /\ races' = races \cup Overlaps(t, "update")
  /\ UNCHANGED <<shared, cursor, index, counter>>

StartDelete(t, ip) ==
  /\ At(t, "idle") /\ jobs < MaxJobs
  /\ jobs' = jobs + 1
  /\ job' = [job EXCEPT ![t] = [call |-> "delete", ip |-> ip]]
  /\ Goto(t, "forget")
  /\ cursor' = [cursor EXCEPT ![t] = head]
  /\ index' = [index EXCEPT ![t] = 0]
  /\ expected' = ForgetPeer(expected, ip)
  /\ races' = races \cup Overlaps(t, "delete")
  /\ UNCHANGED <<shared, counter>>

-----------------------------------------------------------------------------
(* update_filetable.                                                       *)

\* The outer loop: tracker_ftemp starts at the head again.
NextNode(t) ==
  /\ At(t, "next")
  /\ cursor' = [cursor EXCEPT ![t] = head]
  /\ Goto(t, IF head = NULL THEN "append" ELSE "scan")
  /\ races' = races \cup IF head = NULL THEN Appends ELSE {}
  /\ UNCHANGED <<shared, job, index, counter, jobs, expected>>

\* Mutant: the scan starts again at the last node.
Scan_Again(t) ==
  /\ At(t, "scan")
  /\ \/ /\ Here(t).name = Wanted(t).name
        /\ Goto(t, "compare")
        /\ UNCHANGED cursor
     \/ /\ Here(t).name # Wanted(t).name
        /\ IF Here(t).next = NULL
           THEN cursor' = [cursor EXCEPT ![t] = head] /\ UNCHANGED pc
           ELSE UNCHANGED cursor /\ Goto(t, "advance")
  /\ UNCHANGED <<shared, job, index, counter, jobs, expected, races>>

\* One node of the inner loop, which stops at the last one...
Scan(t) ==
  /\ At(t, "scan")
  /\ \/ /\ Here(t).name = Wanted(t).name
        /\ Goto(t, "compare")
        /\ UNCHANGED races
     \/ /\ Here(t).name # Wanted(t).name
        /\ Here(t).next = NULL
        /\ Goto(t, "append")
        /\ races' = races \cup Appends
     \/ /\ Here(t).name # Wanted(t).name
        /\ Here(t).next # NULL
        /\ Goto(t, "advance")
        /\ UNCHANGED races
  /\ UNCHANGED <<shared, frame, jobs, expected>>

\* ... or reads the pointer once more: when the list has been cut meanwhile,
\* tracker_ftemp is NULL, as if there were no list.
Advance(t) ==
  /\ At(t, "advance")
  /\ cursor' = [cursor EXCEPT ![t] = Here(t).next]
  /\ Goto(t, IF Here(t).next = NULL THEN "append" ELSE "scan")
  /\ races' = races \cup IF Here(t).next = NULL THEN Appends ELSE {}
  /\ UNCHANGED <<shared, job, index, counter, jobs, expected>>

\* Mutant: an older version replaces a newer one.
Compare_Backwards(t) ==
  /\ At(t, "compare")
  /\ \/ SameVersion(Here(t), Wanted(t)) /\ Goto(t, "find")
     \/ ~SameVersion(Here(t), Wanted(t)) /\ Goto(t, "size")
  /\ UNCHANGED <<shared, frame, history>>

\* Same version, newer version, or older.
Compare(t) ==
  /\ At(t, "compare")
  /\ \/ SameVersion(Here(t), Wanted(t)) /\ Goto(t, "find") /\ UNCHANGED frame
     \/ Newer(Wanted(t), Here(t)) /\ Goto(t, "size") /\ UNCHANGED frame
     \/ Newer(Here(t), Wanted(t)) /\ Done(t)
  /\ UNCHANGED <<shared, history>>

Listed(cell, ip) ==
  \E i \in Slots : i < FirstEmpty(cell, 0) /\ cell.newpeerip[i] = ip

\* UPDATE_FILE_PEERS: the loop that leaves index at the first empty slot...
FindSlot(t) ==
  /\ At(t, "find")
  /\ LET free == FirstEmpty(Here(t), 0)
     IN  \/ /\ Listed(Here(t), job[t].ip) \/ free = MAX_PEER_NUM
            /\ Done(t)
         \/ /\ ~Listed(Here(t), job[t].ip) /\ free < MAX_PEER_NUM
            /\ index' = [index EXCEPT ![t] = free]
            /\ Goto(t, "enlist")
            /\ UNCHANGED <<job, cursor, counter>>
  /\ UNCHANGED <<shared, history>>

PutIp(cell, i, ip) ==
  [cell EXCEPT !.newpeerip = [j \in DOMAIN @ \cup {i} |-> IF j = i THEN ip ELSE @[j]]]

\* A store into the node, after which the call goes on, or is done with the node.
Store(t, from, cell, to) ==
  /\ At(t, from) /\ Set(t, cell) /\ Goto(t, to)
  /\ UNCHANGED <<head, frame, history>>
LastStore(t, from, cell) ==
  /\ At(t, from) /\ Set(t, cell) /\ Done(t)
  /\ UNCHANGED <<head, history>>

\* ... and the strcpy into that slot.
EnlistIp(t) == LastStore(t, "enlist", PutIp(Here(t), index[t], job[t].ip))

\* UPDATE_FILE_VERSION, store by store.
StoreSize(t) == Store(t, "size", [Here(t) EXCEPT !.size = Wanted(t).size], "timestamp")
StoreTimestamp(t) ==
  Store(t, "timestamp", [Here(t) EXCEPT !.timestamp = Wanted(t).timestamp], "sole")
StoreSoleHolder(t) == Store(t, "sole", PutIp(Here(t), 0, job[t].ip), "clean")
CleanList(t) ==
  LastStore(t, "clean",
            [Here(t) EXCEPT !.newpeerip = [i \in Slots |-> IF i = 0 THEN @[0] ELSE NoIp]])

Fresh == [name |-> NoName, timestamp |-> 0, size |-> 0,
          newpeerip |-> [i \in Slots |-> NoIp], next |-> NULL]

\* Mutant: the new node takes the place of the list.
AppendNode_AsHead(t) ==
  /\ At(t, "append")
  /\ nodes' = Append(nodes, Fresh)
  /\ head' = NULL
  /\ cursor' = [cursor EXCEPT ![t] = Len(nodes')]
  /\ Goto(t, "sethead")
  /\ UNCHANGED <<job, index, counter, history>>

\* Mutant: tracker_ftemp advances before the new node is linked.
AppendNode_Late(t) ==
  /\ At(t, "append")
  /\ nodes' = Append(nodes, Fresh)
  /\ IF cursor[t] = NULL
     THEN /\ head' = NULL
          /\ cursor' = [cursor EXCEPT ![t] = Len(nodes')]
          /\ Goto(t, "sethead")
     ELSE Goto(t, "reread") /\ UNCHANGED <<head, cursor>>
  /\ UNCHANGED <<job, index, counter, history>>

\* ADD_FILE: the new node is linked behind the thread's, or there is a new and empty ft.
AppendNode(t) ==
  /\ At(t, "append")
  /\ LET new == Len(nodes) + 1
     IN  \/ /\ cursor[t] = NULL
           /\ nodes' = Append(nodes, Fresh)
           /\ head' = NULL
           /\ cursor' = [cursor EXCEPT ![t] = new]
           /\ Goto(t, "sethead")
        \/ /\ cursor[t] # NULL
           /\ nodes' = Append([nodes EXCEPT ![cursor[t]].next = new], Fresh)
           /\ Goto(t, "reread")
           /\ UNCHANGED <<head, cursor>>
  /\ UNCHANGED <<job, index, counter, history>>

\* "HEAD was null": the node becomes the head of the ft that there is now.
SetHead(t) ==
  /\ At(t, "sethead")
  /\ head' = cursor[t]
  /\ Goto(t, "name")
  /\ UNCHANGED <<nodes, frame, history>>

\* tracker_ftemp = tracker_ftemp->pNext: the new node, one that another thread has
\* linked there since, or NULL when it has cut the list; then the strcpy crashes.
Reread(t) ==
  /\ At(t, "reread")
  /\ cursor' = [cursor EXCEPT ![t] = Here(t).next]
  /\ Goto(t, IF Here(t).next = NULL THEN "crashed" ELSE "name")
  /\ UNCHANGED <<shared, job, index, counter, history>>

\* The node is in the list before it has a name.
StoreName(t) == Store(t, "name", [Here(t) EXCEPT !.name = Wanted(t).name], "fill")
FillNode(t) ==
  Store(t, "fill", [PutIp(Here(t), 0, job[t].ip) EXCEPT
                      !.size = Wanted(t).size, !.timestamp = Wanted(t).timestamp], "cut")

\* tracker_ftemp->pNext = NULL, whatever has been appended meanwhile.
CutTail(t) == LastStore(t, "cut", [Here(t) EXCEPT !.next = NULL])

-----------------------------------------------------------------------------
(* delete_peer, first half.                                                *)

\* The next slot that holds the peer, in this node or on to the next node.
FindPeer(t) ==
  /\ At(t, "forget")
  /\ \/ /\ cursor[t] = NULL
        /\ Return(t)
     \/ /\ cursor[t] # NULL
        /\ LET found == {i \in index[t]..(FirstEmpty(Here(t), index[t]) - 1) :
                           Here(t).newpeerip[i] = job[t].ip}
           IN  \/ /\ found = {}
                  /\ cursor' = [cursor EXCEPT ![t] = Here(t).next]
                  /\ index' = [index EXCEPT ![t] = 0]
                  /\ counter' = [counter EXCEPT ![t] = 0]
                  /\ UNCHANGED pc
               \/ /\ found # {}
                  /\ LET i == CHOOSE i \in found : \A j \in found : i <= j
                     IN  /\ index' = [index EXCEPT ![t] = i]
                         /\ counter' = [counter EXCEPT ![t] = FirstEmpty(Here(t), i + 1)]
                  /\ Goto(t, "move")
                  /\ UNCHANGED cursor
        /\ UNCHANGED job
  /\ UNCHANGED <<shared, history>>

\* Mutant: the peer's own slot is cleared, not the last one.
MoveLast_ClearOwn(t) ==
  /\ At(t, "move")
  /\ UNCHANGED nodes
  /\ counter' = [counter EXCEPT ![t] = index[t] + 1]
  /\ Goto(t, "clear")
  /\ UNCHANGED <<head, job, cursor, index, history>>

\* Overwrite the peer's slot by the last one...
MoveLast(t) ==
  /\ At(t, "move")
  /\ IF counter[t] - 1 > index[t]
     THEN Set(t, PutIp(Here(t), index[t], Here(t).newpeerip[counter[t] - 1]))
     ELSE UNCHANGED nodes
  /\ Goto(t, "clear")
  /\ UNCHANGED <<head, frame, history>>

\* ... and clear the last one.
ClearLast(t) ==
  /\ At(t, "clear")
  /\ Set(t, PutIp(Here(t), counter[t] - 1, NoIp))
  /\ index' = [index EXCEPT ![t] = @ + 1]
  /\ Goto(t, "forget")
  /\ UNCHANGED <<head, job, cursor, counter, history>>

-----------------------------------------------------------------------------
Step(t) ==
  /\ alive
  /\ \/ NextNode(t) \/ Scan(t) \/ Advance(t) \/ Compare(t) \/ FindSlot(t) \/ EnlistIp(t)
     \/ StoreSize(t) \/ StoreTimestamp(t) \/ StoreSoleHolder(t) \/ CleanList(t)
     \/ AppendNode(t) \/ SetHead(t) \/ Reread(t)
     \/ StoreName(t) \/ FillNode(t) \/ CutTail(t)
     \/ FindPeer(t) \/ MoveLast(t) \/ ClearLast(t)

Start(t) ==
  /\ alive
  /\ \E ip \in Ips : StartDelete(t, ip) \/ \E list \in Announced : StartUpdate(t, ip, list)

Next == \E t \in Threads : Step(t) \/ Start(t)

Spec == Init /\ [][Next]_vars

\* Every thread gets on with its call.
FairSpec == Spec /\ \A t \in Threads : WF_vars(Step(t))

-----------------------------------------------------------------------------
(* Properties.                                                             *)

AllIdle == \A t \in Threads : job[t] = None

\* Where a walk along the list stays.
Closed(S) ==
  /\ head # NULL => head \in S
  /\ \A i \in S : nodes[i].next # NULL => nodes[i].next \in S

\* The nodes that a walk along the list meets.
Chain == {i \in 1..Len(nodes) : \A S \in SUBSET (1..Len(nodes)) : Closed(S) => i \in S}

InList(n) == \E i \in Chain : nodes[i].name = n

\* The table as FileTable has it.
Table ==
  [n \in Names |->
     IF ~InList(n) THEN NoFile
     ELSE LET cell == nodes[CHOOSE i \in Chain : nodes[i].name = n]
          IN  [timestamp |-> cell.timestamp, size |-> cell.size, type |-> TheType,
               newpeerip |-> [i \in 1..FirstEmpty(cell, 0) |-> cell.newpeerip[i - 1]]]]

\* Calls that never overlap leave the very table that FileTable's operators give:
\* MergeTable for update_filetable, ForgetPeer for the loop of delete_peer.
SerialCallsAtomic == AllIdle /\ races = {} => Table = expected

\* Peers that leave in the middle of an update, or the heartbeat that expires one,
\* never cost a file or its version, whatever they do to the addresses: as long as
\* no two updates overlap, the table has the files and versions of FileTable.
VersionsSafeFromDeletes ==
  AllIdle /\ "updates" \notin races =>
    \A n \in Names :
      \/ Table[n] = NoFile /\ expected[n] = NoFile
      \/ /\ Table[n] # NoFile /\ expected[n] # NoFile
         /\ SameVersion(Table[n], expected[n])

\* A file that was announced stays in the list through overlapping updates, unless
\* two of them have appended a node at the same time.
FilesKept ==
  AllIdle /\ "appends" \notin races =>
    \A n \in Names : expected[n] # NoFile => InList(n)

\* The node that a thread appends is there for its strcpy, and the tracker goes on,
\* unless another thread has appended at the same time and cut the list in between.
CrashedByAppends == alive \/ "appends" \in races

\* Every call comes to its end, unless the tracker crashes: however appends overlap,
\* and whatever part of the list they take away, it has no cycle.
CallsEnd == \A t \in Threads : (job[t] # None) ~> (job[t] = None \/ ~alive)
=============================================================================
