------------------------------ MODULE DirWatch ------------------------------
(***************************************************************************)
(* The directories that a peer's file monitor watches (peer/monitor.c):    *)
(* the list of directories (DirTree), the array folderArray that gives the *)
(* path of a watch descriptor, and inotify's own table of watches, while   *)
(* the user makes, removes and renames directories.                        *)
(*                                                                         *)
(* A path is the sequence of the names below the sync folder, and <<>> the *)
(* sync folder.  A string that begins like a path and is none of Paths is  *)
(* Elsewhere, and one that begins with the bytes of freed memory Garbled.  *)
(* Paths without a slash between them and the next name can be the path of *)
(* another directory: Joins says which names make up which.                *)
(***************************************************************************)
EXTENDS Integers, Sequences, FiniteSets, SequencesExt

CONSTANTS
  Paths,           \* the directories there may be
  FileNames,       \* the names of files
  Joins,           \* triples of names: the first and the second together are the third
  Elsewhere,       \* a string in the sync folder that is the path of no directory
  Garbled,         \* a string that begins with freed memory
  MAX_SUBDIR_NUM,  \* slots of folderArray
  MaxMade,         \* bound on the directories ever made
  MaxEvents        \* bound on the unread events

Root == <<>>
NoDir == 0   \* there is no directory
Failed == -1 \* inotify_add_watch has failed

ASSUME PathsAssumption ==
  /\ Root \in Paths /\ Elsewhere \notin Paths /\ Garbled \notin Paths
  /\ Elsewhere # Garbled
  /\ IsFiniteSet(Paths) /\ Paths \subseteq Seq(UNION {Range(p) : p \in Paths})
  /\ \A p \in Paths \ {Root} : Front(p) \in Paths
ASSUME SlotsAssumption == MAX_SUBDIR_NUM \in Nat \ {0} /\ MaxMade \in Nat /\ MaxEvents \in Nat

VARIABLES
  dir,        \* the directory at each path, a number like an inode's, or NoDir
  made,       \* how many directories have been made
  stage,      \* "walk", "watch", "notify", or "crashed"
  tree,       \* DirTree: a list of the path of a node, and its slot if it has one
  folder,     \* folderArray up to count: where the slot's pointer points
  wd,         \* the array wd up to count
  abspath,    \* the path of the last event, in the place where the next one's goes
  walked,     \* how many directories the walk has found
  watch,      \* inotify: the directory of each watch descriptor
  events,     \* inotify events, not yet read
  accidents   \* history: a directory was made or removed between the walk and
              \* the loop ("early"), an add of the start has failed ("shifted"),
              \* a removed path was found in another one ("confused"), a
              \* directory was renamed ("moved"), one was made in a directory that
              \* was itself made after the start ("nested"), a removal was handled
              \* under another path than its own ("astray"), the array was full ("overrun")

user == <<dir, made>>
monitor == <<stage, tree, folder, wd, abspath, walked>>
dirVars == <<user, monitor, watch, events, accidents>>

Names == FileNames \cup UNION {Range(p) : p \in Paths}
DirPaths == Paths \cup {Elsewhere, Garbled}
Nodes == [path : DirPaths, slot : Nat]
Slots == [kind : {"null", "node", "freed", "buffer"}, path : DirPaths]
Events == {e \in [what : {"mkdir", "rmdir", "file"}, wd : Nat \ {0}, in : Paths, name : Names] :
             e.what # "file" => Append(e.in, e.name) \in Paths}

\* Each variable has a value of its type, and the arrays are within their bounds.
DirTypeOK ==
  /\ dir \in [Paths -> 0..MaxMade] /\ made \in 0..MaxMade
  /\ stage \in {"walk", "watch", "notify", "crashed"}
  /\ tree \in Seq(Nodes) /\ folder \in Seq(Slots)
  /\ wd \in Seq(Nat \cup {Failed}) /\ Len(wd) = Len(folder)
  /\ Len(folder) <= MAX_SUBDIR_NUM
  /\ abspath \in DirPaths /\ walked \in Nat
  /\ watch \in Seq(0..MaxMade)
  /\ events \in Seq(Events)
  /\ accidents \subseteq {"early", "shifted", "confused", "moved", "nested", "astray",
                   "overrun"}

DirInit ==
  /\ \E there \in SUBSET Paths :
       /\ Root \in there
       /\ \A p \in there : p # Root => Front(p) \in there
       /\ made = Cardinality(there)
       /\ made <= MaxMade
       /\ dir = CHOOSE d \in [Paths -> 0..made] :
                  /\ \A p \in Paths : d[p] # NoDir <=> p \in there
                  /\ \A p, q \in there : d[p] = d[q] => p = q
  /\ stage = "walk"
  /\ tree = <<>> /\ folder = <<>> /\ wd = <<>> /\ walked = 0 /\ abspath = Elsewhere
  /\ watch = <<>> /\ events = <<>>
  /\ accidents = {}

-----------------------------------------------------------------------------
(* inotify and the user.                                                   *)

Exists(p) == p \in Paths /\ dir[p] # NoDir

WdOf(d) == CHOOSE w \in 1..Len(watch) : watch[w] = d
Watched(d) == \E w \in 1..Len(watch) : watch[w] = d

\* The event reaches the queue if the directory it happens in is watched.
Emit(what, in, name) ==
  events' = IF Watched(dir[in])
            THEN Append(events, [what |-> what, wd |-> WdOf(dir[in]),
                                 in |-> in, name |-> name])
            ELSE events

Early == IF stage = "watch" THEN {"early"} ELSE {}

\* The directory was made after the start, so its slot points to abspath.
Young(p) == ~Watched(dir[p]) \/ WdOf(dir[p]) > walked

Room == stage # "crashed" /\ Len(events) < MaxEvents

UserMkdir(p) ==
  /\ Room /\ made < MaxMade
  /\ p # Root /\ ~Exists(p) /\ Exists(Front(p))
  /\ made' = made + 1
  /\ dir' = [dir EXCEPT ![p] = made']
  /\ Emit("mkdir", Front(p), Last(p))
  /\ accidents' = accidents \cup Early \cup
       IF stage = "notify" /\ Young(Front(p)) THEN {"nested"} ELSE {}
  /\ UNCHANGED <<monitor, watch>>

Empty(p) == \A q \in Paths : q # Root /\ Front(q) = p => ~Exists(q)

\* A directory that is removed takes its watch with it.
UserRmdir(p) ==
  /\ Room
  /\ p # Root /\ Exists(p) /\ Empty(p)
  /\ dir' = [dir EXCEPT ![p] = NoDir]
  /\ watch' = [w \in 1..Len(watch) |-> IF watch[w] = dir[p] THEN NoDir ELSE watch[w]]
  /\ Emit("rmdir", Front(p), Last(p))
  /\ accidents' = accidents \cup Early
  /\ UNCHANGED <<made, monitor>>

\* The file of a name is saved or removed in directory p.
UserTouches(p, name) ==
  /\ Room
  /\ Exists(p) /\ ~Exists(Append(p, name))
  /\ Emit("file", p, name)
  /\ UNCHANGED <<user, monitor, watch, accidents>>

\* A directory is renamed: it keeps its watch, and notify has no branch for
\* IN_MOVED_FROM and IN_MOVED_TO.  One rename is enough here.
UserMoves(p, q) ==
  /\ stage # "crashed"
  /\ p # Root /\ Exists(p) /\ Empty(p)
  /\ q # Root /\ ~Exists(q) /\ Exists(Front(q)) /\ Front(q) # p
  /\ "moved" \notin accidents
  /\ dir' = [dir EXCEPT ![p] = NoDir, ![q] = dir[p]]
  /\ accidents' = accidents \cup {"moved"}
  /\ UNCHANGED <<made, monitor, watch, events>>

\* inotify_add_watch: a descriptor is never given out twice.
AddWatch(p) ==
  IF ~Exists(p)
  THEN wd' = Append(wd, Failed) /\ UNCHANGED watch
  ELSE IF Watched(dir[p])
  THEN wd' = Append(wd, WdOf(dir[p])) /\ UNCHANGED watch
  ELSE wd' = Append(wd, Len(watch) + 1) /\ watch' = Append(watch, dir[p])

-----------------------------------------------------------------------------
(* The start of the monitor.                                               *)

Beneath(p, q) == Len(q) <= Len(p) /\ SubSeq(p, 1, Len(q)) = q

\* nftw: every directory before those beneath it, which follow it without a gap.
WalkOrders(there) ==
  {order \in [1..Cardinality(there) -> there] :
     /\ \A i, j \in DOMAIN order : order[i] = order[j] => i = j
     /\ \A i, j \in DOMAIN order :
          Beneath(order[j], order[i]) => /\ i <= j
                                         /\ \A k \in i..j : Beneath(order[k], order[i])}

\* print_directory_tree.
Walk ==
  /\ stage = "walk"
  /\ \E order \in WalkOrders({p \in Paths : Exists(p)}) :
       tree' = [i \in DOMAIN order |-> [path |-> order[i], slot |-> i]]
  /\ walked' = Len(tree')
  /\ stage' = "watch"
  /\ UNCHANGED <<user, folder, wd, abspath, watch, events, accidents>>

\* One turn of the first loop of notify.
WatchNext ==
  /\ stage = "watch" /\ Len(folder) < Len(tree) /\ Len(folder) < MAX_SUBDIR_NUM
  /\ LET p == tree[Len(folder) + 1].path
     IN  /\ AddWatch(p)
         /\ folder' = Append(folder, [kind |-> "node", path |-> p])
         /\ accidents' = accidents \cup IF Exists(p) THEN {} ELSE {"shifted"}
  /\ UNCHANGED <<user, stage, tree, abspath, walked, events>>

StartNotify ==
  /\ stage = "watch" /\ Len(folder) = Len(tree)
  /\ stage' = "notify"
  /\ UNCHANGED <<user, tree, folder, wd, abspath, walked, watch, events, accidents>>

-----------------------------------------------------------------------------
(* The loop of notify.                                                     *)

Null == [kind |-> "null", path |-> Elsewhere]

\* Mutant: descriptors are counted from 0.
Slot_OffByOne(w) == IF w < Len(folder) THEN folder[w + 1] ELSE Null

\* folderArray[wd - 1], which is NULL behind count.
Slot(w) == IF w <= Len(folder) THEN folder[w] ELSE Null

Known(p) == IF p \in Paths THEN p ELSE Elsewhere

\* A name behind the path of a node, which ends in a slash.
Below(p, name) == IF p \in Paths THEN Known(Append(p, name)) ELSE p

\* The paths that string s and name are together, with no slash between them.
Together(s, name) ==
  {p \in Paths \ {Root} : \E join \in Joins :
     /\ join[2] = name /\ join[3] = Last(p)
     /\ Known(Append(Front(p), join[1])) = s}

\* A name behind abspath, which has no slash at its end.
Behind(s, name) ==
  Together(s, name) \cup
    IF s \in Paths /\ Together(s, name) # {} THEN {} ELSE {IF s = Garbled THEN s ELSE Elsewhere}

\* sprintf to abspath: the string of the slot, and the name in the event.  The memory
\* of a freed node may have become that of a directory made since.
AbsPaths(event) ==
  LET slot == Slot(event.wd)
      made_since == {i \in 1..Len(tree) : tree[i].slot = 0}
  IN  CASE slot.kind = "node"   -> {Below(slot.path, event.name)}
        [] slot.kind = "buffer" -> Behind(abspath, event.name)
        [] slot.kind = "null"   -> {Elsewhere}
        [] slot.kind = "freed"  -> {Garbled} \cup
                                   {Below(tree[i].path, event.name) : i \in made_since}

\* The path at which the event was.
Proper(event) == Known(Append(event.in, event.name))

\* Mutant: the arguments of strstr are swapped.
Mentions_Swapped(p, q) == Beneath(q, p)

\* strstr finds path q at the beginning of p/: p is q or beneath it, or a name in
\* p begins with the last name of q.
Mentions(p, q) ==
  /\ Len(q) <= Len(p)
  /\ \A i \in 1..(Len(q) - 1) : p[i] = q[i]
  /\ \/ q = Root
     \/ p[Len(q)] = Last(q)
     \/ \E join \in Joins : join[1] = Last(q) /\ join[3] = p[Len(q)]

\* The strings that strstr may find string q in.  What freed memory compares to, and
\* Elsewhere to a path, is left open: only the sync folder is shorter than Elsewhere.
PathMatches(p, q) ==
  IF p \in Paths /\ q \in Paths THEN {Mentions(p, q)}
  ELSE IF p = Root /\ q = Elsewhere THEN {FALSE}
  ELSE BOOLEAN

NodeMatches(i, q) == PathMatches(tree[i].path, q)

\* abspath itself is what a buffer slot points to.
SlotMatches(i, q) ==
  CASE folder[i].kind = "node"   -> PathMatches(folder[i].path, q)
    [] folder[i].kind = "buffer" -> {TRUE}
    [] folder[i].kind = "freed"  -> BOOLEAN
    [] folder[i].kind = "null"   -> {FALSE}

\* The first position of 1..n that matches, 0 if none does; matches[i] are the
\* answers there may be at position i.
FirstMatch(n, matches) ==
  {i \in 1..n : TRUE \in matches[i] /\ \A j \in 1..(i - 1) : FALSE \in matches[j]}
  \cup IF \A i \in 1..n : FALSE \in matches[i] THEN {0} ELSE {}

Buffer == [kind |-> "buffer", path |-> Elsewhere]

\* Mutant: the slot is not a new one.
DirMade_LastSlot(path) ==
  /\ tree' = Append(tree, [path |-> path, slot |-> 0])
  /\ folder' = [folder EXCEPT ![Len(folder)] = Buffer]
  /\ UNCHANGED <<stage, watch, wd, accidents>>

\* addDirNode, for a directory made after the start: the slot points to abspath,
\* a variable of notify that the next event overwrites.
DirMade(path) ==
  /\ tree' = Append(tree, [path |-> path, slot |-> 0])
  /\ AddWatch(path)
  /\ folder' = Append(folder, Buffer)
  /\ UNCHANGED <<stage, accidents>>

\* deleteDirNode frees the node, and the string that a slot may point to.
FreeNode(i, slots) ==
  IF i # 0 /\ tree[i].slot # 0 /\ slots[tree[i].slot].kind = "node"
  THEN [slots EXCEPT ![tree[i].slot].kind = "freed"]
  ELSE slots

\* Mutant: the list is not updated.
DirRemoved_KeepNode(event, path) ==
  \E s \in FirstMatch(Len(folder), [k \in 1..Len(folder) |-> SlotMatches(k, path)]) :
    /\ folder' = IF s = 0 THEN folder ELSE [folder EXCEPT ![s] = Null]
    /\ UNCHANGED <<stage, tree, watch, accidents>>

\* deleteDirNode, and the loop over folderArray that follows it.  The first node has
\* none before it, and to take it out is to write to a null pointer.
DirRemoved(event, path) ==
  \E i \in FirstMatch(Len(tree), [k \in 1..Len(tree) |-> NodeMatches(k, path)]) :
    \/ /\ i = 1
       /\ stage' = "crashed"
       /\ UNCHANGED <<tree, folder, watch, accidents>>
    \/ /\ i # 1
       /\ LET freed == FreeNode(i, folder)
              found == [k \in 1..Len(folder) |->
                          IF freed[k].kind = "freed" THEN BOOLEAN ELSE SlotMatches(k, path)]
          IN  \E s \in FirstMatch(Len(folder), found) :
                /\ tree' = IF i = 0 THEN tree ELSE RemoveAt(tree, i)
                /\ folder' = IF s = 0 THEN freed ELSE [freed EXCEPT ![s] = Null]
                /\ watch' = IF s = 0 THEN watch
                            ELSE [w \in 1..Len(watch) |-> IF w = wd[s] THEN NoDir ELSE watch[w]]
                /\ accidents' = accidents
                     \cup (IF path # Proper(event) THEN {"astray"} ELSE {})
                     \cup (IF \/ i # 0 /\ tree[i].path # path
                              \/ s # 0 /\ freed[s].kind = "node" /\ freed[s].path # path
                           THEN {"confused"} ELSE {})
       /\ UNCHANGED stage

HandleEvent ==
  /\ stage = "notify" /\ events # <<>> /\ "overrun" \notin accidents
  /\ LET event == Head(events)
     IN  \E path \in AbsPaths(event) :
           /\ abspath' = path
           /\ \/ /\ event.what = "mkdir" /\ Len(folder) < MAX_SUBDIR_NUM
                 /\ DirMade(path)
              \/ /\ event.what = "rmdir"
                 /\ DirRemoved(event, path)
                 /\ UNCHANGED wd
              \/ /\ event.what = "file"
                 /\ UNCHANGED <<stage, tree, folder, wd, watch, accidents>>
  /\ events' = Tail(events)
  /\ UNCHANGED <<user, walked>>

\* The write behind the array: what the program does then is anybody's guess.
Overrun ==
  /\ Len(folder) = MAX_SUBDIR_NUM
  /\ "overrun" \notin accidents
  /\ \/ stage = "watch" /\ Len(tree) > MAX_SUBDIR_NUM
     \/ stage = "notify" /\ events # <<>> /\ Head(events).what = "mkdir"
  /\ accidents' = accidents \cup {"overrun"}
  /\ UNCHANGED <<user, monitor, watch, events>>

DirNext ==
  \/ \E p \in Paths : \/ UserMkdir(p) \/ UserRmdir(p)
                      \/ \E name \in FileNames : UserTouches(p, name)
                      \/ \E q \in Paths : UserMoves(p, q)
  \/ Walk \/ WatchNext \/ StartNotify
  \/ HandleEvent \/ Overrun

DirSpec == DirInit /\ [][DirNext]_dirVars

-----------------------------------------------------------------------------
(* Properties.                                                             *)

Accident(kinds) == accidents \cap kinds # {}

\* An event is looked for at its own path unless its directory was made after the
\* start, or its slot was freed or emptied by a removal that hit the wrong directory:
\* as long as the slot is a node's, it is the node of that directory; unless a
\* directory was gone before it could be watched at the start, which shifts the slots
\* behind it, or was renamed.
NeverMisattributed ==
  stage = "notify" /\ events # <<>> /\ Slot(Head(events).wd).kind = "node"
    => \/ AbsPaths(Head(events)) = {Proper(Head(events))}
       \/ Accident({"shifted", "moved"})

\* Every event of a directory that was there at the start is looked for at its own path,
\* however many directories were made and removed meanwhile; unless one was made or
\* removed before the loop began, one was renamed, a removal was handled under
\* another path, or was taken for that of a directory with a longer name.
StartedDirsReported ==
  stage = "notify" /\ events # <<>> /\ Head(events).wd <= walked
    => \/ AbsPaths(Head(events)) = {Proper(Head(events))}
       \/ Accident({"early", "moved", "confused", "astray"})

\* deleteDirNode takes out the first node, whose predecessor is NULL, only after
\* another accident: a slot must first have lost its string to a wrong removal.
HeadStays == stage = "crashed" => Accident({"early", "moved", "confused", "astray"})

\* When every event is handled, the list of directories is what is in the folder,
\* each directory once; unless one was made or removed during the start, renamed, or
\* made in a directory made after the start.
TreeMatchesFolder ==
  stage = "notify" /\ events = <<>>
    /\ ~Accident({"early", "moved", "confused", "nested", "overrun"})
    => /\ {tree[i].path : i \in 1..Len(tree)} = {p \in Paths : Exists(p)}
       /\ Len(tree) = Cardinality({p \in Paths : Exists(p)})

\* A directory that was there at the start is watched for as long as it is there: the
\* removal of another one, which strstr looks for in the strings of all slots, those of
\* directories made later included, takes at most the watch of one of the latter; unless
\* one was made or removed during the start, renamed, taken for another one with a longer
\* name, or made in a directory made after the start.
StartedStayWatched ==
  [][accidents' \cap {"early", "moved", "confused", "nested"} = {} =>
       \A w \in 1..Len(watch) :
         w <= walked /\ watch[w] # NoDir /\ watch'[w] = NoDir
           => \A p \in Paths : dir'[p] # watch[w]]_dirVars
=============================================================================
