-------------------------------- MODULE Sync --------------------------------
(***************************************************************************)
(* The whole system, for one file: the tracker's node of it, and for each  *)
(* peer its node (peer/peer.c, peer/monitor.c), the file in its folder,    *)
(* the inotify events that its monitor thread has not read, its download   *)
(* threads, and the two streams between it and the tracker.                *)
(*                                                                         *)
(* A step is one turn of one thread: an event handled by the monitor, one  *)
(* table compared by the main thread, one announced table merged and       *)
(* broadcast by the tracker, one stage of a download.  Users save and      *)
(* delete the file, and other files, at any time; peers start and end.     *)
(***************************************************************************)
EXTENDS FileTable, SequencesExt

CONSTANTS
  MaxTime,     \* bound on the clocks, in seconds
  MaxChanges,  \* bound on the changes that users make
  MaxStarts,   \* bound on the starts of peers
  Sizes,       \* sizes of the files that users save
  StreamCap,   \* bound on the tables in one stream
  EventCap,    \* bound on the pending events of a peer
  Flushes,     \* what an early flush may write: "part" or "all" of the file
  MaxLoads,    \* bound on the downloads that one peer runs at a time
  Idle         \* there is no such download thread

ASSUME SyncBounds ==
  /\ {MaxTime, MaxChanges, MaxStarts, StreamCap, EventCap, MaxLoads} \subseteq Nat
  /\ MaxTime > 0
  /\ Sizes \subseteq Nat
  /\ Flushes \subseteq {"part", "all"}

Garbled == 0                      \* no content that a user has ever saved
Contents == 0..MaxChanges         \* the saves, numbered, and Garbled
File == [content : Contents, size : Nat, mtime : 1..MaxTime]
Data == [content : Contents, size : Nat]
LoadIds == 1..MaxLoads

\* A ptp_download thread: the version it was started for, the holders it has
\* still to ask, what it got from the others, whether another download of the
\* file used the same temporary files, and how far the writing is.
Load == [timestamp : Nat, size : Nat, ask : SUBSET Ips, got : SUBSET Data,
         mixed : BOOLEAN, step : {"fetch", "open", "typed"},
         flushed : {"nothing", "part", "all"}]

ASSUME SyncValues ==
  /\ {"FILE_CREATE", "FILE_MODIFY", "FILE_DELETE", "FILE_DOWNLOAD", "FILE_DOWNLOADING"}
       \subseteq FileTypes
  /\ NoFile \notin File /\ Idle \notin Load

VARIABLES
  clock,    \* per peer: time(0), and the mtime of what is written now
  changes,  \* how many changes users have made
  starts,   \* how often a peer was started
  online,   \* the peers whose process runs
  node,     \* the peer's node of the file
  disk,     \* the file in the peer's folder
  events,   \* inotify events of the file, not yet read
  loads,    \* the peer's download threads
  inbox,    \* tables on their way from the tracker to the peer
  outbox,   \* tables on their way from the peer to the tracker
  ft,       \* the tracker's node of the file
  ended,    \* peers whose last session the tracker has not seen the end of
  mishaps   \* history, for the peer's present life: it was not reached by a
            \* broadcast ("missed"); since it was last put among the holders, it
            \* found the list full ("crowded") or the end of its last session
            \* took it off ("delisted"); a download ran at the same time as
            \* another one of the file, or as its deletion ("overlap"); its file
            \* or its version was stamped later than its own clock, its clock was
            \* set back, or its file's mtime was set by hand ("skewed")

user == <<clock, changes, starts>>
tracker == <<ft, ended>>
vars == <<user, tracker, mishaps, online, node, disk, events, loads, inbox, outbox>>

\* Each variable has a value of its type.
TypeOK ==
  /\ clock \in [Ips -> 1..MaxTime] /\ changes \in 0..MaxChanges
  /\ starts \in 0..MaxStarts
  /\ online \subseteq Ips /\ ended \subseteq Ips
  /\ node \in [Ips -> PeerNode \cup {NoFile}]
  /\ disk \in [Ips -> File \cup {NoFile}]
  /\ events \in [Ips -> Seq({"create", "modify", "delete"})]
  /\ loads \in [Ips -> [LoadIds -> Load \cup {Idle}]]
  /\ inbox \in [Ips -> Seq(TrackerNode \cup {NoFile})]
  /\ outbox \in [Ips -> Seq(PeerNode \cup {NoFile})]
  /\ ft \in TrackerNode \cup {NoFile}
  /\ mishaps \in [Ips -> SUBSET {"missed", "crowded", "delisted", "overlap", "skewed"}]

Init ==
  /\ clock \in [Ips -> 1..MaxTime] /\ changes = 0 /\ starts = 0
  /\ online = {} /\ ended = {}
  /\ node = [p \in Ips |-> NoFile] /\ disk = [p \in Ips |-> NoFile]
  /\ events = [p \in Ips |-> <<>>]
  /\ loads = [p \in Ips |-> [k \in LoadIds |-> Idle]]
  /\ inbox = [p \in Ips |-> <<>>] /\ outbox = [p \in Ips |-> <<>>]
  /\ ft = NoFile
  /\ mishaps = [p \in Ips |-> {}]

-----------------------------------------------------------------------------
(* The folder and inotify, which drops an event equal to the last unread   *)
(* one.  Opening a file for writing and writing to it are two events: the  *)
(* IN_OPEN between them, which the monitor ignores, keeps them apart.      *)

Notice(p, what) ==
  events' = [events EXCEPT ![p] =
    IF p \notin online \/ (@ # <<>> /\ Last(@) = what) THEN @ ELSE Append(@, what)]

NoticeOpenedAnd(p, what) ==
  events' = [events EXCEPT ![p] =
    IF p \in online THEN Append(@, what) ELSE @]

RoomForEvents(p, n) == Len(events[p]) + n <= EventCap

Opened(p) == IF disk[p] = NoFile THEN "create" ELSE "modify"

\* A user saves the file: it is created or truncated, and then written.
UserSaves(p, size) ==
  /\ changes < MaxChanges
  /\ RoomForEvents(p, 2)
  /\ changes' = changes + 1
  /\ disk' = [disk EXCEPT ![p] = [content |-> changes', size |-> size, mtime |-> clock[p]]]
  /\ events' = [events EXCEPT ![p] =
       IF p \in online
       THEN @ \o (IF Opened(p) = "create" \/ @ = <<>> \/ Last(@) # "modify"
                  THEN <<Opened(p)>> ELSE <<>>)
              \o (IF size > 0 THEN <<"modify">> ELSE <<>>)
       ELSE @]
  /\ UNCHANGED <<clock, starts, tracker, mishaps, online, node, loads, inbox, outbox>>

UserDeletes(p) ==
  /\ changes < MaxChanges
  /\ RoomForEvents(p, 1)
  /\ disk[p] # NoFile
  /\ changes' = changes + 1
  /\ disk' = [disk EXCEPT ![p] = NoFile]
  /\ Notice(p, "delete")
  /\ UNCHANGED <<clock, starts, tracker, mishaps, online, node, loads, inbox, outbox>>

\* A user, or a program, sets the mtime, as cp -p does: the monitor does not watch
\* for that.
UserStamps(p, time) ==
  /\ changes < MaxChanges
  /\ disk[p] # NoFile
  /\ changes' = changes + 1
  /\ disk' = [disk EXCEPT ![p].mtime = time]
  /\ mishaps' = [mishaps EXCEPT ![p] = IF p \in online THEN @ \cup {"skewed"} ELSE @]
  /\ UNCHANGED <<clock, starts, tracker, online, node, events, loads, inbox, outbox>>

\* The clock of p's host goes on, which may put it ahead of others: nothing keeps the
\* hosts' clocks together.
Tick(p) ==
  /\ clock[p] < MaxTime
  /\ clock' = [clock EXCEPT ![p] = @ + 1]
  /\ UNCHANGED <<changes, starts, tracker, mishaps, online, node, disk, events,
                 loads, inbox, outbox>>

\* A user, or a time server, sets it back.
SetBack(p) ==
  /\ changes < MaxChanges
  /\ clock[p] > 1
  /\ changes' = changes + 1
  /\ clock' = [clock EXCEPT ![p] = @ - 1]
  /\ mishaps' = [mishaps EXCEPT ![p] = IF p \in online THEN @ \cup {"skewed"} ELSE @]
  /\ UNCHANGED <<starts, tracker, online, node, disk, events, loads, inbox, outbox>>

-----------------------------------------------------------------------------
(* The monitor thread.  An announcement is the whole table.                *)

Announce(p, mine) ==
  /\ Len(outbox[p]) < StreamCap
  /\ outbox' = [outbox EXCEPT ![p] = Append(@, mine)]

Stamped(file, type) ==
  [timestamp |-> file.mtime, size |-> file.size, type |-> type]

SetNode(p, mine) == node' = [node EXCEPT ![p] = mine]

NoChange == UNCHANGED <<node, outbox>>

TypeOf(mine) == IF mine = NoFile THEN "none" ELSE mine.type

\* fileAdded: a file that is already in the table is announced only if it has
\* just been downloaded.
FileAdded(p) ==
  LET mine == node[p] IN
  \/ /\ TypeOf(mine) \in {"none", "FILE_DELETE"}
     /\ SetNode(p, Stamped(disk[p], "FILE_CREATE"))
     /\ Announce(p, node'[p])
  \/ /\ TypeOf(mine) = "FILE_DOWNLOAD"
     /\ SetNode(p, [mine EXCEPT !.type = "FILE_MODIFY"])
     /\ Announce(p, node'[p])
  \/ /\ TypeOf(mine) \in {"FILE_CREATE", "FILE_MODIFY", "FILE_DOWNLOADING"}
     /\ NoChange

\* Mutant: the end of a download is not announced.
FileModified_Silent(p) ==
  LET mine == node[p] IN
  \/ /\ TypeOf(mine) \in {"none", "FILE_DOWNLOADING"}
     /\ NoChange
  \/ /\ TypeOf(mine) = "FILE_DOWNLOAD"
     /\ SetNode(p, [mine EXCEPT !.type = "FILE_MODIFY"])
     /\ UNCHANGED outbox
  \/ /\ TypeOf(mine) \notin {"none", "FILE_DOWNLOADING", "FILE_DOWNLOAD"}
     /\ SetNode(p, Stamped(disk[p], "FILE_MODIFY"))
     /\ Announce(p, node'[p])

\* fileModified: nothing while downloading; after a download the version is
\* kept; otherwise the file is a new version.
FileModified(p) ==
  LET mine == node[p] IN
  \/ /\ TypeOf(mine) \in {"none", "FILE_DOWNLOADING"}
     /\ NoChange
  \/ /\ TypeOf(mine) \notin {"none", "FILE_DOWNLOADING"}
     /\ SetNode(p, IF mine.type = "FILE_DOWNLOAD"
                   THEN [mine EXCEPT !.type = "FILE_MODIFY"]
                   ELSE Stamped(disk[p], "FILE_MODIFY"))
     /\ Announce(p, node'[p])

\* fileDeleted: stamped with the time at which the event is handled.
FileDeleted(p) ==
  LET mine == node[p] IN
  \/ /\ mine = NoFile
     /\ NoChange
  \/ /\ mine # NoFile
     /\ SetNode(p, [mine EXCEPT !.timestamp = clock[p], !.type = "FILE_DELETE"])
     /\ Announce(p, node'[p])

\* One turn of the loop of notify.  An event of a file that is gone again is
\* ignored, unless it is the deletion.
HandleEvent(p) ==
  /\ p \in online
  /\ events[p] # <<>>
  /\ events' = [events EXCEPT ![p] = Tail(@)]
  /\ \/ Head(events[p]) = "create" /\ disk[p] # NoFile /\ FileAdded(p)
     \/ Head(events[p]) = "modify" /\ disk[p] # NoFile /\ FileModified(p)
     \/ Head(events[p]) = "delete" /\ FileDeleted(p)
     \/ Head(events[p]) # "delete" /\ disk[p] = NoFile /\ NoChange
  /\ UNCHANGED <<user, tracker, mishaps, online, disk, loads, inbox>>

\* Another file changes, and the announced table has this file's node in it.
OtherFileChanges(p) ==
  /\ p \in online
  /\ changes < MaxChanges
  /\ changes' = changes + 1
  /\ Announce(p, node[p])
  /\ UNCHANGED <<clock, starts, tracker, mishaps, online, node, disk, events, loads, inbox>>

-----------------------------------------------------------------------------
(* The main thread.                                                        *)

\* The peers that ptp_download asks: with three holders or more and nothing
\* left over by the division, the last one is not needed.
Asked(list) ==
  {Holders(list)} \cup
  IF Len(list) > 2 THEN {Holders(SubSeq(list, 1, Len(list) - 1))} ELSE {}

\* add or modify, and the start of a download thread.
StartLoad(p, seek) ==
  \E k \in LoadIds, ask \in Asked(seek.newpeerip) :
    /\ loads[p][k] = Idle
    /\ \A j \in 1..(k - 1) : loads[p][j] # Idle
    /\ SetNode(p, [timestamp |-> seek.timestamp, size |-> seek.size,
                   type |-> "FILE_DOWNLOADING"])
    /\ loads' = [loads EXCEPT ![p] =
         [j \in LoadIds |->
            IF j = k
            THEN [timestamp |-> seek.timestamp, size |-> seek.size,
                  ask |-> ask, got |-> {}, step |-> "fetch",
                  mixed |-> \E i \in LoadIds : loads[p][i] # Idle,
                  flushed |-> "nothing"]
            ELSE IF @[j] = Idle THEN Idle ELSE [@[j] EXCEPT !.mixed = TRUE]]]
    /\ mishaps' = [mishaps EXCEPT ![p] =
         @ \cup (IF k > 1 THEN {"overlap"} ELSE {})
           \cup (IF seek.timestamp > clock[p] THEN {"skewed"} ELSE {})]

\* Mutant: the versions are not compared.
WantsDownload_AnyVersion(mine, seek) ==
  /\ seek # NoFile
  /\ seek.size > 0
  /\ mine # NoFile => /\ mine.type # "FILE_DOWNLOADING"
                      /\ seek.type # "FILE_DELETE"

WantsDownload(mine, seek) ==
  /\ seek # NoFile
  /\ seek.size > 0
  /\ mine # NoFile => /\ mine.type # "FILE_DOWNLOADING"
                      /\ seek.type # "FILE_DELETE"
                      /\ Newer(seek, mine)

WantsDelete(mine, seek) ==
  /\ mine # NoFile /\ seek # NoFile
  /\ mine.timestamp <= seek.timestamp
  /\ seek.type = "FILE_DELETE"
  /\ mine.type # "FILE_DELETE"

\* Mutant: the file stays in the folder.
RemoveFile_Forgotten(p) == UNCHANGED <<disk, events>>

\* remove(filepath): it fails if the file is not there.
RemoveFile(p) ==
  \/ /\ disk[p] = NoFile
     /\ UNCHANGED <<disk, events>>
  \/ /\ disk[p] # NoFile
     /\ RoomForEvents(p, 1)
     /\ disk' = [disk EXCEPT ![p] = NoFile]
     /\ Notice(p, "delete")

\* compareNode, for the file's node in the table just received.
CompareNode(p) ==
  /\ p \in online
  /\ inbox[p] # <<>>
  /\ inbox' = [inbox EXCEPT ![p] = Tail(@)]
  /\ LET mine == node[p]
         seek == Head(inbox[p])
     IN  \/ /\ WantsDownload(mine, seek)
            /\ StartLoad(p, seek)
            /\ UNCHANGED <<disk, events>>
         \/ /\ WantsDelete(mine, seek)
            /\ SetNode(p, [mine EXCEPT !.type = "FILE_DELETE"])
            /\ RemoveFile(p)
            /\ UNCHANGED <<loads, mishaps>>
         \/ /\ ~WantsDownload(mine, seek) /\ ~WantsDelete(mine, seek)
            /\ UNCHANGED <<node, disk, events, loads, mishaps>>
  /\ UNCHANGED <<user, tracker, online, outbox>>

-----------------------------------------------------------------------------
(* A download thread.                                                      *)

SetLoad(p, k, load) == loads' = [loads EXCEPT ![p][k] = load]

\* The end of a process, by exit, a signal or a fault.  It leaves the files, and
\* what it has sent.
Die(p) ==
  /\ online' = online \ {p}
  /\ ended' = ended \cup {p}
  /\ node' = [node EXCEPT ![p] = NoFile]
  /\ events' = [events EXCEPT ![p] = <<>>]
  /\ loads' = [loads EXCEPT ![p] = [k \in LoadIds |-> Idle]]
  /\ inbox' = [inbox EXCEPT ![p] = <<>>]
  /\ mishaps' = [mishaps EXCEPT ![p] = {}]
  /\ UNCHANGED <<user, ft, disk, outbox>>

Fetching(p, k, h) ==
  /\ loads[p][k] # Idle
  /\ loads[p][k].step = "fetch"
  /\ h \in loads[p][k].ask

\* piece_download of the piece that holder h is asked for.
Fetch(p, k, h) ==
  /\ Fetching(p, k, h)
  /\ h \in online /\ disk[h] # NoFile
  /\ SetLoad(p, k, [loads[p][k] EXCEPT
       !.ask = @ \ {h},
       !.got = @ \cup {[content |-> disk[h].content, size |-> disk[h].size]}])
  /\ UNCHANGED <<user, tracker, mishaps, online, node, disk, events, inbox, outbox>>

\* The holder cannot be reached, or has no such file and closes: either way
\* piece_download ends the process.
FetchFails(p, k, h) ==
  /\ Fetching(p, k, h)
  /\ h \notin online \/ disk[h] = NoFile
  /\ Die(p)

\* fopen(filepath, "w").
OpenFile(p, k) ==
  /\ loads[p][k] # Idle
  /\ loads[p][k].step = "fetch" /\ loads[p][k].ask = {}
  /\ RoomForEvents(p, 1)
  /\ SetLoad(p, k, [loads[p][k] EXCEPT !.step = "open"])
  /\ disk' = [disk EXCEPT ![p] = [content |-> Garbled, size |-> 0, mtime |-> clock[p]]]
  /\ Notice(p, Opened(p))
  /\ UNCHANGED <<user, tracker, mishaps, online, node, inbox, outbox>>

\* What the pieces make up.
Assembled(load) ==
  IF load.got = {}
  THEN [content |-> Garbled, size |-> 0]
  ELSE [content |-> IF \E d \in load.got : load.got = {d} /\ d.size = load.size
                       /\ ~load.mixed
                    THEN (CHOOSE d \in load.got : TRUE).content
                    ELSE Garbled,
        size |-> load.size]

\* fwrite has filled the buffer of the stream: a part of the file, or all of it
\* if the buffer is empty again after it, reaches the disk early.
Flush(p, k, part) ==
  /\ loads[p][k] # Idle
  /\ loads[p][k].step = "open" /\ loads[p][k].flushed = "nothing"
  /\ disk[p] # NoFile
  /\ RoomForEvents(p, 1)
  /\ LET data == Assembled(loads[p][k])
     IN  /\ data.size > 0
         /\ disk' = [disk EXCEPT ![p] =
              [content |-> IF part = "all" THEN data.content ELSE Garbled,
               size |-> IF part = "all" THEN data.size ELSE data.size - 1,
               mtime |-> clock[p]]]
  /\ SetLoad(p, k, [loads[p][k] EXCEPT !.flushed = part])
  /\ NoticeOpenedAnd(p, "modify")
  /\ UNCHANGED <<user, tracker, mishaps, online, node, inbox, outbox>>

\* Mutant: only the size is set.
SetNodeType_SizeOnly(p, k) ==
  /\ loads[p][k] # Idle
  /\ loads[p][k].step = "open"
  /\ SetLoad(p, k, [loads[p][k] EXCEPT !.step = "typed"])
  /\ SetNode(p, [node[p] EXCEPT !.size = loads[p][k].size])
  /\ UNCHANGED <<user, tracker, mishaps, online, disk, events, inbox, outbox>>

\* setNodeType(filename, FILE_DOWNLOAD, fileSize).
SetNodeType(p, k) ==
  /\ loads[p][k] # Idle
  /\ loads[p][k].step = "open"
  /\ SetLoad(p, k, [loads[p][k] EXCEPT !.step = "typed"])
  /\ SetNode(p, [node[p] EXCEPT !.type = "FILE_DOWNLOAD", !.size = loads[p][k].size])
  /\ mishaps' = [mishaps EXCEPT ![p] =
       IF node[p].type = "FILE_DELETE" THEN @ \cup {"overlap"} ELSE @]
  /\ UNCHANGED <<user, tracker, online, disk, events, inbox, outbox>>

\* fclose writes what is still in the buffer, after setNodeType.  If the file
\* was removed meanwhile, the data go with it.
CloseFile(p, k) ==
  /\ loads[p][k] # Idle
  /\ loads[p][k].step = "typed"
  /\ RoomForEvents(p, 1)
  /\ LET data == Assembled(loads[p][k])
     IN  IF loads[p][k].flushed = "all" \/ data.size = 0 \/ disk[p] = NoFile
         THEN UNCHANGED <<disk, events>>
         ELSE /\ disk' = [disk EXCEPT ![p] =
                   [content |-> data.content, size |-> data.size, mtime |-> clock[p]]]
              /\ IF loads[p][k].flushed = "nothing"
                 THEN NoticeOpenedAnd(p, "modify")
                 ELSE Notice(p, "modify")
  /\ SetLoad(p, k, Idle)
  /\ UNCHANGED <<user, tracker, mishaps, online, node, inbox, outbox>>

-----------------------------------------------------------------------------
(* Peers start and end.                                                    *)

\* connect_to_tracker and the first table.  What the last process has sent has
\* arrived, but the end of its session may still be unseen.
Start(p) ==
  /\ p \notin online
  /\ starts < MaxStarts
  /\ outbox[p] = <<>>
  /\ starts' = starts + 1
  /\ online' = online \cup {p}
  /\ inbox' = [inbox EXCEPT ![p] = <<ft>>]
  /\ mishaps' = [mishaps EXCEPT ![p] =
       IF disk[p] # NoFile /\ disk[p].mtime > clock[p] THEN {"skewed"} ELSE {}]
  /\ UNCHANGED <<clock, changes, tracker, node, disk, events, loads, outbox>>

Stop(p) ==
  /\ p \in online
  /\ Die(p)

-----------------------------------------------------------------------------
(* The tracker.                                                            *)

\* Peer p announces the version that the tracker has, and there is no slot left.
Crowded(p, theirs) ==
  /\ p \in online /\ theirs # NoFile /\ ft # NoFile
  /\ SameVersion(theirs, ft)
  /\ p \notin Holders(ft.newpeerip) /\ Len(ft.newpeerip) = MAX_PEER_NUM

\* What p's announcement changes in p's mishaps.
MishapsOfMerge(p, theirs) ==
  IF ft' # NoFile /\ p \in Holders(ft'.newpeerip) THEN mishaps[p] \ {"crowded", "delisted"}
  ELSE mishaps[p] \cup IF Crowded(p, theirs) THEN {"crowded"} ELSE {}

\* update_filetable and broadcast_filetable.  While the list still contains a
\* peer that is gone, the broadcast may end at it.
RecvUpdate(p) ==
  /\ outbox[p] # <<>>
  /\ \A q \in online : Len(inbox[q]) < StreamCap
  /\ outbox' = [outbox EXCEPT ![p] = Tail(@)]
  /\ ft' = IF Head(outbox[p]) = NoFile THEN ft
           ELSE MergeNode(ft, Head(outbox[p]), p)
  /\ \E reached \in IF ended = {} THEN {online} ELSE SUBSET online :
       /\ inbox' = [q \in Ips |-> IF q \in reached THEN Append(inbox[q], ft')
                                 ELSE inbox[q]]
       /\ mishaps' = [q \in Ips |->
            (IF q = p THEN MishapsOfMerge(p, Head(outbox[p])) ELSE mishaps[q]) \cup
            (IF q \in online \ reached THEN {"missed"} ELSE {})]
  /\ UNCHANGED <<user, ended, online, node, disk, events, loads>>

\* The thread of the peer's last session ends: delete_peer.
SessionEnds(p) ==
  /\ p \in ended
  /\ p \notin online => outbox[p] = <<>>
  /\ ended' = ended \ {p}
  /\ ft' = IF ft = NoFile THEN NoFile
           ELSE [ft EXCEPT !.newpeerip = Delist(@, p)]
  /\ mishaps' = [mishaps EXCEPT ![p] = IF p \in online THEN @ \cup {"delisted"} ELSE @]
  /\ UNCHANGED <<user, online, node, disk, events, loads, inbox, outbox>>

Next ==
  \/ \E p \in Ips :
       \/ Tick(p) \/ SetBack(p)
       \/ \E time \in 1..MaxTime : UserStamps(p, time)
       \/ \E size \in Sizes : UserSaves(p, size)
       \/ UserDeletes(p) \/ OtherFileChanges(p)
       \/ HandleEvent(p) \/ CompareNode(p)
       \/ \E k \in LoadIds :
            \/ \E h \in Ips : Fetch(p, k, h) \/ FetchFails(p, k, h)
            \/ OpenFile(p, k)
            \/ \E part \in Flushes : Flush(p, k, part)
            \/ SetNodeType(p, k) \/ CloseFile(p, k)
       \/ Start(p) \/ Stop(p)
       \/ RecvUpdate(p) \/ SessionEnds(p)

Spec == Init /\ [][Next]_vars

-----------------------------------------------------------------------------
(* Properties.                                                             *)

\* Nothing is under way: every event is handled, every table compared and
\* merged, every download over, every ended session seen.
Quiet ==
  /\ ended = {}
  /\ \A p \in online : /\ events[p] = <<>> /\ inbox[p] = <<>> /\ outbox[p] = <<>>
                       /\ \A k \in LoadIds : loads[p][k] = Idle

\* The peer has the tracker's version, or the tracker's is one that nobody
\* downloads: an empty file, or a deletion of a file that the peer has not got.
Agrees(mine, theirs) ==
  \/ theirs.size = 0
  \/ theirs.type = "FILE_DELETE" /\ TypeOf(mine) \in {"none", "FILE_DELETE"}
  \/ mine # NoFile /\ SameVersion(mine, theirs)

\* When nothing is under way, a peer that every broadcast has reached agrees with
\* the tracker, although it skips the versions that arrive while it is
\* downloading (peer.c:546): the announcement after the download brings them
\* again.  Except for a downloaded file that the monitor has not noticed, for
\* which there was no such announcement (FILE_DOWNLOAD), and for a peer on which a
\* download has overlapped with another one or with the deletion of the file.
SettledPeersAgree ==
  Quiet /\ ft # NoFile =>
    \A p \in online : \/ Agrees(node[p], ft)
                      \/ TypeOf(node[p]) = "FILE_DOWNLOAD"
                      \/ mishaps[p] \cap {"missed", "overlap"} # {}

\* When nothing is under way, a file that the peer's table calls deleted is not in
\* its folder, whatever downloads were writing it when the deletion came.
DeletedMeansGone ==
  Quiet => \A p \in online : TypeOf(node[p]) = "FILE_DELETE" => disk[p] = NoFile

\* When nothing is under way, a peer that has announced the tracker's version is
\* among the holders, unless the list was full then: neither another peer's version
\* in between, nor a deletion, nor the end of another peer's session loses it.  Only
\* the late end of its own last session does.
AnnouncedIsListed ==
  Quiet /\ ft # NoFile =>
    \A p \in online :
      TypeOf(node[p]) \in {"FILE_CREATE", "FILE_MODIFY"} /\ SameVersion(node[p], ft)
        => \/ p \in Holders(ft.newpeerip)
           \/ mishaps[p] \cap {"crowded", "delisted"} # {}

\* A node in state FILE_DOWNLOADING, which ignores events and newer versions alike,
\* has a download thread that will still change its type.
NoStuckDownload ==
  \A p \in Ips : TypeOf(node[p]) = "FILE_DOWNLOADING" =>
    \E k \in LoadIds : loads[p][k] # Idle /\ loads[p][k].step \in {"fetch", "open"}

\* A peer never goes back to an older version of a file that it has not deleted,
\* whoever writes the node, main thread or monitor; unless a download of the file
\* has overlapped with another one, or with its deletion, which it undoes, or the
\* clocks of the hosts are at odds.
LocalVersionsGrow ==
  [][\A p \in Ips :
       TypeOf(node[p]) \notin {"none", "FILE_DELETE"} /\ node'[p] # NoFile
         => \/ node'[p].timestamp >= node[p].timestamp
            \/ mishaps'[p] \cap {"overlap", "skewed"} # {}]_vars
=============================================================================
