# DartSync in TLA+

DartSync keeps a folder the same on several machines. One **tracker** knows
which files exist, in which version and at which addresses; the **peers** watch
their folders, tell the tracker what changed, and fetch from each other what
they lack. This directory models that system, checks the models with TLC and
proves with TLAPS what matters most in each of its parts and in the whole of them.
Everything is translated from the C code under `src/`; `PROJECT.json` maps each
definition to its lines.

## 1. Inventory

| part | code | state | operations |
|---|---|---|---|
| tracker, file table | `tracker.c`: `update_filetable`, `delete_peer` | list of `Node`: name, time stamp, size, type, `newpeerip[MAX_PEER_NUM]` (who has this version) | merge an announced table; forget a peer |
| tracker, peer list | `add_peer`, `delete_peer`, `heard_peer` | linked list of socket, address, `last_time_stamp`; the sockets | add, delete, stamp |
| tracker, threads | `main`, `handshake`, `heartbeat`, `broadcast_filetable` | one thread per connection (`counter`, `file_table_size`, `peer_ft`), one heartbeat thread | accept; receive REGISTER, FILE_UPDATE, KEEP_ALIVE; expire; broadcast |
| packets | `pkt.c` | bytes in two TCP streams per peer | `peer_sendpkt`, `tracker_recvpkt`, `tracker_sendpkt`, `peer_recvpkt` |
| peer, main thread | `peer.c`: `main`, `connect_to_tracker`, `compareNode`, `add`, `modify`, `delete` | the peer's file table | register; compare the tracker's table with its own; start downloads, remove files |
| peer, downloads | `ptp_download`, `piece_download`, `setNodeType` | one thread per file and per piece, temporary files `.name_i` | divide, resume, fetch, assemble |
| peer, uploads | `ptp_listening`, `ptp_upload`, `p2p.c` | one thread per request | serve a range of a file |
| peer, file monitor | `monitor.c` | inotify watches, directory tree; writes the same file table | on create, modify, delete: change a node, announce the whole table |
| peer, keep_alive | `keep_alive` | – | a heartbeat every 60 s on the same socket |
| compression | `datacompress.c` | – | compress and decompress a packet; on anything but a whole packet the process ends |
| configuration, test program, unused code, zlib | `readConfigFile`, `test.c`, `list.c`, `.monitor2.c`, `lib/` | – | not modelled |

**Interaction.** A peer connects and sends REGISTER; the tracker answers with its
table. A change in a peer's folder makes the monitor thread announce the peer's
whole table: one packet with the number of nodes, one packet for each node. The
handshake thread puts the table together, merges it, and sends the merged table
to every peer in the list, in the same format. A peer's main thread compares and
starts downloads; a downloader asks the addresses in `newpeerip` for a piece
each. No part uses a lock, neither tracker nor peer ignores SIGPIPE, and
nothing is stored but the files themselves.

**What is hard here.** (1) Threads of the tracker share the table, the peer list
and the sockets; threads of a peer share its table and the socket to the
tracker. (2) Sessions of one address overlap: a connection may be lost without
notice while the peer is already back on another one. (3) A table is a sequence
of packets between which anything else can happen. (4) Downloads are cut off and
begun again over what they left on disk, and two downloads of one file may run at
once. (5) The list code has edges: one peer, the first peer, a full list. (6) The
monitor sees the writes of the peer's own downloads and removals as it sees the
user's, later than they happen. (7) File descriptors and watch descriptors are used
after what they stood for is gone. `PROJECT.json` lists these as hazards, each at its
line, with the properties that would notice.

**What makes each part correct.**

- File table: a name's version only grows; the list of holders contains each
  holder of the current version once, fits its array, and only names peers that
  are there.
- Peer list: exactly the open connections; silent peers leave it.
- Packets: a table arrives whole and once, or not at all; the two ends never
  disagree about where a table begins.
- Download: the file on disk is the announced version; a failure leaves nothing
  that spoils a later download.
- Transfer: a piece arrives as it is, or nothing of it is written; nobody waits for ever.
- Monitor: an event is looked for in the directory it happened in.
- Whole system: when nothing is under way any more, peers and tracker agree.

## 2. Modules

| module | models | composes |
|---|---|---|
| `Registry` | what the tracker promises: newest versions, their holders, who is online | |
| `FileTable` | versions, holder lists, `update_filetable`, the first half of `delete_peer`, each in one step | |
| `Tracker` | all threads of the tracker, its peers as environment; implements `Registry` | extends `FileTable`, instantiates `Registry` |
| `SharedTable` | `update_filetable` and `delete_peer` store by store, in several threads | extends `FileTable`, whose operators say what they must come to |
| `Accept` | descriptors: from `accept` to the handshake thread, closed and given out again | |
| `Heartbeat` | the tracker's and the peers' heartbeats in time | |
| `UpdateStream` | `peer_sendpkt` → `handshake`, packet by packet | |
| `BroadcastStream` | `tracker_sendpkt` (several threads) → `peer_recvpkt` | |
| `Sync` | peers and tracker together: main, monitor and download threads, folders, streams | extends `FileTable` |
| `Download` | `ptp_download`, `piece_download` and the disk | |
| `Transfer` | one piece in packets: `piece_download`, `ptp_listening`, `ptp_upload` | |
| `DirWatch` | the monitor's directories and watch descriptors | |
| `TrackerProofs`, `SharedTableProofs`, `AcceptProofs`, `HeartbeatProofs`, `DownloadProofs`, `SyncProofs` | lemmas and theorems | each extends the module it is about |
| `MonitorProofs` | lemmas and theorems about the monitor's two modules | extends `UpdateStream` and `DirWatch` |
| `StreamProofs` | lemmas and theorems about what arrives at a peer: tables and pieces | extends `BroadcastStream` and `Transfer` |
| `MC…` | instances for TLC | |

Each module takes as one step what another one takes apart: `Tracker` handles an
announced table in one step, `UpdateStream` and `BroadcastStream` show when a table
does arrive as a whole, `SharedTable` when merging it is like one step, and `Accept`
when the thread that merges it is the right one. `Sync` takes a piece as one step,
`Download` and `Transfer` show what that takes.

### FileTable and Tracker

The table is a function from names to nodes (`update_filetable` appends only
names it did not find, so a name occurs once) and `newpeerip` is the sequence of
entries before the first empty one. `MergeNode` has the four branches of the
loop: add, newer version, same version, older version. `ForgetPeer` moves the
last holder into the hole.

One step of `Tracker` is one turn of one thread: `Accept` (accept and
`add_peer`), `RecvRegister`, `RecvUpdate` (the last packet of a table: merge
*and* broadcast, with the `delete_peer` that a failed send causes),
`RecvKeepAlive`, `HandshakeExit` (with its `delete_peer`), `HeartbeatExpire`.
`Tick` is time, `PeerCloses` and `PeerSilent` are the peers.

What C leaves undefined is a choice. `delete_peer` frees the head of the list
without moving `peer_head`. `heap` says what has become of that cell: it is
`dangling` (its contents stay, except the address, which the allocator
overwrites), and a later `calloc` may hand it out again (`reused`), after which the
list consists of that cell alone. Freeing it a second time (`FreeTwice`) aborts the
process, or is not noticed, as when the cell lies in the cache of another thread;
then it is `corrupt`, and any later `calloc` may return it. `Intact` says that this
has not happened. A send to a peer that is gone may succeed, fail, or raise SIGPIPE
(`SendOk`, `SendFails`, `SendKills`).

Assumptions: the address that `accept` sees is the one `getmyip` reports; one
peer process per address (it binds `P2P_PORT`); a socket number is not given to
a new connection while a thread for its previous owner may still wake up (only
a thread that waits for a silent peer is passed over); the kernel hands out the
lowest free number.

### UpdateStream and BroadcastStream

A node is its position in the list. The interesting bit of a node is
`more`: its `pNext` was not NULL when the structure was copied into a packet.
The receivers link the nodes themselves but leave the last `pNext` as it came.
`UpdateStream` has the monitor thread (count, then walk), the main thread
(`AddNode`), the keep_alive thread and a disconnection on one side, and the
handshake thread's variables on the other; `thread` records when that thread
uses a table it has freed or a pointer of the peer. In a peer, whose list has one thread at a time at its end, it only grows.
`BroadcastStream` has
several tracker threads with a cursor each, one socket, and `peer_recvpkt`,
which takes the first packet of a call for a size and the following ones for
nodes. A send blocks while the connection is full. The same threads append to the list:
`FindTail` (the scan has found no such file), `LinkNode`, `FillNode`. When two
appends overlap, the list may lose nodes again, between a count and a walk too, or be
replaced (`SharedTable` has those steps); from then on it is `torn`, and a count or a
walk over it may come to anything.

### Download

A byte is its version and its offset, so that a wrong byte shows. `Divide` is
the three-way division with its C arithmetic, `Wanted` the test whether a piece
must be fetched, `Serve` what `upload_send` reads. `Begin` is `ptp_download` up
to the last `pthread_create`, `PieceDone` a piece thread that has appended its
data, `StartAssembly`, `AssemblePiece` and `Finish` the rest. The process may die at every
step, or in the middle of a write, and restarts with the temporary files that
are there. The listed holders are taken to have the version they are listed for.
The pattern given to `find` cannot match `.name_i`, but may match other files of the
folder; their number (`matches`) is an input.

### Registry

Versions, sets of holders, the addresses that are online. `Announce` is one merged
table, possibly with one connection found broken in the broadcast; `Leave` is the end
or the expiry of a connection. `Tracker!ImplementsRegistry` maps the tracker to it: a
node to its time stamp and size, `newpeerip` to the set of its entries, the open
sockets that have been heard to their addresses. Threads, sockets, list cells and
ages disappear. So does the freed head, as long as it is freed once; a tracker that has
freed it twice and not noticed (`running` is `Intact`) has no holders or addresses that
`Registry` knows of, only versions that do not go back (`Adrift`).

### SharedTable

A node is a cell with a pointer; a step is one read of a pointer or one store, in the
order of the C statements. The test for the last node and the advance are two reads
(`Scan`, `Advance`), and so are the link of a new node and `tracker_ftemp =
tracker_ftemp->pNext` (`AppendNode`, `Reread`): in between another thread's `pNext = NULL`
may make the second one NULL. At the advance that is the case "HEAD was null": a new and
empty `ft`, then its head (`SetHead`). After the link it is a `strcpy` to NULL, the
end of the tracker (`alive`). `expected` follows with `FileTable`'s operators, one step
for each call, and `races` records which kinds of calls have overlapped, so that the
properties can say which overlap is needed to lose what. Two stores of one statement
(`strcpy`, `memset`) are one step. `Chain` is the nodes that a walk from the head meets:
those in every set that has the head and, with a node, the next one.

### Accept and Heartbeat

`Accept` has descriptors, threads and connections as three different things: `open`
gives the connection behind a descriptor, `fd` what a thread takes for its descriptor,
`wait` the connection that its blocked `recv` holds on to. What a thread does with a
number that was overwritten is not followed (`overwritten` ends the behaviour, as
`freed` does), since that is a data race with all its outcomes. `Closed` is what a step
closes; `strangers` is the history of who had a connection closed by another thread.

`Heartbeat` has clocks: `alarm` and `check` run down, `age` runs up, and `Tick` waits
for whoever must act now. All that is assumed is `MaxDelay`, from the end of
keep_alive's sleep to `heard_peer`, while there is a network and the handshake thread
reads. A thread that broadcasts may block on a peer that is cut off. Of the list only the
head matters, whose successors are what `heartbeat` looks at: `peer_head` is the socket of
the first cell, and `age` has the cells in its domain.

### Sync

One file, `Ips` peers and the tracker's node of that file. The peer's file table is
that one node (`node`), its folder that one file (`disk`). `FileAdded`, `FileModified`
and `FileDeleted` are the monitor's handlers, `CompareNode` is the main thread, a
download is fetch, open, write, set type, close, with the inotify events that each of
these causes; what `fopen`'s buffer lets through early is a choice (`Flush`).
Announcements and broadcasts are whole tables in order. `OtherFileChanges` stands for
all other files: it announces the node as it is. `mishaps` is a history of the
things that the properties exempt: a broadcast that did not reach the peer (`missed`), a
merge that found the list of holders full (`crowded`), the end of an earlier session that
took the peer off it (`delisted`), and a download that ran at the same time as another one
or as the deletion of the file (`overlap`). Each host has a clock of its own, which nothing keeps in step with the
others: `Tick` moves one, `SetBack` sets one back, `UserStamps` sets the mtime of a file.
What the monitor stores is the host's time or the file's mtime, without a look at what is
in the node. `mishaps` has `skewed` for a peer that has something which is stamped later
than its own clock, or whose clock or file was set by hand.

### Transfer

Each connection has a downloader's end (`phase`, `received`, `buffer`) and an upload
thread's (`upload`), and a stream between them. `strncpy` before compression turns what
follows a NUL byte into NUL bytes; `strlen` after decompression stops at one, or reads
on behind the block (`CStrings` with up to `MaxJunk` bytes of `Junk`). A short `recv`
makes `garbled`, which decompressString ends. The listening thread serves one
request at a time.

### DirWatch

`dir` is what is in the folder, `tree` the list of directories, `folder` and `wd` the
arrays of notify, `watch` the kernel's table. The slot of a directory made after the
start points to `abspath`, a variable of notify, so its string is the path of the event
before; this and freed strings are slots of kind `buffer` and `freed`. `sprintf` writes
`abspath` from itself then, one behind the other (the build has `-g` and no optimisation,
so it is the plain sprintf), and as that path has no slash at its end, `a` and then an event
of `b` come to `/sync/ab`: `Together` has the paths that are made like that, from the
triples of names in `Joins`. Any other such string is `Elsewhere`, and one that begins with
freed memory `Garbled`; what strstr finds in those is left open (`PathMatches`), so a bare
name may be found in the path of the sync folder itself, whose node has none before it
(`"crashed"`). Of two paths, strstr finds one in any that begins with it, also if only a
part of a name matches (`Mentions`). `accidents` is the history that the properties exempt;
`astray` is a removal that was handled under another path than its own.

## 3. Runs

| run | bounds | states | shows |
|---|---|---|---|
| `tracker_peers` | 3 addresses, 3 sockets, 2 slots, 1 version, timeout 0, symmetric; two cells once the head is freed twice | 2.25 M | `TypeOK`, `HoldersProper`, `HoldersOnline`, `SocketsMatchPeerList`, `ListedOnce` |
| `tracker_files` | 1 file, 2 addresses, 2 sockets, 3 versions (the second larger in the same second; the third later and smaller), timeout 1, fairness | 307 k | `GoneHoldersDelisted`, `ImplementsRegistry` |
| `tracker_broadcast` | as `tracker_peers`, 2 addresses, 2 versions | – | violation of `BroadcastReachesAll` (below) |
| `shared_table` | 2 threads, 3 calls, 2 files, 2 versions, 2 addresses, 2 slots, thread and address of the first call fixed, fairness | 629 k | `SerialCallsAtomic`, `VersionsSafeFromDeletes`, `FilesKept`, `CrashedByAppends`, `CallsEnd` |
| `accept` | 3 connections, 2 descriptors, 1 byte unread, fairness | 162 k | `OwnThreadReads`, `OthersStayOpen`, `BytesAreRead` |
| `heartbeat` | 2 peers, interval 1, timeout 4, delay up to 3, fairness | 108 k | `LivePeersKept`, `FoundInTime`, `ExpiredPeerStops` |
| `update_stream` | 4 nodes, 3 announcements, 4 packets in flight, fairness | 34 k | `MergedAsAnnounced`, `FailsOnlyAfterRace`, `AnnouncedIsMerged` |
| `broadcast_stream` | 3 threads, 3 nodes, 4 tables, 3 packets, symmetric; 2 tables once the list is torn | 4.98 M | `ReceiverResynchronises`, `WholeUnlessOverlap` |
| `sync` | 2 peers, 2 changes by users, 2 starts, 2 seconds on each clock, 2 downloads per peer, 2 tables per stream, symmetric; 1 download per peer while clocks are at odds | 3.01 M | `SettledPeersAgree`, `DeletedMeansGone`, `AnnouncedIsListed`, `NoStuckDownload`, `LocalVersionsGrow` |
| `download` | sizes 1–4, up to 4 holders, 2 versions, 1 restart, fairness | 221 k | `FreshDownloadExact`, `FreshDownloadAssembles`, `FreshDownloadTidies`, `DownloadEnds` |
| `transfer` | 2 connections, packets of 2 bytes, pieces of 3 and 4, a text, two binary files and none, fairness | 437 k | `TextPiecesExact`, `BinaryLossBounded`, `TransferEnds` |
| `dir_watch` | 3 directories and the folder: `a`, `a/b`, `ab`, and files `a` and `b`; 5 made in all, 4 slots, 2 unread events, nothing behind a rename | 915 k | `NeverMisattributed`, `StartedDirsReported`, `HeadStays`, `TreeMatchesFolder`, `StartedStayWatched` |

`TypeOK` is stated in every module; it is a property of the run of the tracker, where a
plausible fault of the code breaks it, is proved in most of the others, and documents the
variables. `VersionsNeverRegress` and `NewVersionSoleHolder` have no run of their own,
because `ImplementsRegistry` has them in it: two of its mutants break just these.

Why the bounds are enough to see something: with three addresses and two slots
the holder list overflows if it can; with three sockets there is a first, a
middle and a last cell; timeout 0 lets the heartbeat interleave with everything;
two versions and one restart let the leftovers of one download meet the next
one; sizes 1 to 4 over 0 to 4 holders reach each branch of the division with and
without remainder, and the files that are too short for it. Four nodes and three
announcements let a stray node fall inside, between and after tables. Three calls in
two threads let a third call see what two overlapping ones have left; the
announcement of two nodes has the update of the second file come after an append.
Three connections over two descriptors make a number come back while its last owner
still runs. An interval of 1, a timeout of 4 and a delay of 3 are the proportions of
`constant.h` at the very edge of what keeps a live peer: with a delay of 4 it
would expire. In `sync` two changes are a save and another save, a deletion, or a
change of another file, at either peer; two starts over two peers let both run, or
one twice. Two bytes in a packet and pieces of three and four give one packet and a
part of one, two whole ones, and a packet behind one without NUL. Five directories
over four slots make the array overflow; the names `a`, `b` and `ab` are the smallest with
which two paths joined without a slash are a third one.

Some runs have a state constraint. `FewCellsWhenCorrupt` (Tracker), `FewTablesWhenTorn`
(BroadcastStream) and `NothingAfterRename` (DirWatch) bound what is looked at behind an
event that the properties exempt, or, for a tracker that has freed its head twice, of which
they only say that holder lists stay proper and versions are not lost: these the
proofs have without a bound. `OneLoadWhenSkewed` (Sync) leaves two downloads at a time to
the states in which no clock is at odds; that the properties hold for both together is
proved. `FirstCallFixed` (SharedTable) fixes the thread and the address of the first call:
threads are alike, and addresses too, so with another first call the same happens under
other names; symmetry would do the same, but not in a run with liveness. Symmetry is over addresses and threads, which the modules only compare, in runs
without liveness.

Deadlock is not checked: the tracker and the peers may die, streams may be
closed, and the bounded counters run out.

**Fairness.** `tracker_files`: the handshake threads, the heartbeat thread and the clock
make progress; no peer has to do anything. `update_stream`: the handshake
thread and the sending loop. The loop gets strong fairness for `SendNode`,
because it competes with keep_alive for room in the connection: a blocked `send`
is served when there is room again and again, and keep_alive writes once a
minute. `download`: the threads of a running process, and holders that
answer or refuse. `shared_table`: each thread goes on. `accept`: main and the
handshake threads. `heartbeat`: the threads, and time (strong fairness for `Tick`,
which the peers' steps disable and enable again). `transfer`: the threads of both
processes; no process has to end, and no lost host has to come back.

### What the exemptions say

Many properties hold up to a condition. Each condition names a defect, and the run
shows that it is the only cause of that failure.

| property | holds unless | because |
|---|---|---|
| `SocketsMatchPeerList`, `FoundInTime` | the head cell has been freed; or for the head | `delete_peer` does not move `peer_head` (tracker.c:299–306), and leaves a lone peer in the list |
| `HoldersOnline`, `ListedOnce`, `ImplementsRegistry` (but for versions) | the head cell has been freed twice, and the allocator has not noticed | the same: the second `delete_peer` of that number frees it again |
| `FailsOnlyAfterRace` | a node was appended during an announcement | `peer_sendpkt` counts the list and walks it again; handshake's test for the last node is also true between two tables (tracker.c:67) |
| `WholeUnlessOverlap` | two tables were sent at once, the table grew meanwhile, or two appends overlapped | no lock on the socket or the table; a size packet is then taken for a node |
| `ReceiverResynchronises` | two appends overlapped | fewer nodes may follow than were counted (pkt.c:164, 177) |
| `VersionsSafeFromDeletes` | two updates overlapped | no lock on the table |
| `FilesKept`, `CrashedByAppends` | two appends overlapped | `pNext = NULL` (tracker.c:229) cuts off what was linked meanwhile, also between line 210 and 211, or 200 and 154 |
| `OwnThreadReads`, `OthersStayOpen` | main accepted the next connection first; or another thread closed the connection | `&connection` (tracker.c:386); a closed number is used on |
| `LivePeersKept` | the peer's thread was blocked in a broadcast, or its network was cut | one thread reads heartbeats and sends to everybody |
| `SettledPeersAgree` | a broadcast ended before the peer; a download was not noticed by the monitor, or overlapped with another one or with the deletion; the version is an empty file | tracker.c:118; `fclose` may write before or after `setNodeType`; `compareNode` asks only for sizes above 0 |
| `AnnouncedIsListed` | the list was full; or the end of the peer's last session came late | `newpeerip` has `MAX_PEER_NUM` slots; `delete_peer` goes by address |
| `LocalVersionsGrow` | two downloads of the file, or a download and its deletion, overlapped; or clocks at odds: the peer's is behind a stamp that it has, or clock or mtime were set | `setNodeType` and `fclose` go by name; monitor.c:144, 220, 251 store the host's own stamps and compare nothing |
| `NeverMisattributed` | a watch could not be added at the start, or a directory was renamed; it says nothing of slots that are no node's | slots and descriptors are counted apart; no branch for IN_MOVED |
| `FreshDownload…` | leftovers; a file too short for its holders | temporary files carry no version; `pieceSize` 0 |
| `BinaryLossBounded` | – (it says what is lost) | strings for binary data |
| `TransferEnds` | a host was lost without a word, even one of a third party | no timeout; the listening thread reads requests itself |
| `StartedDirsReported`, `HeadStays` | a directory came or went during the start, was renamed, was confused with a longer name, or a removal was handled under another path than its own | walk and watch are two loops; no branch for IN_MOVED; strstr; paths joined without a slash |
| `TreeMatchesFolder`, `StartedStayWatched` | a directory came or went during the start, was renamed, was confused with a longer name, or one was made in one made after the start, or the array was full | `folderArray[count] = abspath`, of which there is one; slots are not reused |

### Where comment and code disagree

`tracker_broadcast`: tracker.c:110 says “send tracker filetable to all peer's in
peers_list”; the code stops at the first send that fails, and nothing is sent again
to the peers behind it.

Other comments that do not hold, found while modelling and visible in the exemptions:
tracker.c:298 “search through peers linked_list … and delete it” (a lone peer stays, the
head is freed and stays); tracker.c:66 “if received last file Node” (also true for
a stray node between two tables); pkt.c:128 “receive file node” (also another
thread's size packet); peer.c:289 “do not redownload a complete temporary file” (it may
be one of another version or division); peer.c:212 “divide one file into *peerNum*
pieces” (short files lose or miss pieces); tracker.c:385 “hand-off communication with
peer to a separate handshake thread” (what is handed over is a pointer to main's own
variable, which the next `accept` overwrites); monitor.c:392 “update folderArray and
remove this directory from watching” (the slot of a directory made after the start points
to `abspath`, in which any removed path is found, so the loop may take the watch of a later
directory that is still there). The scan for a duplicate in
`add_peer` leaves out the last cell (tracker.c:251). Both receivers follow
the `pNext` of the last node, an address of the sender, if the list grew after it
was counted (tracker.c:149, peer.c:698; `"wildPointer"` in the stream modules).

## 4. Proofs

A dash marks a theorem whose statement (in brackets) no run checks by itself. Each theorem
holds for all values of the constants that satisfy the assumptions of its
module: any number of threads, peers, sockets, files, connections, announcements, packets and
ticks of the clock.

| module | theorem | property |
|---|---|---|
| `TrackerProofs` | `TypeCorrect` | `TypeOK` |
| | `HoldersStayProper` | `HoldersProper` |
| | `HoldersStayOnline` | `HoldersOnline` |
| | `ListMatchesSockets` | `SocketsMatchPeerList` |
| | `CellsListedOnce` | `ListedOnce` |
| | `VersionsOnlyGrow` | – (`VersionsNeverRegress`) |
| | `NewVersionsStartAlone` | – (`NewVersionSoleHolder`) |
| | `TrackerImplementsRegistry` | `ImplementsRegistry` |
| `SharedTableProofs` | `AccessesStayInside` | – (`TypeOK`) |
| | `CrashesOnlyByAppends` | `CrashedByAppends` |
| | `AnnouncedFilesStay` | `FilesKept` |
| | `DeletesNeverCostVersions` | `VersionsSafeFromDeletes` |
| | `SerialCallsAreAtomic` | `SerialCallsAtomic` |
| `AcceptProofs` | `ThreadsKeepApart` | `OwnThreadReads` |
| | `EndingThreadsAreHarmless` | `OthersStayOpen` |
| `HeartbeatProofs` | `PunctualPeersStay` | `LivePeersKept` |
| | `SilentPeersGo` | `FoundInTime` |
| `MonitorProofs` | `TablesArriveWhole` | `MergedAsAnnounced` |
| | `RaceIsTheOnlyCause` | `FailsOnlyAfterRace` |
| | `DirTypeCorrect` | `DirTypeOK` |
| | `HeadRemains` | `HeadStays` |
| | `EventsAttributed` | `NeverMisattributed` |
| | `StartedReported` | `StartedDirsReported` |
| | `StartedWatched` | `StartedStayWatched` |
| | `ListMirrorsFolder` | `TreeMatchesFolder` |
| `StreamProofs` | `Resynchronisation` | `ReceiverResynchronises` |
| | `WholeTables` | `WholeUnlessOverlap` |
| | `TransferTypes` | `TransferTypeOK` |
| | `TextIsExact` | `TextPiecesExact` |
| | `BinaryLossIsBounded` | `BinaryLossBounded` |
| `DownloadProofs` | `ExactDownloads` | `FreshDownloadExact` |
| | `CompleteAssemblies` | `FreshDownloadAssembles` |
| | `NoLeftovers` | `FreshDownloadTidies` |
| `SyncProofs` | `TypeCorrect` | `TypeOK` |
| | `PeersAgree` | `SettledPeersAgree` |
| | `DeletedIsGone` | `DeletedMeansGone` |
| | `HoldersListed` | `AnnouncedIsListed` |
| | `NeverStuck` | `NoStuckDownload` |
| | `VersionsGrow` | `LocalVersionsGrow` |

`TrackerProofs` begins with the lemmas on `Enlist`, `Delist`, `MergeTable` and `ForgetPeer`
(`MergeTableLemma`, `ForgetPeerLemma`); the other modules that extend `FileTable` state
what they need of it themselves.

### Assumptions

- Numbers are numbers: sockets and descriptors (`SocksAssumption`, `FdsAssumption`),
  timeouts, bounds; `MAX_PEER_NUM` and the interval are positive.
- `BoundsAssumption`: bounds are natural numbers; a connection holds at least one packet.
- “Nothing” is told apart from what there can be: `NoIp`, `NoName`, `None`, `NoFile`,
  `Absent` are no address, name, call or connection, node or version, contents
  (`NoIpAssumption`, `NoneAssumption`, `NoFileAssumption`, `NoVersionAssumption`,
  `AbsentAssumption`), and the states of a
  handshake thread are not peers (`ThreadAssumption`). In C these are zero bytes, NULL
  and positions of a thread.
- `AnnouncedAssumption`: a table that is announced has nodes, and a name once. The monitor
  announces after it has added or changed a node, and both threads that add nodes to the
  peer's table look for the name first (that two add the same name at once is not
  modelled).
- `SyncBounds`, `SyncValues`: bounds and sizes are natural numbers; the types that peers
  give to a node are among `FileTypes`; no file, and no download thread (`Idle`), are told
  apart from those there are.
- `PathsAssumption`: there are finitely many paths, each a finite sequence of names that
  has its parent among them; `Elsewhere` and `Garbled` are none of them, and different.
  Nothing is assumed of `Joins`: any names may make up any others. `SlotsAssumption`: there is a slot.
- `FilesAssumption`, `PiecesAssumption`, `MaxDataLenAssumption`, `JunkAssumption`: a file is
  a finite sequence of bytes, a request an offset and a size; a packet has room for a byte,
  and what lies behind a heap block ends.
- `HeartbeatAssumption`: an interval and the delay fit into the timeout. In `constant.h`
  they do, up to a delay of three intervals.

### The tracker

The invariant `IInv` is needed because `HoldersOnline` is not inductive: when the
heartbeat or a failed broadcast deletes a peer, it closes the socket in a list
cell and forgets the address in that *same cell*. The holder stays backed only
if that address is the one the session of that socket announces
(`CellsKnowIp`), if no other cell has that socket (`CellsDistinct`), and if
cells are open sockets (`CellsOpen`) — all of which fail for the head cell once
it has been freed, whose address is overwritten, and for every cell when it has been
freed twice (`FreedHead`). The latter does not end by itself: no step makes a heap that is
`corrupt` sound again. `IpKnown` says that a running thread's peer has an address. The proof
has one lemma per action; the actions that delete a peer share
`DeletePeerLemma`. The two action properties follow from `TableStep`, what a
step may do to the table, which merging and forgetting satisfy.

The refinement maps each action to one of `Registry` or to a stutter, from `IInv`: to
`Crash` when the process ends or the head is freed a second time, and to `Adrift`, for which
`TableStep` is enough, once it has been. Its
core is what the tables look like from above: `MergeTableAbstract` and
`ForgetPeerAbstract` say what the two operators do to versions and to *sets* of holders.
A full list is a set of `MAX_PEER_NUM` holders only because a holder is listed once
(`ProperCount`, from `HoldersProper`), and a departure is one only because a list cell
knows its session's address (`CellsKnowIp`).

### The shared table

Four invariants, each above those before.

- `Safe`: a thread that is about to look at a node has one, its index is a slot, and
  `counter` is above `index` while `delete_peer` moves an address. It survives every
  interleaving, torn lists included.
- `NamesInv`: while appends have not overlapped, the table is `Tidy`. The node a thread has
  found keeps its name (`Named`); each file that ought to be in the table has a node, or an
  update that has yet to be done with it (`Kept`); and the list is all the nodes in the order
  of their allocation (`InOrder`), which is what makes `Chain` the whole of it
  (`ChainLemma`). One thread at a time is at the end of the list, so the pointer that it
  reads a second time, behind a link or a test, is the one it has just seen: that is why
  only overlapping appends can end the tracker (`CrashesOnlyByAppends`).
- `VersionsInv`: while updates have not overlapped, every file that no call has yet to
  merge is `Settled`: it has the version of `expected`. An entry that has yet to be merged
  `Awaits`: merged into what is there now, it gives that version. Each file has one node,
  and a scan has passed none of the name it looks for (`OneNode`). Deletes touch neither
  names nor versions, however many of them overlap.
- `ListsInv`: while no two calls have overlapped, the array of each node that the call in
  progress is done with holds the addresses of `expected` (`ListSettled`, `Forgotten`), and
  what is in the others would come to that when the call gets there (`ListAwaits`,
  `ToForget`). In between it says what the stores of the call have made of the array so
  far: an update stands at the slot behind the last address, or has to put one address
  into all of it (`AtHead`); `delete_peer` finds a list with the peer in it, and after the
  move one that is right up to its last address. `expected` has each address once
  (`ProperLists`). That is why `delete_peer` may go on behind the slot that it has filled
  with the last address: that one is not the peer's. It leaves no hole either, so the loops
  that stop at the first empty slot see all of the list (`HoldsLemma`).

### Descriptors and heartbeats

`Accept`: a thread that no other has closed the connection of still has it under its
number, and a blocked `recv` holds on to it (`OwnNumber`); numbers that `accept` gives
out are free, so a connection has one (`OneNumber`).

`Heartbeat`: a clock that runs up is bounded by clocks that run down. A peer out of
trouble is `Punctual`: its `age` is at most what keep_alive has slept plus an interval for
each heartbeat in the mail, and mail does not wait longer than `MaxDelay`. Any cell but
the head's was within the timeout at the last check, so that `age + check` is below the
deadline (`Tail`).

### The streams

`UpdateStream`: what is in the connection is a chain of packets (`Connected`), from the
place the receiver has reached in all that was announced to the place the sender has
reached. Each packet is a link that says where it leads; sending extends the chain,
receiving takes its first link, a break of the connection cuts it anywhere.

`BroadcastStream`: while the list is not torn it only grows, one append at a time
(`Untorn`). Then each size that is announced, and what the receiver waits for, is
covered by the packets behind it and the rest of some thread's walk (`Promised`), so the
last packet never leaves a promise open, however threads are mixed. What is received never
exceeds what was announced, torn or not (`Counted`). Without overlaps the connection is a sequence of whole tables, the first and the last one perhaps in part.

### The transfer of a piece

`Transfer` has one invariant for both properties (`TransferInv`), and it is about one
connection at a time (`Connection`), so that a step of one owes nothing to the others.

- `InStream`: what is on the wire and what the upload thread has still to send are, one
  behind the other, the rest of the stream of the bytes that were asked for. The downloader
  has taken two items for each packet it has received, and one more between a length and
  its data, so the next data are those of the packet whose number it has counted to.
- `Untouched`: otherwise nothing is on the wire, nothing has been received, and the request
  has not been read or there is no such file. A connection that waits to be read is this, and
  waits once (`WaitsUntouched`, `WaitOnce`), so its stream is made once. A piece that is
  written without a file has size 0.
- `Right`: a byte of the buffer in a packet that has come is the file's or stands behind a
  NUL byte of that packet; otherwise it is still NUL, or an earlier packet that has no NUL
  byte was written with what the heap held behind it (`Overran`). That `memmove` keeps this
  true (`RightWithNext`) is why the order of the packets matters: what was written behind
  the end of a packet is written over by the next ones.

`TextIsExact` follows since no byte of a text stands behind a NUL byte. The lemmas below
it are about the string functions (`Copied`, `Unpacked`, `Stored`) and about
the division of a piece, any size by any length of a packet (`Division`, `PacketsCover`).

### The download

What is on disk is a function of where the download is: the temporary files are the
pieces with a byte that have been fetched and not been assembled (`OnDisk`), and the file
is the first `Offset(next)` bytes of the version (`Holds`). `Cover` says of the division
of any file of any size over any number of peers it can be divided over that no piece is
empty and each ends where the next one begins, the last one at the end of the file. That
nothing is left needs no such premise: an empty piece has no file, so its assembly ends the
process.

### The peers and the tracker

`Sync` has one invariant for all its properties: a list of what holds of each peer
(`PeerInv`), and of the tracker's node (`TrackerInv`). The properties speak of moments at
which nothing is under way; the invariant says what must still be under way when they do
not hold yet.

- `VersionReaches` and `AnnouncedOrKnown`: a version that the tracker has not got is in an
  announcement that has not been merged, or in a download or a deletion that will change it.
- `InboxKnown` and `TableReaches`: what comes to a peer is not newer than the tracker's
  node; the last table on its way is the tracker's own, and when none is, the peer has
  compared it, or will announce something that makes the tracker send another one.
- `FileMatchesNode` and `FileNoticed`: the file in the folder is no older than the table
  says, or the event that tells the monitor so has not been read; the last event in the
  queue is the one that decides.
- `NotStuck`: a node that is being downloaded has a thread that has not set its type yet.
- `NothingRemains`, `LoadsHaveNode`: a peer that has ended leaves its files and its
  announcements, and a download has a node to write to.
- `StampsNotLate`: a running peer has nothing that is stamped later than its own clock, unless
  it is `skewed`. So what its monitor stamps next is not older than what it has, which is
  why `VersionsGrow` holds on a host by itself, whatever the clocks of the others show.

`PeersAgree` is the hardest of them: `TableReaches` is broken by each merge at the tracker
and mended by the broadcast in the same step, except for peers that were missed.

### The directories

`DirWatch`: a slot of `folderArray` that still has its path belongs to the watch
descriptor of the same number, which watches the directory of that path or no longer any
(`SlotsWatch`), so the event of a descriptor is looked up in its own directory or in none
(`EventsPlaced`). That needs slots and descriptors to be counted alike while the watches
are added (`InStep`), and numbers of directories that are not given out twice
(`FolderSound`). That a directory of the start is found to the end needs more: a slot loses
its path only when the removal of that very directory is handled, which is the last of its
events in the queue, and by then it has no watch (`RemovalIsLast`, `LostIsOver`); the watch
that is taken away with a slot is that of the slot's number (`Started`), and a descriptor
that was given to a directory made later is not one of the start (`MadeIsNew`). The string
that a removed node frees is that of the slot that points to it (`NodesSlots`). The sync
folder stays the first node of the list (`HeadFirst`), and while no accident has happened
each path that is looked for is in `Paths` or `Elsewhere`, never `Garbled` (`Orderly`), and
not the sync folder's; neither is found in the path of the first node, so the crash at its
predecessor has an accident before it (`CrashIsAccident`).

`TreeMatchesFolder` speaks of an empty queue; its invariant (`TreeInv`) says what a queue
that is not empty still has to change (`Simulated`): a directory that no event is about is
in the list if and only if it is there; of one that events are about, the first event is
news to the list, each is the opposite of the one before, and the last one is true. It is
an abstraction of the queue to a history for each path, and takes two more facts to be
kept. The user's changes reach the queue, since the directory that each directory is in is
watched by a descriptor of the start (`ParentsWatched`) and by no other (`WatchedOnce`).
The monitor does with the list what the event says: the path is found (`ChangeTrue`, by
`LostIsOver`) and not another one (`NoneAstray`: a path joined without a slash is one of
a directory made in one made after the start), the node taken out is the one of that path,
for it is there to be found (`RemovedListed`), and the removal takes no watch of the start that is still one
(`StartedWatchesStay`). The latter is `StartedWatched`, for every step.

### What is only model-checked

- Liveness (`GoneHoldersDelisted`, `CallsEnd`, `BytesAreRead`, `ExpiredPeerStops`,
  `AnnouncedIsMerged`, `DownloadEnds`, `TransferEnds`): fairness and ENABLED are outside of
  what the prover does.

## 5. Not modelled

- zlib itself, `readConfigFile`, printing, `test.c`, unused code: stateless, input, or
  not part of the programs. `tracker_stop` ends the process.
- Races on the list of peers among `add_peer`, `delete_peer` and the traversals of
  heartbeat and broadcast, other than what follows from the freed head.
- The names that notify filters out, and renames of files, for which it has no branch.
- Handlers of the monitor that other threads interrupt: a file that goes between
  `stat` and `getFileInfo` ends the process (monitor.c:156).
- A deletion of an empty file in the second in which it was made has the same version
  as the file.
- A slot or node written by two threads at the level of bytes: in `SharedTable` a store
  of a field is one step.
- A packet of which a part is sent: in `UpdateStream`, `BroadcastStream` and `Tracker` a
  packet goes out whole, or not at all and the connection breaks.
- What happens between the connection to the tracker and the first `inotify_add_watch`
  (`Sync` starts a peer with its monitor listening).
- `strstr` finding a path elsewhere than at the beginning of another one (`Mentions`): the
  sync folder is taken not to contain a copy of its own absolute path, and no path to
  contain “(null)”. A path that outgrows `FILE_NAME_LEN`.
- Buffers beside the one that a packet overruns (`Transfer` follows the bytes of the piece).
- In `Sync` a broadcast misses a peer only while a session is `ended` at the tracker's end
  and not yet noticed, the case in which `Tracker` has a send fail.
- What two threads do with one connection after main has overwritten the number that it
  handed over (`Accept` ends there), and what a download makes of the leftovers of one that
  was killed (`Download` has the case; its properties exempt it).
