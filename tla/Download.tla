------------------------------- MODULE Download -------------------------------
(***************************************************************************)
(* The download of one file (peer/peer.c: ptp_download, piece_download)    *)
(* from the peers that the tracker lists as its holders: the division into *)
(* pieces, one thread and one temporary file for each piece, what a        *)
(* restarted peer finds of them, and the assembly.                         *)
(*                                                                         *)
(* The contents are text: upload_send copies with strncpy, so what follows *)
(* a zero byte would not arrive.  A byte is its version and its offset.    *)
(***************************************************************************)
EXTENDS Integers, Sequences

CONSTANTS
  MaxVersion,    \* bound on the versions of the file
  MaxSize,       \* bound on its size
  MaxRestarts,   \* bound on the restarts of the peer
  MAX_PEER_NUM,  \* most holders of a file that the tracker lists
  Absent         \* there is no such file

Versions == 1..MaxVersion
Numbers == 0..MAX_PEER_NUM            \* of pieces, and of temporary files
Nul == [version |-> 0, at |-> 0]      \* the zeros of an unfilled buffer
Bytes == [version : Versions, at : 1..MaxSize] \cup {Nul}

ASSUME BoundsAssumption ==
  /\ MaxVersion \in Nat /\ MaxSize \in Nat
  /\ MaxRestarts \in Nat /\ MAX_PEER_NUM \in Nat
ASSUME AbsentAssumption == Absent \notin Seq(Bytes)

VARIABLES
  sizeOf,   \* the size of each version
  phase,    \* "idle", "pieces", "assembly", "done", or "dead": process ended
  version,  \* the version last asked for
  holders,  \* how many addresses the tracker listed for it
  peerNum,  \* how many peers the file is to be divided over
  running,  \* pieces whose thread has not ended
  next,     \* the next piece to assemble
  temp,     \* the temporary files .name_0, .name_1, ...
  file,     \* the file itself
  clean,    \* history: no temporary file, and no file that looks like one,
            \* was there when the download began
  restarts  \* how often the peer was started again

world == <<sizeOf, restarts>>
request == <<version, holders, peerNum, clean>>
vars == <<world, request, phase, running, next, temp, file>>

\* Each variable has a value of its type; in particular no piece has a number
\* outside the arrays of threads and addresses.
TypeOK ==
  /\ sizeOf \in [Versions -> 1..MaxSize]
  /\ phase \in {"idle", "pieces", "assembly", "done", "dead"}
  /\ version \in 0..MaxVersion
  /\ holders \in Numbers /\ peerNum \in Numbers
  /\ running \subseteq 0..(MAX_PEER_NUM - 1)
  /\ next \in 0..(MAX_PEER_NUM + 1)
  /\ temp \in [Numbers -> Seq(Bytes) \cup {Absent}]
  /\ file \in Seq(Bytes) \cup {Absent}
  /\ clean \in BOOLEAN
  /\ restarts \in 0..MaxRestarts

Init ==
  /\ sizeOf \in [Versions -> 1..MaxSize]
  /\ phase = "idle"
  /\ version = 0 /\ holders = 0 /\ peerNum = 0
  /\ running = {} /\ next = 0
  /\ temp = [i \in Numbers |-> Absent]
  /\ file = Absent
  /\ clean = TRUE /\ restarts = 0

-----------------------------------------------------------------------------
(* The division into pieces, numbered from 0.  With one peer or two there  *)
(* is a piece for each; with more, all but one take equal pieces and the   *)
(* last one the remainder.  With none, the C division is by the unsigned   *)
(* value of -1: no piece, and the whole file as remainder.                 *)

Split(num, len, rem) == [num |-> num, len |-> len, rem |-> rem]

Divide(size, n) ==
  CASE n = 0 -> Split(0, 0, size)
    [] n = 1 -> Split(1, size, 0)
    [] n = 2 -> Split(2, (size + 1) \div 2, size - (size + 1) \div 2)
    [] OTHER -> LET rem == size % (n - 1)
                IN  Split(IF rem > 0 THEN n ELSE n - 1, size \div (n - 1), rem)

PieceLen(split, i) ==
  IF split.rem > 0 /\ i = split.num - 1 THEN split.rem ELSE split.len

TempLen(i) == IF temp[i] = Absent THEN 0 ELSE Len(temp[i])

\* Mutant: the piece with the remainder is measured by pieceSize and skipped.
Wanted_NoRemainder(split) ==
  {i \in 0..(split.num - 1) :
     TempLen(i) < PieceLen(split, i) /\ ~(split.rem > 0 /\ i = split.num - 1)}

\* "only download if necessary": the temporary file is too short.
Wanted(split) == {i \in 0..(split.num - 1) : TempLen(i) < PieceLen(split, i)}

Now == Divide(sizeOf[version], peerNum)

-----------------------------------------------------------------------------
(* ptp_download, first half.  v is the version that compareNode has asked  *)
(* for, k the number of its holders.  The pattern given to find begins     *)
(* with the name, so it never matches the temporary files, whose names     *)
(* begin with a dot; matches is the number of other files that it matches. *)

Begin(v, k, matches) ==
  /\ phase = "idle" \/ phase = "done"
  /\ v > version \/ (phase = "idle" /\ v = version)
  /\ version' = v
  /\ holders' = k
  /\ peerNum' = IF matches > 0 THEN matches ELSE k
  /\ clean' = (matches = 0 /\ \A i \in Numbers : temp[i] = Absent)
  /\ running' = Wanted(Divide(sizeOf[v], peerNum'))
  /\ phase' = "pieces"
  /\ UNCHANGED <<world, next, temp, file>>

-----------------------------------------------------------------------------
(* piece_download.                                                         *)

Serve(content, from, len) ==
  [j \in 1..len |-> IF from + j <= Len(content) THEN content[from + j] ELSE Nul]

Content(v) == [j \in 1..sizeOf[v] |-> [version |-> v, at |-> j]]

\* Mutant: the offset of a piece is computed from its own length.
Piece_OwnLength(i) ==
  Serve(Content(version), i * PieceLen(Now, i), PieceLen(Now, i))

\* The data of piece i, as upload_send reads them.
Piece(i) == Serve(Content(version), i * Now.len, PieceLen(Now, i))

Appended(i, data) ==
  temp' = [temp EXCEPT ![i] = IF @ = Absent THEN data ELSE @ \o data]

\* The thread of piece i has received it all and appends it to its file.
PieceDone(i) ==
  /\ phase = "pieces"
  /\ i \in running
  /\ i < holders
  /\ Appended(i, Piece(i))
  /\ running' = running \ {i}
  /\ UNCHANGED <<world, request, phase, next, file>>

\* Mutant: the join waits for a thread of every listed holder.
StartAssembly_AllHolders ==
  /\ phase = "pieces"
  /\ running = {} /\ Now.num = holders
  /\ phase' = "assembly"
  /\ next' = 0
  /\ file' = <<>>
  /\ UNCHANGED <<world, request, running, temp>>

\* All threads are joined; the file is opened and truncated.  For a piece that
\* was skipped the join is given an uninitialised tid: it returns at once, as
\* here, or the process dies, as in Killed.
StartAssembly ==
  /\ phase = "pieces"
  /\ running = {}
  /\ phase' = "assembly"
  /\ next' = 0
  /\ file' = <<>>
  /\ UNCHANGED <<world, request, running, temp>>

\* Mutant: the temporary file is not removed.
AssemblePiece_KeepTemp ==
  /\ phase = "assembly"
  /\ next < Now.num
  /\ temp[next] # Absent
  /\ file' = file \o temp[next]
  /\ next' = next + 1
  /\ UNCHANGED <<world, request, phase, running, temp>>

\* The next temporary file is appended to the file and removed.
AssemblePiece ==
  /\ phase = "assembly"
  /\ next < Now.num
  /\ temp[next] # Absent
  /\ file' = file \o temp[next]
  /\ temp' = [temp EXCEPT ![next] = Absent]
  /\ next' = next + 1
  /\ UNCHANGED <<world, request, phase, running>>

\* setNodeType(filename, FILE_DOWNLOAD, fileSize).
Finish ==
  /\ phase = "assembly"
  /\ next = Now.num
  /\ phase' = "done"
  /\ UNCHANGED <<world, request, running, next, temp, file>>

-----------------------------------------------------------------------------
(* The end of the process: a piece has no holder, whose address is then    *)
(* all zeros and whose socket takes no request (SIGPIPE); a temporary file *)
(* is missing (fseek on NULL); a holder cannot be reached (exit in the     *)
(* piece's thread); or for a reason outside.                               *)

Die ==
  /\ phase' = "dead"
  /\ running' = {} /\ next' = 0
  /\ holders' = 0 /\ peerNum' = 0
  /\ UNCHANGED <<world, version, clean>>

NoHolder(i) ==
  /\ phase = "pieces"
  /\ i \in running /\ i >= holders
  /\ Die
  /\ UNCHANGED <<temp, file>>

MissingPiece ==
  /\ phase = "assembly"
  /\ next < Now.num
  /\ temp[next] = Absent
  /\ Die
  /\ UNCHANGED <<temp, file>>

Killed ==
  /\ phase \in {"pieces", "assembly", "done"}
  /\ Die
  /\ UNCHANGED <<temp, file>>

\* Killed while the thread of piece i is writing: only m bytes are on disk.
KilledWriting(i, m) ==
  /\ phase = "pieces"
  /\ i \in running /\ i < holders
  /\ m < PieceLen(Now, i)
  /\ Appended(i, SubSeq(Piece(i), 1, m))
  /\ Die
  /\ UNCHANGED file

\* The peer starts again, with an empty file table.
Restart ==
  /\ phase = "dead"
  /\ restarts < MaxRestarts
  /\ restarts' = restarts + 1
  /\ phase' = "idle"
  /\ UNCHANGED <<sizeOf, request, running, next, temp, file>>

Next ==
  \/ \E v \in Versions, k \in Numbers, matches \in Numbers : Begin(v, k, matches)
  \/ \E i \in Numbers : \/ PieceDone(i)
                        \/ NoHolder(i)
                        \/ \E m \in 0..MaxSize : KilledWriting(i, m)
  \/ StartAssembly \/ AssemblePiece \/ Finish
  \/ MissingPiece \/ Killed \/ Restart

Spec == Init /\ [][Next]_vars

\* The threads of a process run, and holders answer or refuse.
Fairness ==
  /\ \A i \in Numbers : WF_vars(PieceDone(i) \/ NoHolder(i))
  /\ WF_vars(StartAssembly) /\ WF_vars(AssemblePiece) /\ WF_vars(Finish)
  /\ WF_vars(MissingPiece)

FairSpec == Spec /\ Fairness

-----------------------------------------------------------------------------

\* There is a holder, and no piece is empty or lies behind the end.
Divisible ==
  LET size == sizeOf[version]
  IN  holders >= 1 /\ size >= holders - 1 /\ ~(holders = 2 /\ size = 1)

\* A download that begins without leftovers and is not cut off gives exactly
\* the announced version, whatever the order in which the pieces arrive: they
\* cover the file once, in order, up to the last byte (ptp_download).
FreshDownloadExact ==
  phase = "done" /\ clean /\ Divisible => file = Content(version)

\* Such a download never stops at a piece that nobody fetched.
FreshDownloadAssembles ==
  phase = "assembly" /\ clean /\ Divisible /\ next < Now.num =>
    temp[next] # Absent

\* It leaves no temporary file behind that a later download of the same name
\* would take for a piece of its own.
FreshDownloadTidies ==
  phase = "done" /\ clean => \A i \in Numbers : temp[i] = Absent

\* A download ends, with the file or with the process: no thread waits for a
\* piece that nobody is fetching, and the joins and the assembly come to an end
\* (ptp_download).
DownloadEnds == (phase = "pieces") ~> (phase \in {"done", "dead"})
=============================================================================
