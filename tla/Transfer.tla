------------------------------ MODULE Transfer ------------------------------
(***************************************************************************)
(* The transfer of pieces of one file from one holder (peer/peer.c,        *)
(* peer/p2p.c, peer/datacompress.c): the holder's listening thread, which  *)
(* reads the requests one after the other, an upload thread for each       *)
(* connection, and at the other end of each connection a piece_download    *)
(* thread.                                                                 *)
(*                                                                         *)
(* The zlib calls are the identity on whole packets and fail on anything   *)
(* else; the string functions around them are not: strncpy stops at a NUL  *)
(* byte and strlen does not stop at the end of the packet.                 *)
(***************************************************************************)
EXTENDS Integers, Sequences, SequencesExt

CONSTANTS
  Conns,         \* connections: pieces that are asked for
  MAX_DATA_LEN,  \* bytes of the file in one packet
  Files,         \* what may be in the holder's folder: byte sequences
  NoFile,        \* no such file there
  Pieces,        \* the requests: records of offset and size
  MaxJunk,       \* bound on the non-NUL bytes found behind a heap block
  None           \* no value yet

ASSUME MaxDataLenAssumption == MAX_DATA_LEN \in Nat \ {0}
ASSUME JunkAssumption == MaxJunk \in Nat
ASSUME PiecesAssumption == Pieces \subseteq [offset : Nat, size : Nat]

NUL == 0
Junk == -1
Bytes == Int

ASSUME FilesAssumption == Files \subseteq Seq(Bytes)

VARIABLES
  file,       \* the file in the holder's folder, or NoFile
  holder,     \* "up", "down", or "silent": its host is lost, without a FIN
  listening,  \* the connection whose request is being read, or None
  backlog,    \* connections not accepted yet
  piece,      \* what the connection's piece_download asks for
  phase,      \* where it is
  received,   \* the packets it has received
  buffer,     \* its buffer
  written,    \* what it has written to the temporary file
  upload,     \* what the upload thread has still to send, or None
  wire        \* what is on its way to the downloader

holding == <<file, holder>>
accepting == <<listening, backlog>>
receiving == <<phase, received, buffer, written>>
transferVars == <<holding, accepting, piece, receiving, upload, wire>>

Phases == {"idle", "connected", "head", "body", "garbled", "done", "dead", "silent", "mute"}
Ended(c) == phase[c] \in {"done", "dead"}

Items == [part : {"head", "body"}, data : Seq(Bytes)]

\* Each variable has a value of its type; a buffer has the size of the piece.
TransferTypeOK ==
  /\ file \in Files \cup {NoFile}
  /\ holder \in {"up", "down", "silent"}
  /\ listening \in Conns \cup {None}
  /\ backlog \in Seq(Conns)
  /\ piece \in [Conns -> Pieces]
  /\ phase \in [Conns -> Phases]
  /\ received \in [Conns -> Nat]
  /\ buffer \in [Conns -> Seq(Bytes)]
  /\ \A c \in Conns : Len(buffer[c]) = piece[c].size
  /\ written \in [Conns -> Seq(Bytes) \cup {None}]
  /\ upload \in [Conns -> Seq(Items) \cup {None}]
  /\ wire \in [Conns -> Seq(Items)]

Zeros(n) == [i \in 1..n |-> NUL]

TransferInit ==
  /\ file \in Files \cup {NoFile}
  /\ holder = "up"
  /\ listening = None /\ backlog = <<>>
  /\ piece \in [Conns -> Pieces]
  /\ phase = [c \in Conns |-> "idle"]
  /\ received = [c \in Conns |-> 0]
  /\ buffer = [c \in Conns |-> Zeros(piece[c].size)]
  /\ written = [c \in Conns |-> None]
  /\ upload = [c \in Conns |-> None]
  /\ wire = [c \in Conns |-> <<>>]

-----------------------------------------------------------------------------
(* Packets.                                                                *)

\* The number of packets: both ends compute it from the size of the piece.
PktCount(size) ==
  (size \div MAX_DATA_LEN) + IF size % MAX_DATA_LEN > 0 THEN 1 ELSE 0

\* fseek and fread into a zeroed buffer: a file may be shorter than its node says.
Fread(contents, offset, size) ==
  [i \in 1..size |->
     IF offset + i <= Len(contents) THEN contents[offset + i] ELSE NUL]

\* DataPacket i, counted from 0, of a buffer.
DataPacket(data, i) ==
  SubSeq(data, i * MAX_DATA_LEN + 1,
         IF (i + 1) * MAX_DATA_LEN < Len(data) THEN (i + 1) * MAX_DATA_LEN ELSE Len(data))

\* strlen, of a block that holds a NUL byte.
NulAt(s) == CHOOSE i \in 1..Len(s) : s[i] = NUL /\ \A j \in 1..(i - 1) : s[j] # NUL
HasNul(s) == \E i \in 1..Len(s) : s[i] = NUL

\* strncpy: what follows a NUL byte becomes NUL bytes.
Strncpy(s) ==
  [i \in 1..Len(s) |-> IF HasNul(s) /\ i > NulAt(s) THEN NUL ELSE s[i]]

\* upload_send: for each packet its compressed length and its compressed data.
ToSend(data) ==
  [k \in 1..(2 * PktCount(Len(data))) |->
     [part |-> IF k % 2 = 1 THEN "head" ELSE "body",
      data |-> Strncpy(DataPacket(data, (k - 1) \div 2))]]

\* The string that strlen finds: it goes on behind a packet without a NUL byte.
CStrings(s) ==
  IF HasNul(s)
  THEN {SubSeq(s, 1, NulAt(s) - 1)}
  ELSE {s \o [i \in 1..k |-> Junk] : k \in 0..MaxJunk}

\* Mutant: a packet goes behind what has been received so far.
Store_Append(buf, i, string) ==
  LET text == SelectSeq(buf, LAMBDA b : b # NUL) \o string
  IN  [j \in 1..Len(buf) |-> IF j <= Len(text) THEN text[j] ELSE NUL]

\* memmove of the string to the place of packet i; bytes that fall behind the
\* buffer change what the process may do next (DownloaderEnds), not the piece.
Store(buf, i, string) ==
  [j \in 1..Len(buf) |->
     LET k == j - i * MAX_DATA_LEN
     IN  IF k \in 1..Len(string) THEN string[k] ELSE buf[j]]

-----------------------------------------------------------------------------
(* The downloader.                                                         *)

Phase(c, p) == phase' = [phase EXCEPT ![c] = p]

Connect(c) ==
  /\ phase[c] = "idle"
  /\ \/ /\ holder = "up"
        /\ Phase(c, "connected")
        /\ backlog' = Append(backlog, c)
     \/ /\ holder # "up"
        /\ Phase(c, "dead")
        /\ UNCHANGED backlog
  /\ UNCHANGED <<holding, listening, piece, received, buffer, written, upload, wire>>

\* download_send.  The whole request is one send.
SendRequest(c) ==
  /\ phase[c] = "connected"
  /\ Phase(c, "head")
  /\ UNCHANGED <<holding, accepting, piece, received, buffer, written, upload, wire>>

\* Mutant: the upload thread does not close its socket.
Closed_Never(c) == wire[c] = <<>> /\ holder = "down"

\* The stream has ended, or no byte of it will come any more.
Closed(c) == wire[c] = <<>> /\ (upload[c] = <<>> \/ holder = "down")

AllReceived(c) == received[c] = PktCount(piece[c].size)

Take(c) == wire' = [wire EXCEPT ![c] = Tail(@)]

\* recv of a length.  It may return a part of it, or 0 at the end of the stream;
\* what is taken for a packet then is none.
RecvLength(c) ==
  /\ phase[c] = "head" /\ ~AllReceived(c)
  /\ \/ /\ wire[c] # <<>>
        /\ Take(c)
        /\ \E next \in {"body", "garbled"} : Phase(c, next)
     \/ /\ Closed(c)
        /\ Phase(c, "garbled")
        /\ UNCHANGED wire
  /\ UNCHANGED <<holding, accepting, piece, received, buffer, written, upload>>

\* Mutant: a packet received in part is stored.
RecvData_Partial(c) ==
  /\ phase[c] = "body"
  /\ \/ /\ wire[c] # <<>>
        /\ Take(c)
        /\ Phase(c, "head")
        /\ received' = [received EXCEPT ![c] = @ + 1]
        /\ \E n \in 0..Len(Head(wire[c]).data) :
             \E string \in CStrings(SubSeq(Head(wire[c]).data, 1, n)) :
                buffer' = [buffer EXCEPT ![c] = Store(@, received[c], string)]
     \/ /\ Closed(c)
        /\ Phase(c, "garbled")
        /\ UNCHANGED <<wire, received, buffer>>
  /\ UNCHANGED <<holding, accepting, piece, written, upload>>

\* recv of a packet's data, decompressString and memmove.
RecvData(c) ==
  /\ phase[c] = "body"
  /\ \/ /\ wire[c] # <<>>
        /\ Take(c)
        /\ \/ /\ Phase(c, "head")
              /\ received' = [received EXCEPT ![c] = @ + 1]
              /\ \E string \in CStrings(Head(wire[c]).data) :
                   buffer' = [buffer EXCEPT ![c] = Store(@, received[c], string)]
           \/ /\ Phase(c, "garbled")
              /\ UNCHANGED <<received, buffer>>
     \/ /\ Closed(c)
        /\ Phase(c, "garbled")
        /\ UNCHANGED <<wire, received, buffer>>
  /\ UNCHANGED <<holding, accepting, piece, written, upload>>

\* fwrite of the whole buffer.
Write(c) ==
  /\ phase[c] = "head" /\ AllReceived(c)
  /\ written' = [written EXCEPT ![c] = buffer[c]]
  /\ Phase(c, "done")
  /\ UNCHANGED <<holding, accepting, piece, received, buffer, upload, wire>>

\* uncompress fails and decompressString exits, with the whole process.
DecompressFails(c) ==
  /\ phase[c] = "garbled"
  /\ Phase(c, "dead")
  /\ UNCHANGED <<holding, accepting, piece, received, buffer, written, upload, wire>>

\* The process ends otherwise: it is stopped, recv returns -1, the heap is damaged.
DownloaderEnds(c) ==
  /\ phase[c] \notin {"idle", "done", "dead", "silent", "mute"}
  /\ Phase(c, "dead")
  /\ UNCHANGED <<holding, accepting, piece, received, buffer, written, upload, wire>>

\* Its host is lost, before or after the request, and the connection stays open.
DownloaderSilent(c) ==
  /\ phase[c] \notin {"idle", "done", "dead", "silent", "mute"}
  /\ Phase(c, IF phase[c] = "connected" THEN "mute" ELSE "silent")
  /\ UNCHANGED <<holding, accepting, piece, received, buffer, written, upload, wire>>

-----------------------------------------------------------------------------
(* The holder.                                                             *)

Accept ==
  /\ holder = "up"
  /\ listening = None /\ backlog # <<>>
  /\ listening' = Head(backlog)
  /\ backlog' = Tail(backlog)
  /\ UNCHANGED <<holding, piece, receiving, upload, wire>>

\* The upload thread has the file read, or none to read.
Serve(c, wanted) ==
  upload' = [upload EXCEPT ![c] =
    IF wanted = None \/ file = NoFile THEN <<>>
    ELSE ToSend(Fread(file, wanted.offset, wanted.size))]

\* recv_data_request and the start of an upload thread.  If the downloader has
\* ended without a request, the request is what the stack holds: perhaps an
\* earlier one.
RecvRequest ==
  /\ holder = "up"
  /\ listening # None
  /\ LET c == listening
     IN  \/ /\ phase[c] \notin {"connected", "mute", "dead"}
            /\ Serve(c, piece[c])
         \/ /\ phase[c] = "dead"
            /\ \E wanted \in Pieces \cup {None} : Serve(c, wanted)
  /\ listening' = None
  /\ UNCHANGED <<holding, backlog, piece, receiving, wire>>

Uploading(c) == holder = "up" /\ upload[c] \notin {None, <<>>}

\* One send of upload_send; after the last one the socket is closed.
SendItem(c) ==
  /\ Uploading(c)
  /\ phase[c] # "dead"
  /\ wire' = [wire EXCEPT ![c] = Append(@, Head(upload[c]))]
  /\ upload' = [upload EXCEPT ![c] = Tail(@)]
  /\ UNCHANGED <<holding, accepting, piece, receiving>>

\* A send to a downloader that is gone: it is lost; or it fails, and the thread
\* closes the socket.
SendFails(c) ==
  /\ Uploading(c)
  /\ phase[c] = "dead"
  /\ \E rest \in {Tail(upload[c]), <<>>} : upload' = [upload EXCEPT ![c] = rest]
  /\ UNCHANGED <<holding, accepting, piece, receiving, wire>>

\* What the holder's process leaves: closed connections.
HolderGoes(how) ==
  /\ holder' = how
  /\ UNCHANGED <<file, accepting, piece, receiving, upload, wire>>

\* A send to a downloader that is gone raises SIGPIPE, which ends the process.
SendKills(c) ==
  /\ Uploading(c)
  /\ phase[c] = "dead"
  /\ HolderGoes("down")

HolderStops ==
  /\ holder = "up"
  /\ \E how \in {"down", "silent"} : HolderGoes(how)

-----------------------------------------------------------------------------
Listening == Accept \/ RecvRequest
Uploader(c) == SendItem(c) \/ SendFails(c) \/ SendKills(c)
Downloader(c) ==
  \/ Connect(c) \/ SendRequest(c)
  \/ RecvLength(c) \/ RecvData(c) \/ Write(c) \/ DecompressFails(c)

TransferNext ==
  \/ Listening \/ HolderStops
  \/ \E c \in Conns :
       Uploader(c) \/ Downloader(c) \/ DownloaderEnds(c) \/ DownloaderSilent(c)

TransferSpec == TransferInit /\ [][TransferNext]_transferVars

\* Every thread that can run does so in the end.
TransferFairSpec ==
  /\ TransferSpec
  /\ WF_transferVars(Listening)
  /\ \A c \in Conns : WF_transferVars(Uploader(c)) /\ WF_transferVars(Downloader(c))

-----------------------------------------------------------------------------
(* Properties.                                                             *)

\* The bytes that were asked for, none if the holder has no such file.
Asked(c) ==
  IF file = NoFile THEN <<>> ELSE Fread(file, piece[c].offset, piece[c].size)

\* A piece of a text file arrives as it is in the holder's file, however the
\* stream is cut and whatever lies behind the packets on the heap: a packet that
\* did not arrive as a whole, and a file that the holder has not got, ends the
\* process before anything is written.
TextPiecesExact ==
  \A c \in Conns : written[c] # None /\ ~HasNul(Asked(c)) => written[c] = Asked(c)

\* What a binary file loses: a byte that is not the file's stands behind a NUL byte
\* of its packet.  It is NUL, or near enough to the end of an earlier packet that had
\* no NUL byte and was written with what lay behind it on the heap.
BinaryLossBounded ==
  \A c \in Conns : written[c] # None /\ file # NoFile =>
    \A j \in 1..piece[c].size :
      LET i == (j - 1) \div MAX_DATA_LEN
      IN  \/ written[c][j] = Asked(c)[j]
          \/ /\ \E k \in (i * MAX_DATA_LEN + 1)..j : Asked(c)[k] = NUL
             /\ \/ written[c][j] = NUL
                \/ \E h \in 0..(i - 1) : /\ ~HasNul(DataPacket(Asked(c), h))
                                         /\ j - (h * MAX_DATA_LEN + MAX_DATA_LEN) <= MaxJunk

\* Every piece_download ends, with the piece or with its process, unless a host is
\* lost without a word: its own, the holder's, or that of another downloader whose
\* request the listening thread waits for.  Nobody has a timeout.
TransferEnds ==
  \A c \in Conns : (phase[c] # "idle") ~>
    (\/ Ended(c) \/ holder = "silent" \/ phase[c] = "silent"
     \/ \E d \in Conns : phase[d] = "mute")
=============================================================================
