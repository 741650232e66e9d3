---------------------------- MODULE DownloadProofs ----------------------------
(***************************************************************************)
(* Theorems about the download of a file: for any sizes and versions, any  *)
(* number of holders up to MAX_PEER_NUM, and any number of restarts.       *)
(*                                                                         *)
(* What the file is in the end depends on what the temporary files were    *)
(* all along: the invariant says what is on disk while pieces come in, and *)
(* which part of the version the file is while they are put together.      *)
(***************************************************************************)
EXTENDS Download, SequenceTheorems, TLAPS

\* The file holds the first n bytes of the version.
Holds(n) ==
  /\ file \in Seq(Bytes) /\ Len(file) = n
  /\ \A j \in 1..n : file[j] = [version |-> version, at |-> j]

\* The pieces that have a byte.
Full == {i \in 0..(Now.num - 1) : PieceLen(Now, i) > 0}

\* There is a temporary file for each of the pieces, which it holds, and no other.
OnDisk(pieces) ==
  \A i \in Numbers : temp[i] = IF i \in pieces THEN Piece(i) ELSE Absent

\* What a download is about, once it has begun.
Asked ==
  phase \in {"pieces", "assembly", "done"} =>
    version \in Versions /\ (clean => peerNum = holders)

InPieces ==
  phase = "pieces" /\ clean =>
    running \subseteq Full /\ OnDisk(Full \ running)

\* The end of piece i - 1.
Offset(i) == IF i = Now.num THEN sizeOf[version] ELSE i * Now.len

InAssembly ==
  phase = "assembly" /\ clean =>
    /\ next \in 0..Now.num
    /\ OnDisk({i \in Full : i >= next})
    /\ Divisible => Holds(Offset(next))

AtEnd ==
  phase = "done" /\ clean =>
    /\ \A i \in Numbers : temp[i] = Absent
    /\ Divisible => Holds(sizeOf[version])

Opened == phase = "assembly" => file \in Seq(Bytes)

IInv == TypeOK /\ Asked /\ Opened /\ InPieces /\ InAssembly /\ AtEnd

-----------------------------------------------------------------------------
(* The division.                                                           *)

LEMMA DivideType ==
  ASSUME NEW size \in Nat, NEW n \in Nat
  PROVE  /\ Divide(size, n).num \in 0..n /\ (n > 0 => Divide(size, n).num > 0)
         /\ Divide(size, n).len \in Nat
         /\ Divide(size, n).rem \in Nat
<1>1. CASE n <= 2
  <2>1. n = 0 \/ n = 1 \/ n = 2
    BY <1>1
  <2>2. (size + 1) \div 2 \in Nat /\ (size + 1) \div 2 <= size
    BY DEF Divide
  <2> QED
    BY <2>1, <2>2 DEF Divide, Split
<1>2. CASE n > 2
  <2>1. n - 1 \in Nat \ {0} /\ n # 0 /\ n # 1 /\ n # 2
    BY <1>2
  <2>2. PICK m \in Nat \ {0} : m = n - 1
    BY <2>1
  <2>3. size \div m \in Nat /\ size % m \in Nat
    BY <2>2
  <2>4. Divide(size, n) = Split(IF size % m > 0 THEN n ELSE m, size \div m, size % m)
    BY <2>1, <2>2 DEF Divide
  <2> QED
    BY <2>2, <2>3, <2>4 DEF Split
<1> QED
  BY <1>1, <1>2

\* Equal pieces and a remainder cover the file when it has a byte for each.
LEMMA Remainder ==
  ASSUME NEW size \in Nat \ {0}, NEW m \in Nat \ {0}, size >= m
  PROVE  /\ size \div m \in Nat \ {0}
         /\ size % m \in 0..(m - 1)
         /\ size = m * (size \div m) + (size % m)
<1>1. size \div m \in Nat /\ size % m \in 0..(m - 1)
  OBVIOUS
<1>2. size = m * (size \div m) + (size % m)
  OBVIOUS
<1>3. size \div m # 0
  BY <1>1, <1>2
<1> QED
  BY <1>1, <1>2, <1>3

LEMMA Distributes == \A a, b, c \in Nat : (a + b) * c = a * c + b * c
OBVIOUS

\* The pieces are not empty, and each ends where the next one begins, the last
\* one at the end of the file.
LEMMA Cover ==
  ASSUME NEW size \in Nat \ {0}, NEW n \in Nat \ {0}, size >= n - 1, ~(n = 2 /\ size = 1),
         NEW split, split = Divide(size, n), NEW i \in 0..(split.num - 1)
  PROVE  /\ PieceLen(split, i) \in Nat \ {0}
         /\ i * split.len + PieceLen(split, i) =
              IF i + 1 = split.num THEN size ELSE (i + 1) * split.len
         /\ i * split.len + PieceLen(split, i) <= size
<1>1. CASE n = 1
  <2>1. split.num = 1 /\ split.len = size /\ split.rem = 0
    BY <1>1 DEF Divide, Split
  <2>2. i = 0
    BY <2>1
  <2> QED
    BY <2>1, <2>2 DEF PieceLen
<1>2. CASE n = 2
  <2>1. PICK half \in Nat : half = (size + 1) \div 2
    OBVIOUS
  <2>2. half > 0 /\ half < size
    BY <1>2, <2>1
  <2>3. split.num = 2 /\ split.len = half /\ split.rem = size - half
    BY <1>2, <2>1 DEF Divide, Split
  <2>4. i = 0 \/ i = 1
    BY <2>3
  <2> QED
    BY <2>2, <2>3, <2>4 DEF PieceLen
<1>3. CASE n > 2
  <2>1. PICK m \in Nat \ {0} : m = n - 1 /\ m > 1
    BY <1>3
  <2>2. PICK q \in Nat \ {0}, r \in 0..(m - 1) :
          q = size \div m /\ r = size % m /\ size = m * q + r
    <3>1. /\ size \div m \in Nat \ {0} /\ size % m \in 0..(m - 1)
          /\ size = m * (size \div m) + (size % m)
      BY <2>1, Remainder
    <3> QED
      BY <3>1
  <2>3. /\ split.num = (IF r > 0 THEN n ELSE n - 1)
        /\ split.len = q /\ split.rem = r
    <3>1. n # 0 /\ n # 1 /\ n # 2 /\ n - 1 = m
      BY <1>3, <2>1
    <3>2. Divide(size, n) = Split(IF size % m > 0 THEN n ELSE m, size \div m, size % m)
      BY <3>1 DEF Divide
    <3>3. split = Split(IF r > 0 THEN n ELSE m, q, r)
      BY <2>2, <3>2
    <3> QED
      BY <3>1, <3>3 DEF Split
  <2>4. i \in Nat /\ i * q \in Nat /\ i * q + q = (i + 1) * q
    BY <2>2
  <2>5. ASSUME NEW k \in Nat, k < m
        PROVE  (k + 1) * q <= size
    <3>1. PICK d \in Nat : m = (k + 1) + d
      <4>1. m - (k + 1) \in Nat /\ m = (k + 1) + (m - (k + 1))
        BY <2>5
      <4> QED
        BY <4>1
    <3>2. m * q = (k + 1) * q + d * q /\ d * q \in Nat /\ (k + 1) * q \in Nat
      <4>1. m * q = (k + 1) * q + d * q
        BY <3>1, Distributes
      <4> QED
        BY <2>5, <4>1
    <3>3. (k + 1) * q <= m * q
      BY <3>2
    <3> QED
      BY <2>2, <3>2, <3>3
  <2>6. CASE r > 0 /\ i = n - 1
    <3>1. PieceLen(split, i) = r /\ i = m /\ i + 1 = split.num /\ m * q \in Nat
      BY <2>1, <2>2, <2>3, <2>6 DEF PieceLen
    <3> QED
      BY <2>2, <2>3, <2>6, <3>1
  <2>7. CASE ~(r > 0 /\ i = n - 1)
    <3>1. i < m /\ PieceLen(split, i) = q
      BY <2>1, <2>2, <2>3, <2>7 DEF PieceLen
    <3>2. i + 1 = split.num => r = 0 /\ i + 1 = m
      BY <2>1, <2>2, <2>3, <2>7, <3>1
    <3>3. i + 1 = split.num => (i + 1) * q = size
      BY <2>2, <3>2
    <3> QED
      BY <2>2, <2>3, <2>4, <2>5, <3>1, <3>3
  <2> QED
    BY <2>6, <2>7
<1> QED
  BY <1>1, <1>2, <1>3

-----------------------------------------------------------------------------
(* The data of a piece.                                                    *)

LEMMA Contents ==
  ASSUME TypeOK, NEW v \in Versions
  PROVE  /\ sizeOf[v] \in 1..MaxSize /\ sizeOf[v] \in Nat \ {0}
         /\ Content(v) \in Seq(Bytes) /\ Len(Content(v)) = sizeOf[v]
         /\ \A j \in 1..sizeOf[v] : Content(v)[j] = [version |-> v, at |-> j]
<1>1. sizeOf[v] \in 1..MaxSize
  BY DEF TypeOK
<1>2. \A j \in 1..sizeOf[v] : [version |-> v, at |-> j] \in Bytes
  BY <1>1, BoundsAssumption DEF Bytes
<1>3. sizeOf[v] \in Nat \ {0}
  BY <1>1, BoundsAssumption
<1>4. PICK content : content = Content(v)
  OBVIOUS
<1>5. content = [j \in 1..sizeOf[v] |-> [version |-> v, at |-> j]]
  BY <1>4 DEF Content
<1>6. /\ content \in Seq(Bytes) /\ Len(content) = sizeOf[v]
      /\ \A j \in 1..sizeOf[v] : content[j] = [version |-> v, at |-> j]
  BY <1>2, <1>3, <1>5
<1> QED
  BY <1>1, <1>3, <1>4, <1>6

LEMMA Served ==
  ASSUME NEW content \in Seq(Bytes), NEW from \in Nat, NEW len \in Nat
  PROVE  /\ Serve(content, from, len) \in Seq(Bytes)
         /\ Len(Serve(content, from, len)) = len
         /\ \A j \in 1..len : from + j <= Len(content) =>
                                Serve(content, from, len)[j] = content[from + j]
<1>1. \A j \in 1..len :
        (IF from + j <= Len(content) THEN content[from + j] ELSE Nul) \in Bytes
  BY DEF Bytes
<1>2. PICK data : data = [j \in 1..len |-> IF from + j <= Len(content) THEN content[from + j] ELSE Nul]
  OBVIOUS
<1>3. data \in Seq(Bytes) /\ Len(data) = len
  BY <1>1, <1>2
<1>4. data = Serve(content, from, len)
  BY <1>2 DEF Serve
<1> QED
  BY <1>2, <1>3, <1>4

LEMMA Division ==
  ASSUME TypeOK, version \in Versions
  PROVE  /\ Now.num \in 0..peerNum /\ Now.len \in Nat /\ Now.rem \in Nat
         /\ Now.num \in Nat /\ Now.num <= MAX_PEER_NUM /\ (peerNum > 0 => Now.num > 0)
         /\ \A i \in Nat : PieceLen(Now, i) \in Nat
<1>1. sizeOf[version] \in Nat /\ peerNum \in Nat /\ peerNum <= MAX_PEER_NUM
  BY Contents, BoundsAssumption DEF TypeOK, Numbers
<1>2. /\ Now.num \in 0..peerNum /\ Now.len \in Nat /\ Now.rem \in Nat
      /\ (peerNum > 0 => Now.num > 0)
  BY <1>1, DivideType DEF Now
<1> QED
  BY <1>1, <1>2, BoundsAssumption DEF PieceLen

LEMMA PieceType ==
  ASSUME TypeOK, version \in Versions, NEW i \in Nat
  PROVE  Piece(i) \in Seq(Bytes) /\ Len(Piece(i)) = PieceLen(Now, i)
<1>1. Content(version) \in Seq(Bytes)
  BY Contents
<1>2. PieceLen(Now, i) \in Nat /\ i * Now.len \in Nat
  BY Division
<1> QED
  BY <1>1, <1>2, Served DEF Piece

\* Of a file that can be divided, a piece holds the bytes from its offset to the next.
LEMMA PieceExact ==
  ASSUME TypeOK, version \in Versions, peerNum = holders, Divisible,
         NEW i \in 0..(Now.num - 1)
  PROVE  /\ PieceLen(Now, i) \in Nat \ {0}
         /\ Offset(i) \in Nat /\ Offset(i + 1) = Offset(i) + PieceLen(Now, i)
         /\ \A j \in 1..PieceLen(Now, i) :
              Piece(i)[j] = [version |-> version, at |-> Offset(i) + j]
<1> DEFINE size == sizeOf[version]
<1>1. size \in Nat \ {0} /\ Content(version) \in Seq(Bytes) /\ Len(Content(version)) = size
  BY Contents
<1>2. peerNum \in Nat \ {0} /\ size >= peerNum - 1 /\ ~(peerNum = 2 /\ size = 1)
  BY BoundsAssumption DEF TypeOK, Divisible, Numbers
<1>3. Now.num \in Nat /\ Now.len \in Nat /\ Now = Divide(size, peerNum)
  BY Division DEF Now
<1>4. /\ PieceLen(Now, i) \in Nat \ {0}
      /\ i * Now.len + PieceLen(Now, i) =
           IF i + 1 = Now.num THEN size ELSE (i + 1) * Now.len
      /\ i * Now.len + PieceLen(Now, i) <= size
  <2> HIDE DEF size
  <2> QED
    BY <1>1, <1>2, <1>3, Cover
<1>5. i \in Nat /\ i # Now.num /\ i * Now.len \in Nat /\ Offset(i) = i * Now.len
  BY <1>3 DEF Offset
<1>6. Offset(i + 1) = Offset(i) + PieceLen(Now, i)
  BY <1>4, <1>5 DEF Offset
<1>7. ASSUME NEW j \in 1..PieceLen(Now, i)
      PROVE  Piece(i)[j] = [version |-> version, at |-> Offset(i) + j]
  <2>1. i * Now.len + j \in 1..size
    BY <1>1, <1>4, <1>5
  <2>2. Piece(i)[j] = Content(version)[i * Now.len + j]
    <3>1. PICK from \in Nat, len \in Nat : from = i * Now.len /\ len = PieceLen(Now, i)
      BY <1>4, <1>5
    <3>2. Piece(i) = Serve(Content(version), from, len)
      BY <3>1 DEF Piece
    <3>3. j \in 1..len /\ from + j <= Len(Content(version))
      BY <1>1, <2>1, <3>1
    <3>4. Serve(Content(version), from, len)[j] = Content(version)[from + j]
      <4>1. PICK content \in Seq(Bytes) : content = Content(version)
        BY <1>1
      <4>2. \A k \in 1..len : from + k <= Len(content) =>
                               Serve(content, from, len)[k] = content[from + k]
        BY Served
      <4> QED
        BY <3>3, <4>1, <4>2
    <3> QED
      BY <3>1, <3>2, <3>4
  <2> QED
    BY <1>5, <2>1, <2>2, Contents
<1> QED
  BY <1>4, <1>5, <1>6, <1>7

-----------------------------------------------------------------------------
(* The steps.                                                              *)

LEMMA InitOK == Init => IInv
<1> SUFFICES ASSUME Init
             PROVE  IInv
  OBVIOUS
<1>1. /\ sizeOf \in [Versions -> 1..MaxSize]
      /\ phase = "idle" /\ version = 0 /\ holders = 0 /\ peerNum = 0 /\ running = {} /\ next = 0
      /\ temp = [i \in Numbers |-> Absent] /\ file = Absent /\ clean = TRUE /\ restarts = 0
  BY DEF Init
<1>2. TypeOK
  BY <1>1, BoundsAssumption DEF TypeOK, Numbers
<1> QED
  BY <1>1, <1>2 DEF IInv, Asked, Opened, InPieces, InAssembly, AtEnd

\* A step that changes neither the request nor the sizes leaves the division alone.
LEMMA SameRequest ==
  ASSUME UNCHANGED <<version, holders, peerNum, clean, sizeOf>>
  PROVE  /\ Now' = Now /\ Divisible' = Divisible
         /\ \A i : /\ PieceLen(Now, i)' = PieceLen(Now, i) /\ Piece(i)' = Piece(i)
                   /\ Offset(i)' = Offset(i)
<1>1. Now' = Now
  BY DEF Now
<1>2. Divisible' = Divisible
  BY DEF Divisible
<1>3. Content(version)' = Content(version)
  BY DEF Content
<1> QED
  BY <1>1, <1>2, <1>3 DEF PieceLen, Piece, Offset, Serve

LEMMA BeginStep ==
  ASSUME IInv, NEW v \in Versions, NEW k \in Numbers, NEW matches \in Numbers,
         Begin(v, k, matches)
  PROVE  IInv'
<1>1. /\ version' = v /\ holders' = k /\ peerNum' = (IF matches > 0 THEN matches ELSE k)
      /\ clean' = (matches = 0 /\ \A i \in Numbers : temp[i] = Absent)
      /\ running' = Wanted(Divide(sizeOf[v], peerNum'))
      /\ phase' = "pieces"
      /\ sizeOf' = sizeOf /\ restarts' = restarts /\ next' = next /\ temp' = temp /\ file' = file
  BY DEF Begin, world
<1>2. TypeOK
  BY DEF IInv
<1>3. PICK n \in Numbers : n = peerNum'
  BY <1>1
<1>4. sizeOf[v] \in Nat /\ n \in Nat /\ n <= MAX_PEER_NUM /\ MAX_PEER_NUM \in Nat
  BY <1>2, Contents, BoundsAssumption DEF Numbers
<1>5. PICK split : split = Divide(sizeOf[v], n)
  OBVIOUS
<1>6. split.num \in 0..n
  BY <1>4, <1>5, DivideType
<1>7. running' = {i \in 0..(split.num - 1) : TempLen(i) < PieceLen(split, i)}
  BY <1>1, <1>3, <1>5 DEF Wanted
<1>8. Now' = split
  BY <1>1, <1>3, <1>5 DEF Now
<1>9. TypeOK'
  <2>1. running' \subseteq 0..(MAX_PEER_NUM - 1)
    BY <1>4, <1>6, <1>7
  <2>2. version' \in 0..MaxVersion
    BY <1>1, BoundsAssumption DEF Versions
  <2>3. holders' \in Numbers /\ peerNum' \in Numbers /\ clean' \in BOOLEAN
    BY <1>1
  <2> QED
    BY <1>1, <1>2, <2>1, <2>2, <2>3 DEF TypeOK
<1>10. Asked'
  <2>1. matches \in Nat
    BY BoundsAssumption DEF Numbers
  <2>2. clean' => ~(matches > 0)
    <3>1. matches = 0 => ~(matches > 0)
      BY <2>1
    <3> QED
      BY <1>1, <3>1, Zenon
  <2> QED
    BY <1>1, <2>2 DEF Asked
<1>11. InPieces'
  <2> SUFFICES ASSUME clean'
               PROVE  running' \subseteq Full' /\ OnDisk(Full \ running)'
    BY DEF InPieces
  <2>1. \A i \in Numbers : temp'[i] = Absent /\ temp[i] = Absent
    BY <1>1
  <2>2. Full' = {i \in 0..(split.num - 1) : PieceLen(split, i) > 0}
    BY <1>8 DEF Full, PieceLen
  <2>3. \A i \in 0..(split.num - 1) : i \in Numbers /\ TempLen(i) = 0
    BY <1>4, <1>6, <2>1 DEF Numbers, TempLen
  <2>4. running' = Full'
    BY <1>7, <2>2, <2>3
  <2> QED
    BY <2>1, <2>4 DEF OnDisk
<1> QED
  BY <1>1, <1>9, <1>10, <1>11 DEF IInv, Opened, InAssembly, AtEnd

LEMMA PieceDoneStep ==
  ASSUME IInv, NEW i \in Numbers, PieceDone(i)
  PROVE  IInv'
<1>1. /\ phase = "pieces" /\ phase' = "pieces" /\ i \in running /\ running' = running \ {i}
      /\ Appended(i, Piece(i))
      /\ UNCHANGED <<version, holders, peerNum, clean, sizeOf>>
      /\ restarts' = restarts /\ next' = next /\ file' = file
  BY DEF PieceDone, world, request
<1>2. TypeOK /\ version \in Versions /\ i \in Nat
  BY <1>1, BoundsAssumption DEF IInv, Asked, Numbers
<1>3. Piece(i) \in Seq(Bytes)
  BY <1>2, PieceType
<1>4. /\ temp' \in [Numbers -> Seq(Bytes) \cup {Absent}]
      /\ temp'[i] = IF temp[i] = Absent THEN Piece(i) ELSE temp[i] \o Piece(i)
      /\ \A j \in Numbers : j # i => temp'[j] = temp[j]
  <2>1. temp \in [Numbers -> Seq(Bytes) \cup {Absent}]
    BY <1>2 DEF TypeOK
  <2>2. PICK cell : cell = IF temp[i] = Absent THEN Piece(i) ELSE temp[i] \o Piece(i)
    OBVIOUS
  <2>3. cell \in Seq(Bytes)
    BY <1>3, <2>1, <2>2, ConcatProperties
  <2>4. temp' = [temp EXCEPT ![i] = cell]
    BY <1>1, <2>2 DEF Appended
  <2> QED
    BY <2>1, <2>2, <2>3, <2>4
<1>5. TypeOK'
  BY <1>1, <1>2, <1>4 DEF TypeOK
<1>6. InPieces'
  <2> SUFFICES ASSUME clean
               PROVE  running' \subseteq Full' /\ OnDisk(Full \ running)'
    BY <1>1 DEF InPieces
  <2>1. running \subseteq Full /\ OnDisk(Full \ running)
    BY <1>1 DEF IInv, InPieces
  <2>2. Full' = Full
    BY <1>1, SameRequest DEF Full
  <2>3. ASSUME NEW j \in Numbers
        PROVE  temp'[j] = IF j \in Full \ running' THEN Piece(j) ELSE Absent
    BY <1>1, <1>4, <2>1 DEF OnDisk
  <2> QED
    BY <1>1, <2>1, <2>2, <2>3, SameRequest DEF OnDisk
<1> QED
  BY <1>1, <1>5, <1>6 DEF IInv, Asked, Opened, InAssembly, AtEnd

LEMMA StartAssemblyStep == IInv /\ StartAssembly => IInv'
<1> SUFFICES ASSUME IInv, StartAssembly
             PROVE  IInv'
  OBVIOUS
<1>1. /\ phase = "pieces" /\ phase' = "assembly" /\ running = {} /\ running' = running
      /\ next' = 0 /\ file' = <<>> /\ temp' = temp
      /\ UNCHANGED <<version, holders, peerNum, clean, sizeOf>> /\ restarts' = restarts
  BY DEF StartAssembly, world, request
<1>2. TypeOK /\ version \in Versions
  BY <1>1 DEF IInv, Asked
<1>3. Now.num \in Nat /\ Now.len \in Nat /\ sizeOf[version] \in Nat \ {0}
  BY <1>2, Division, Contents
<1>4. TypeOK'
  BY <1>1, <1>2, EmptySeq, BoundsAssumption DEF TypeOK
<1>5. InAssembly'
  <2> SUFFICES ASSUME clean
               PROVE  /\ next' \in 0..Now'.num
                      /\ OnDisk({i \in Full : i >= next})'
                      /\ Divisible' => Holds(Offset(next))'
    BY <1>1 DEF InAssembly
  <2>1. OnDisk(Full)
    <3>1. Full \ running = Full
      BY <1>1
    <3>2. OnDisk(Full \ running)
      BY <1>1 DEF IInv, InPieces
    <3> QED
      BY <3>1, <3>2
  <2>2. /\ Now' = Now /\ Full' = Full /\ Divisible' = Divisible
        /\ \A i : Piece(i)' = Piece(i)
    BY <1>1, SameRequest DEF Full
  <2>3. {i \in Full : i >= next}' = Full
    BY <1>1, <1>3, <2>2 DEF Full
  <2>4. OnDisk({i \in Full : i >= next})'
    <3>1. PICK all : all = {i \in Full' : i >= next'}
      OBVIOUS
    <3>2. all = Full
      BY <2>3, <3>1
    <3> QED
      BY <1>1, <2>1, <2>2, <2>3 DEF OnDisk
  <2>5. ASSUME Divisible'
        PROVE  Holds(Offset(next))'
    <3>1. holders >= 1 /\ peerNum = holders /\ peerNum \in Int
      BY <1>1, <1>2, <2>2, <2>5, BoundsAssumption DEF Divisible, IInv, Asked, TypeOK, Numbers
    <3>2. Now.num > 0
      BY <1>2, <3>1, Division
    <3>3. Offset(next)' = IF 0 = Now.num THEN sizeOf[version] ELSE 0 * Now.len
      BY <1>1, <2>2 DEF Offset
    <3>4. Offset(next)' = 0
      BY <1>3, <3>2, <3>3
    <3> QED
      BY <1>1, <3>4, EmptySeq DEF Holds
  <2> QED
    BY <1>1, <1>3, <2>2, <2>4, <2>5
<1> QED
  BY <1>1, <1>4, <1>5, EmptySeq DEF IInv, Asked, Opened, InPieces, AtEnd

LEMMA AssemblePieceStep == IInv /\ AssemblePiece => IInv'
<1> SUFFICES ASSUME IInv, AssemblePiece
             PROVE  IInv'
  OBVIOUS
<1>1. /\ phase = "assembly" /\ phase' = "assembly" /\ next < Now.num /\ next' = next + 1
      /\ temp[next] # Absent /\ file' = file \o temp[next]
      /\ temp' = [temp EXCEPT ![next] = Absent]
      /\ UNCHANGED <<version, holders, peerNum, clean, sizeOf>>
      /\ restarts' = restarts /\ running' = running
  BY DEF AssemblePiece, world, request
<1>2. TypeOK /\ version \in Versions /\ file \in Seq(Bytes)
  BY <1>1 DEF IInv, Asked, Opened
<1>3. /\ Now.num \in Nat /\ Now.len \in Nat /\ next \in Nat /\ next + 1 <= MAX_PEER_NUM
      /\ MAX_PEER_NUM \in Nat /\ next \in Numbers
  <2>1. Now.num \in Nat /\ Now.len \in Nat /\ Now.num <= MAX_PEER_NUM
    BY <1>2, Division
  <2>2. next \in Nat /\ MAX_PEER_NUM \in Nat
    BY <1>2, BoundsAssumption DEF TypeOK
  <2> QED
    BY <1>1, <2>1, <2>2 DEF Numbers
<1>4. temp \in [Numbers -> Seq(Bytes) \cup {Absent}]
  BY <1>2 DEF TypeOK
<1>5. PICK data \in Seq(Bytes) : data = temp[next]
  BY <1>1, <1>3, <1>4
<1>6. /\ file' \in Seq(Bytes) /\ Len(file') = Len(file) + Len(data)
      /\ \A j \in 1..Len(file) : file'[j] = file[j]
      /\ \A j \in 1..Len(data) : file'[Len(file) + j] = data[j]
  BY <1>1, <1>2, <1>5, ConcatProperties
<1>7. /\ temp' \in [Numbers -> Seq(Bytes) \cup {Absent}]
      /\ \A i \in Numbers : temp'[i] = IF i = next THEN Absent ELSE temp[i]
  BY <1>1, <1>3, <1>4
<1>8. TypeOK'
  BY <1>1, <1>2, <1>3, <1>6, <1>7 DEF TypeOK
<1>9. InAssembly'
  <2> SUFFICES ASSUME clean
               PROVE  /\ next' \in 0..Now'.num
                      /\ OnDisk({i \in Full : i >= next})'
                      /\ Divisible' => Holds(Offset(next))'
    BY <1>1 DEF InAssembly
  <2>1. /\ OnDisk({i \in Full : i >= next})
        /\ Divisible => Holds(Offset(next))
        /\ peerNum = holders
    BY <1>1 DEF IInv, InAssembly, Asked
  <2>2. /\ Now' = Now /\ Full' = Full /\ Divisible' = Divisible
        /\ \A i : Piece(i)' = Piece(i) /\ Offset(i)' = Offset(i)
    BY <1>1, SameRequest DEF Full
  <2>3. ASSUME NEW i \in Numbers
        PROVE  temp'[i] = IF i \in {j \in Full' : j >= next'} THEN Piece(i)' ELSE Absent
    <3>1. i \in Nat
      BY BoundsAssumption DEF Numbers
    <3>2. CASE i = next
      BY <1>1, <1>3, <1>7, <3>2
    <3>3. CASE i # next
      <4>1. i >= next' <=> i >= next
        BY <1>1, <1>3, <3>1, <3>3
      <4> QED
        BY <1>7, <2>1, <2>2, <3>3, <4>1 DEF OnDisk
    <3> QED
      BY <3>2, <3>3
  <2>4. OnDisk({i \in Full : i >= next})'
    BY <2>3 DEF OnDisk
  <2>5. ASSUME Divisible
        PROVE  Holds(Offset(next))'
    <3>1. next \in 0..(Now.num - 1)
      BY <1>1, <1>3
    <3>2. /\ PieceLen(Now, next) \in Nat \ {0}
          /\ Offset(next) \in Nat /\ Offset(next + 1) = Offset(next) + PieceLen(Now, next)
          /\ \A j \in 1..PieceLen(Now, next) :
               Piece(next)[j] = [version |-> version, at |-> Offset(next) + j]
      BY <1>2, <2>1, <2>5, <3>1, PieceExact
    <3>3. data = Piece(next)
      <4>1. next \in Full
        BY <3>1, <3>2 DEF Full
      <4> QED
        BY <1>3, <1>5, <2>1, <4>1 DEF OnDisk
    <3>4. Len(data) = PieceLen(Now, next)
      BY <1>2, <1>3, <3>3, PieceType
    <3>5. /\ Len(file) = Offset(next)
          /\ \A j \in 1..Offset(next) : file[j] = [version |-> version, at |-> j]
      BY <2>1, <2>5 DEF Holds
    <3>6. Len(file') = Offset(next + 1)
      BY <1>6, <3>2, <3>4, <3>5
    <3>7. ASSUME NEW j \in 1..Offset(next + 1)
          PROVE  file'[j] = [version |-> version, at |-> j]
      <4>1. CASE j <= Offset(next)
        BY <1>6, <3>2, <3>5, <4>1
      <4>2. CASE j > Offset(next)
        <5>1. PICK k \in 1..PieceLen(Now, next) : j = Offset(next) + k
          <6>1. j - Offset(next) \in 1..PieceLen(Now, next) /\ j = Offset(next) + (j - Offset(next))
            BY <3>2, <4>2
          <6> QED
            BY <6>1
        <5> QED
          BY <1>6, <3>2, <3>3, <3>4, <3>5, <5>1
      <4> QED
        BY <3>2, <4>1, <4>2
    <3>8. Offset(next)' = Offset(next + 1)
      BY <1>1, <2>2 DEF Offset
    <3> QED
      BY <1>1, <1>6, <3>6, <3>7, <3>8 DEF Holds
  <2>6. next' \in 0..Now'.num
    BY <1>1, <1>3, <2>2
  <2>7. Divisible' => Holds(Offset(next))'
    BY <2>2, <2>5
  <2> QED
    BY <2>4, <2>6, <2>7
<1> QED
  BY <1>1, <1>6, <1>8, <1>9 DEF IInv, Asked, Opened, InPieces, AtEnd

LEMMA FinishStep == IInv /\ Finish => IInv'
<1> SUFFICES ASSUME IInv, Finish
             PROVE  IInv'
  OBVIOUS
<1>1. /\ phase = "assembly" /\ phase' = "done" /\ next = Now.num
      /\ UNCHANGED <<version, holders, peerNum, clean, sizeOf>> /\ restarts' = restarts
      /\ running' = running /\ next' = next /\ temp' = temp /\ file' = file
  BY DEF Finish, world, request
<1>2. TypeOK /\ version \in Versions
  BY <1>1 DEF IInv, Asked
<1>3. TypeOK'
  BY <1>1, <1>2 DEF TypeOK
<1>4. AtEnd'
  <2> SUFFICES ASSUME clean
               PROVE  /\ \A i \in Numbers : temp[i] = Absent
                      /\ Divisible => Holds(sizeOf[version])
    BY <1>1, SameRequest DEF AtEnd, Holds
  <2>1. /\ OnDisk({i \in Full : i >= next})
        /\ Divisible => Holds(Offset(next))
    BY <1>1 DEF IInv, InAssembly
  <2>2. \A i \in Full : ~(i >= next)
    BY <1>1, <1>2, Division DEF Full
  <2> QED
    BY <1>1, <2>1, <2>2 DEF OnDisk, Offset
<1> QED
  BY <1>1, <1>3, <1>4 DEF IInv, Asked, Opened, InPieces, InAssembly

\* A process that has ended has nothing under way.
LEMMA DieStep ==
  ASSUME IInv, Die, file' = file, temp' \in [Numbers -> Seq(Bytes) \cup {Absent}]
  PROVE  IInv'
<1>1. /\ phase' = "dead" /\ running' = {} /\ next' = 0 /\ holders' = 0 /\ peerNum' = 0
      /\ sizeOf' = sizeOf /\ restarts' = restarts /\ version' = version /\ clean' = clean
  BY DEF Die, world
<1>2. 0 \in Numbers /\ 0 \in 0..(MAX_PEER_NUM + 1)
  BY BoundsAssumption DEF Numbers
<1>3. TypeOK'
  BY <1>1, <1>2 DEF IInv, TypeOK
<1> QED
  BY <1>1, <1>3 DEF IInv, Asked, Opened, InPieces, InAssembly, AtEnd

LEMMA KilledWritingStep ==
  ASSUME IInv, NEW i \in Numbers, NEW m \in 0..MaxSize, KilledWriting(i, m)
  PROVE  IInv'
<1>1. /\ phase = "pieces" /\ m < PieceLen(Now, i) /\ Die /\ file' = file
      /\ Appended(i, SubSeq(Piece(i), 1, m))
  BY DEF KilledWriting
<1>2. TypeOK /\ version \in Versions /\ i \in Nat /\ m \in Nat
  BY <1>1, BoundsAssumption DEF IInv, Asked, Numbers
<1>3. PICK data : data = SubSeq(Piece(i), 1, m)
  OBVIOUS
<1>4. data \in Seq(Bytes)
  <2>1. Piece(i) \in Seq(Bytes) /\ Len(Piece(i)) = PieceLen(Now, i) /\ PieceLen(Now, i) \in Nat
    BY <1>2, PieceType, Division
  <2>2. \A j \in 1..m : Piece(i)[j] \in Bytes
    BY <1>1, <1>2, <2>1
  <2> QED
    BY <1>2, <1>3, <2>2
<1>5. temp \in [Numbers -> Seq(Bytes) \cup {Absent}]
  BY <1>2 DEF TypeOK
<1>6. PICK cell : cell = IF temp[i] = Absent THEN data ELSE temp[i] \o data
  OBVIOUS
<1>7. cell \in Seq(Bytes)
  BY <1>4, <1>5, <1>6, ConcatProperties
<1>8. temp' = [temp EXCEPT ![i] = cell]
  BY <1>1, <1>3, <1>6 DEF Appended
<1>9. temp' \in [Numbers -> Seq(Bytes) \cup {Absent}]
  BY <1>5, <1>7, <1>8
<1> QED
  BY <1>1, <1>9, DieStep

LEMMA StepOK == IInv /\ [Next]_vars => IInv'
<1> SUFFICES ASSUME IInv, [Next]_vars
             PROVE  IInv'
  OBVIOUS
<1>1. temp \in [Numbers -> Seq(Bytes) \cup {Absent}]
  BY DEF IInv, TypeOK
<1>2. CASE \E v \in Versions, k \in Numbers, matches \in Numbers : Begin(v, k, matches)
  BY <1>2, BeginStep
<1>3. CASE \E i \in Numbers : PieceDone(i)
  BY <1>3, PieceDoneStep
<1>4. CASE (\E i \in Numbers : NoHolder(i)) \/ MissingPiece \/ Killed
  BY <1>1, <1>4, DieStep DEF NoHolder, MissingPiece, Killed
<1>5. CASE \E i \in Numbers, m \in 0..MaxSize : KilledWriting(i, m)
  BY <1>5, KilledWritingStep
<1>6. CASE StartAssembly \/ AssemblePiece \/ Finish
  BY <1>6, StartAssemblyStep, AssemblePieceStep, FinishStep
<1>7. CASE Restart
  <2>1. phase' = "idle" /\ restarts' \in 0..MaxRestarts
    BY <1>7, BoundsAssumption DEF Restart, IInv, TypeOK
  <2>2. TypeOK'
    BY <1>7, <2>1 DEF Restart, request, IInv, TypeOK
  <2> QED
    BY <2>1, <2>2 DEF IInv, Asked, Opened, InPieces, InAssembly, AtEnd
<1>8. CASE UNCHANGED vars
  <2>1. /\ UNCHANGED <<version, holders, peerNum, clean, sizeOf>> /\ restarts' = restarts
        /\ phase' = phase /\ running' = running /\ next' = next /\ temp' = temp /\ file' = file
    BY <1>8 DEF vars, world, request
  <2>2. TypeOK'
    BY <2>1 DEF IInv, TypeOK
  <2>3. Asked' /\ Opened'
    BY <2>1 DEF IInv, Asked, Opened
  <2>4. InPieces'
    BY <2>1, SameRequest DEF IInv, InPieces, Full, OnDisk
  <2>5. InAssembly'
    BY <2>1, SameRequest DEF IInv, InAssembly, Full, OnDisk, Holds
  <2>6. AtEnd'
    BY <2>1, SameRequest DEF IInv, AtEnd, Holds
  <2> QED
    BY <2>2, <2>3, <2>4, <2>5, <2>6 DEF IInv
<1> QED
  BY <1>2, <1>3, <1>4, <1>5, <1>6, <1>7, <1>8 DEF Next

\* In every reachable state the temporary files of a download that began without
\* any are the pieces that have been fetched and not been assembled, and the file
\* is the part of the version before them (ptp_download, piece_download).
THEOREM Invariance == Spec => []IInv
<1> QED
  BY InitOK, StepOK, PTL DEF Spec

\* A download that begins without leftovers and is not cut off gives exactly the
\* announced version, for every size and every number of holders that the file can
\* be divided over (ptp_download).
THEOREM ExactDownloads == Spec => []FreshDownloadExact
<1>1. IInv => FreshDownloadExact
  <2> SUFFICES ASSUME IInv, phase = "done", clean, Divisible
               PROVE  file = Content(version)
    BY DEF FreshDownloadExact
  <2>1. version \in Versions /\ Holds(sizeOf[version])
    BY DEF IInv, Asked, AtEnd
  <2>2. /\ Content(version) \in Seq(Bytes) /\ Len(Content(version)) = sizeOf[version]
        /\ \A j \in 1..sizeOf[version] : Content(version)[j] = [version |-> version, at |-> j]
    BY <2>1, Contents DEF IInv
  <2>3. /\ file \in Seq(Bytes) /\ Len(file) = sizeOf[version]
        /\ \A j \in 1..sizeOf[version] : file[j] = [version |-> version, at |-> j]
    BY <2>1 DEF Holds
  <2>4. PICK content \in Seq(Bytes) : content = Content(version)
    BY <2>2
  <2>5. Len(content) = Len(file) /\ \A j \in 1..Len(file) : content[j] = file[j]
    BY <2>2, <2>3, <2>4
  <2> QED
    BY <2>3, <2>4, <2>5, SeqEqual
<1> QED
  BY <1>1, Invariance, PTL

\* Such a download never stops at a piece that nobody fetched.
THEOREM CompleteAssemblies == Spec => []FreshDownloadAssembles
<1>1. IInv => FreshDownloadAssembles
  <2> SUFFICES ASSUME IInv, phase = "assembly", clean, Divisible, next < Now.num
               PROVE  temp[next] # Absent
    BY DEF FreshDownloadAssembles
  <2>1. /\ TypeOK /\ version \in Versions /\ peerNum = holders /\ next \in 0..Now.num
        /\ OnDisk({i \in Full : i >= next})
    BY DEF IInv, Asked, InAssembly
  <2>2. next \in Nat /\ next \in 0..(Now.num - 1) /\ next \in Numbers
    BY <2>1, Division, BoundsAssumption DEF Numbers
  <2>3. next \in Full
    BY <2>1, <2>2, PieceExact DEF Full
  <2>4. temp[next] = Piece(next)
    BY <2>1, <2>2, <2>3 DEF OnDisk
  <2> QED
    BY <2>1, <2>2, <2>4, PieceType, AbsentAssumption
<1> QED
  BY <1>1, Invariance, PTL

\* A download that began without leftovers leaves none, whatever the number of its
\* holders: nothing that a later one would take for a piece of its own.
THEOREM NoLeftovers == Spec => []FreshDownloadTidies
<1>1. IInv => FreshDownloadTidies
  BY DEF IInv, AtEnd, FreshDownloadTidies
<1> QED
  BY <1>1, Invariance, PTL
=============================================================================
