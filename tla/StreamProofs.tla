---------------------------- MODULE StreamProofs ----------------------------
(***************************************************************************)
(* Theorems about what arrives at a peer: the tables that the tracker      *)
(* sends, for any threads, any number of tables of any length, and any     *)
(* capacity of the connection; and the pieces that a holder sends, for any *)
(* connections, files and pieces, and any length of a packet.              *)
(***************************************************************************)
EXTENDS BroadcastStream, Transfer, SequenceTheorems, WellFoundedInduction, TLAPS

-----------------------------------------------------------------------------
(* The receiver is never left inside a table.                              *)

\* Until the list is torn, a walk does not go past its end, and only one thread
\* appends.
Untorn ==
  /\ \A t \in Threads : cursor[t] <= length
  /\ \A t, u \in Threads : append[t] # "no" /\ append[u] # "no" => t = u
  /\ \A t \in Threads : append[t] = "tail" => length < MaxFiles

\* A table in the making has not more nodes than were announced.
Counted ==
  /\ left + Len(got) <= MaxFiles
  /\ left = 0 => got = <<>>
  /\ torn => overlap

\* There are n packets among k that are on their way and the rest of some thread's
\* walk over the list.
Follow(n, k, at, end) ==
  \/ n <= k
  \/ \E t \in Threads : at[t] >= 0 /\ n <= k + (end - at[t])

\* What the receiver waits for, and what each size packet promises, follows.
Promised ==
  /\ Follow(left, Len(chan), cursor, length)
  /\ \A p \in 1..Len(chan) : Follow(chan[p].size, Len(chan) - p, cursor, length)

CountInv ==
  /\ TypeOK /\ Counted
  /\ ~torn => Untorn /\ (main = "running" => Promised)

LEMMA PacketType ==
  ASSUME NEW packet \in Packet
  PROVE  /\ packet.size \in -1..MaxFiles
         /\ packet.node.file \in 0..MaxFiles
BY BoundsAssumption DEF Packet, NullNode

LEMMA AppendTable ==
  ASSUME NEW list \in Seq(Seq(0..MaxFiles)), NEW table \in Seq(0..MaxFiles)
  PROVE  /\ Append(list, table) \in Seq(Seq(0..MaxFiles))
         /\ Len(Append(list, table)) = Len(list) + 1
         /\ \A i \in 1..Len(list) : Append(list, table)[i] = list[i]
         /\ Append(list, table)[Len(list) + 1] = table
<1> DEFINE S == Seq(0..MaxFiles)
<1>1. list \in Seq(S) /\ table \in S
  OBVIOUS
<1> HIDE DEF S
<1>2. /\ Append(list, table) \in Seq(S)
      /\ Len(Append(list, table)) = Len(list) + 1
      /\ \A i \in 1..Len(list) : Append(list, table)[i] = list[i]
      /\ Append(list, table)[Len(list) + 1] = table
  BY <1>1, AppendProperties
<1> QED
  BY <1>2 DEF S

LEMMA CountInit == Init => CountInv
<1> SUFFICES ASSUME Init
             PROVE  CountInv
  OBVIOUS
<1>1. TypeOK
  <2>1. <<>> \in Seq(Packet) /\ <<>> \in Seq(0..MaxFiles) /\ <<>> \in Seq(Seq(0..MaxFiles))
    BY EmptySeq
  <2>2. Len(chan) = 0 /\ Len(got) = 0
    BY EmptySeq DEF Init
  <2>3. cursor \in [Threads -> -1..MaxFiles]
    BY BoundsAssumption DEF Init
  <2>4. sizes \in Seq(0..MaxFiles) /\ got \in Seq(0..MaxFiles)
    BY <2>1 DEF Init
  <2>5. chan \in Seq(Packet)
    BY <2>1 DEF Init
  <2>6. tables \in Seq(Seq(0..MaxFiles))
    BY <2>1 DEF Init
  <2>7. main \in {"running", "wildPointer"} /\ overlap \in BOOLEAN /\ torn \in BOOLEAN
    BY DEF Init
  <2>9. append \in [Threads -> {"no", "tail", "linked"}]
    BY DEF Init
  <2>8. length \in 0..MaxFiles /\ left \in 0..MaxFiles
    BY BoundsAssumption DEF Init
  <2> QED
    BY <2>2, <2>3, <2>4, <2>5, <2>6, <2>7, <2>8, <2>9, BoundsAssumption DEF TypeOK
<1>2. Counted /\ Untorn /\ Promised
  BY BoundsAssumption, EmptySeq DEF Init, Counted, Untorn, Promised, Follow
<1> QED
  BY <1>1, <1>2 DEF CountInv

LEMMA CountStep == CountInv /\ [Next]_vars => CountInv'
<1> SUFFICES ASSUME CountInv, [Next]_vars
             PROVE  CountInv'
  OBVIOUS
<1> USE BoundsAssumption
<1>0. /\ TypeOK /\ Counted
      /\ length \in Nat /\ MaxFiles \in Nat /\ left \in Nat
      /\ chan \in Seq(Packet) /\ Len(chan) \in Nat
      /\ got \in Seq(0..MaxFiles) /\ Len(got) \in Nat
      /\ torn \in BOOLEAN /\ (~torn => Untorn)
      /\ \A t \in Threads : cursor[t] \in -1..MaxFiles
      /\ \A p \in 1..Len(chan) : chan[p] \in Packet /\ chan[p].size \in Int
  <2>1. TypeOK /\ Counted
    BY DEF CountInv
  <2>2. \A p \in 1..Len(chan) : chan[p] \in Packet
    BY <2>1 DEF TypeOK
  <2>3. \A p \in 1..Len(chan) : chan[p].size \in Int
    BY <2>2, PacketType
  <2>4. /\ length \in 0..MaxFiles /\ left \in 0..MaxFiles /\ MaxFiles \in Nat
        /\ chan \in Seq(Packet) /\ got \in Seq(0..MaxFiles)
        /\ \A t \in Threads : cursor[t] \in -1..MaxFiles
        /\ torn \in BOOLEAN
    BY <2>1 DEF TypeOK
  <2>5. length \in Nat /\ left \in Nat /\ Len(chan) \in Nat /\ Len(got) \in Nat
    BY <2>4
  <2> QED
    BY <2>1, <2>2, <2>3, <2>4, <2>5 DEF CountInv
<1>1. ASSUME NEW t \in Threads, FindTail(t) \/ LinkNode(t) \/ FillNode(t)
      PROVE  CountInv'
  <2>1. /\ chan' = chan /\ cursor' = cursor /\ sizes' = sizes
        /\ main' = main /\ left' = left /\ got' = got /\ tables' = tables
        /\ torn => torn'
    <3>1. CASE FindTail(t)
      BY <3>1 DEF FindTail, receiver
    <3>2. CASE LinkNode(t)
      BY <3>2 DEF LinkNode, receiver
    <3>3. CASE FillNode(t)
      BY <3>3 DEF FillNode, receiver
    <3> QED
      BY <1>1, <3>1, <3>2, <3>3
  <2>2. /\ torn' \in BOOLEAN /\ overlap' \in BOOLEAN /\ (torn' => overlap')
        /\ append' \in [Threads -> {"no", "tail", "linked"}]
    <3>1. CASE FindTail(t)
      BY <1>0, <3>1 DEF FindTail, TypeOK
    <3>2. CASE LinkNode(t)
      BY <1>0, <3>2 DEF LinkNode, TypeOK, Counted, Sending
    <3>3. CASE FillNode(t)
      BY <1>0, <3>3 DEF FillNode, TypeOK, Counted
    <3> QED
      BY <1>1, <3>1, <3>2, <3>3
  <2>3. /\ length' \in 0..MaxFiles /\ length' >= length
        /\ ~torn' => Untorn'
    <3>1. CASE FindTail(t)
      <4>1. length' = length /\ length < MaxFiles /\ append' = [append EXCEPT ![t] = "tail"]
        BY <3>1 DEF FindTail
      <4>2. ASSUME ~torn' PROVE Untorn'
        <5>1. Untorn /\ \A u \in Threads : append[u] = "no"
          BY <1>0, <3>1, <4>2 DEF FindTail
        <5>2. \A u \in Threads : append'[u] = IF u = t THEN "tail" ELSE "no"
          BY <1>0, <4>1, <5>1 DEF TypeOK
        <5> QED
          BY <2>1, <4>1, <5>1, <5>2 DEF Untorn
      <4> QED
        BY <1>0, <4>1, <4>2 DEF TypeOK
    <3>2. CASE LinkNode(t)
      <4>1. append[t] = "tail" /\ torn' = torn
            /\ length' = (IF torn THEN length ELSE length + 1)
            /\ append' = [append EXCEPT ![t] = "linked"]
        BY <3>2 DEF LinkNode
      <4>2. CASE torn
        BY <1>0, <4>1, <4>2 DEF TypeOK
      <4>3. CASE ~torn
        <5>1. Untorn /\ length < MaxFiles /\ length' = length + 1
          BY <1>0, <4>1, <4>3 DEF Untorn
        <5>2. \A u \in Threads : append'[u] = IF u = t THEN "linked" ELSE append[u]
          BY <1>0, <4>1 DEF TypeOK
        <5>3. \A u \in Threads : u # t => append[u] = "no"
          BY <4>1, <5>1 DEF Untorn
        <5>4. \A u \in Threads : cursor'[u] <= length'
          BY <1>0, <2>1, <5>1 DEF Untorn
        <5>5. Untorn'
          BY <5>2, <5>3, <5>4 DEF Untorn
        <5> QED
          BY <1>0, <5>1, <5>5
      <4> QED
        BY <4>2, <4>3
    <3>3. CASE FillNode(t)
      <4>1. length' = length /\ torn' = torn /\ append' = [append EXCEPT ![t] = "no"]
        BY <3>3 DEF FillNode
      <4>2. \A u \in Threads : append'[u] = IF u = t THEN "no" ELSE append[u]
        BY <1>0, <4>1 DEF TypeOK
      <4>3. ASSUME ~torn' PROVE Untorn'
        BY <1>0, <2>1, <4>1, <4>2, <4>3 DEF Untorn
      <4> QED
        BY <1>0, <4>1, <4>3 DEF TypeOK
    <3> QED
      BY <1>1, <3>1, <3>2, <3>3
  <2>4. TypeOK'
    BY <1>0, <2>1, <2>2, <2>3 DEF TypeOK
  <2>5. Counted'
    BY <1>0, <2>1, <2>2 DEF Counted
  <2>6. ASSUME NEW n \in Int, NEW k \in Nat, Follow(n, k, cursor, length)
        PROVE  Follow(n, k, cursor', length')
    BY <1>0, <2>1, <2>3, <2>6 DEF Follow
  <2>7. ASSUME main' = "running", ~torn' PROVE Promised'
    BY <1>0, <2>1, <2>6, <2>7 DEF CountInv, Promised
  <2> QED
    BY <2>3, <2>4, <2>5, <2>7 DEF CountInv
<1>2. ASSUME NEW t \in Threads, SendSize(t)
      PROVE  CountInv'
  <2>a. PICK count \in 0..MaxFiles :
          /\ torn \/ count = length
          /\ Send([size |-> count, node |-> NullNode])
          /\ sizes' = Append(sizes, count)
    BY <1>2 DEF SendSize
  <2> DEFINE packet == [size |-> count, node |-> NullNode]
  <2>0. packet \in Packet /\ packet.size = count
    BY DEF Packet
  <2>1. /\ chan' \in Seq(Packet) /\ Len(chan') = Len(chan) + 1 /\ Len(chan') <= ChanCap
        /\ \A p \in 1..Len(chan) : chan'[p] = chan[p]
        /\ chan'[Len(chan) + 1] = packet
    BY <1>0, <2>a, <2>0 DEF Send, TypeOK
  <2>2. /\ length' = length /\ torn' = torn /\ append' = append
        /\ cursor' = [cursor EXCEPT ![t] = 0] /\ cursor[t] = -1
        /\ main' = main /\ left' = left /\ got' = got /\ tables' = tables
    BY <1>2 DEF SendSize, Idle, fileTable, receiver
  <2>3. \A u \in Threads : cursor'[u] = IF u = t THEN 0 ELSE cursor[u]
    BY <2>2 DEF CountInv, TypeOK
  <2>4. TypeOK'
    <3>1. sizes' \in Seq(0..MaxFiles)
      BY <1>0, <2>a DEF TypeOK
    <3>2. overlap' \in BOOLEAN
      BY <1>0, <1>2 DEF SendSize, TypeOK, Sending
    <3>3. cursor' \in [Threads -> -1..MaxFiles]
      BY <1>0, <2>2 DEF TypeOK
    <3> QED
      BY <1>0, <2>1, <2>2, <3>1, <3>2, <3>3 DEF TypeOK
  <2>5. Counted' /\ (~torn' => Untorn')
    <3>1. torn' => overlap'
      BY <1>0, <1>2, <2>2 DEF SendSize, Counted
    <3> QED
      BY <1>0, <2>2, <2>3, <3>1 DEF Counted, Untorn
  <2>6. ASSUME NEW n \in Int, NEW k \in Nat, Follow(n, k, cursor, length)
        PROVE  Follow(n, k + 1, cursor', length')
    BY <1>0, <2>2, <2>3, <2>6 DEF Follow
  <2>7. ~torn => Follow(count, 0, cursor', length')
    BY <1>0, <2>a, <2>2, <2>3 DEF Follow
  <2>8. ASSUME main' = "running", ~torn' PROVE Promised'
    <3>1. Promised /\ ~torn
      BY <2>2, <2>8 DEF CountInv
    <3>2. Follow(left', Len(chan'), cursor', length')
      <4>1. Follow(left, Len(chan) + 1, cursor', length')
        BY <1>0, <2>6, <3>1 DEF Promised
      <4> QED
        BY <2>1, <2>2, <4>1
    <3>3. ASSUME NEW p \in 1..Len(chan)
          PROVE  Follow(chan'[p].size, Len(chan') - p, cursor', length')
      <4>1. Follow(chan[p].size, (Len(chan) - p) + 1, cursor', length')
        BY <1>0, <2>6, <3>1 DEF Promised
      <4>2. chan'[p] = chan[p] /\ Len(chan') - p = (Len(chan) - p) + 1
        BY <1>0, <2>1
      <4> QED
        BY <4>1, <4>2
    <3>4. Follow(chan'[Len(chan) + 1].size, 0, cursor', length')
      BY <2>0, <2>1, <2>2, <2>7, <3>1
    <3>5. ASSUME NEW p \in 1..Len(chan')
          PROVE  Follow(chan'[p].size, Len(chan') - p, cursor', length')
      <4>1. CASE p \in 1..Len(chan)
        BY <3>3, <4>1
      <4>2. CASE p = Len(chan) + 1
        BY <1>0, <2>1, <3>4, <4>2
      <4> QED
        BY <1>0, <2>1, <4>1, <4>2
    <3> QED
      BY <3>2, <3>5 DEF Promised
  <2> QED
    BY <2>4, <2>5, <2>8 DEF CountInv
<1>3. ASSUME NEW t \in Threads, SendNode(t)
      PROVE  CountInv'
  <2> DEFINE next == cursor[t] + 1
  <2>a. PICK node \in NodesAt(cursor'[t]) : Send([size |-> -1, node |-> node])
    BY <1>3 DEF SendNode
  <2> DEFINE packet == [size |-> -1, node |-> node]
  <2>b. next \in 1..MaxFiles /\ (~torn => next <= length) /\ cursor'[t] = next
    BY <1>0, <1>3 DEF SendNode, TypeOK
  <2>c. node \in [file : 0..MaxFiles, more : BOOLEAN]
    <3>1. CASE torn
      BY <2>b, <3>1 DEF NodesAt
    <3>2. CASE ~torn
      <4>1. PICK number \in 0..MaxFiles, more \in BOOLEAN : node = [file |-> number, more |-> more]
        <5>1. NodesAt(next) =
                {[file |-> IF next = length /\ \E u \in Threads : append[u] = "linked"
                           THEN 0 ELSE next,
                  more |-> next < length]}
          BY <3>2 DEF NodesAt
        <5>2. node = [file |-> IF next = length /\ \E u \in Threads : append[u] = "linked"
                               THEN 0 ELSE next,
                      more |-> next < length]
          BY <2>b, <5>1
        <5>3. (IF next = length /\ \E u \in Threads : append[u] = "linked"
               THEN 0 ELSE next) \in 0..MaxFiles
          BY <1>0, <2>b
        <5>4. (next < length) \in BOOLEAN
          OBVIOUS
        <5> QED
          BY <5>2, <5>3, <5>4
      <4> QED
        BY <4>1
    <3> QED
      BY <3>1, <3>2
  <2>0. packet \in Packet /\ packet.size = -1
    BY <2>c DEF Packet
  <2>1. /\ length' = length /\ torn' = torn /\ append' = append /\ cursor' = [cursor EXCEPT ![t] = next] /\ cursor[t] >= 0
        /\ main' = main /\ left' = left /\ got' = got /\ tables' = tables
        /\ \A u \in Threads : cursor'[u] = IF u = t THEN next ELSE cursor[u]
    BY <1>0, <1>3 DEF SendNode, fileTable, receiver, TypeOK
  <2>2. chan' = Append(chan, packet) /\ Len(chan) < ChanCap
    BY <2>a DEF Send
  <2>3. /\ chan' \in Seq(Packet) /\ Len(chan') = Len(chan) + 1 /\ Len(chan') <= ChanCap
        /\ \A p \in 1..Len(chan) : chan'[p] = chan[p]
        /\ chan'[Len(chan) + 1] = packet
    BY <1>0, <2>0, <2>2
  <2>4. TypeOK'
    <3>1. cursor' \in [Threads -> -1..MaxFiles]
      BY <1>0, <2>b, <2>1 DEF TypeOK
    <3>2. sizes' = sizes /\ overlap' = overlap
      BY <1>3 DEF SendNode
    <3> QED
      BY <1>0, <2>1, <2>3, <3>1, <3>2 DEF TypeOK
  <2>5. Counted' /\ (~torn' => Untorn')
    <3>1. overlap' = overlap
      BY <1>3 DEF SendNode
    <3> QED
      BY <1>0, <2>b, <2>1, <3>1 DEF Counted, Untorn
  <2>6. ASSUME NEW n \in Int, NEW k \in Nat, Follow(n, k, cursor, length)
        PROVE  Follow(n, k + 1, cursor', length')
    <3>1. CASE n <= k
      BY <3>1 DEF Follow
    <3>2. ASSUME NEW u \in Threads, cursor[u] >= 0, n <= k + (length - cursor[u])
          PROVE  Follow(n, k + 1, cursor', length')
      <4>1. cursor[u] \in Int /\ cursor[t] \in Int /\ length' = length /\ length \in Nat
        BY <1>0, <2>1
      <4>2. cursor'[u] = cursor[u] \/ cursor'[u] = cursor[u] + 1
        BY <2>1
      <4>3. cursor'[u] >= 0 /\ n <= (k + 1) + (length' - cursor'[u])
        BY <3>2, <4>1, <4>2
      <4> QED
        BY <4>3 DEF Follow
    <3> QED
      BY <2>6, <3>1, <3>2 DEF Follow
  <2>7. ASSUME main' = "running", ~torn' PROVE Promised'
    <3>1. Promised
      BY <2>1, <2>7 DEF CountInv
    <3>2. Follow(left', Len(chan'), cursor', length')
      <4>1. Follow(left, Len(chan) + 1, cursor', length')
        <5>1. left \in Int /\ Len(chan) \in Nat /\ Follow(left, Len(chan), cursor, length)
          BY <1>0, <3>1 DEF Promised
        <5> QED
          BY <2>6, <5>1
      <4> QED
        BY <2>1, <2>3, <4>1
    <3>3. ASSUME NEW p \in 1..Len(chan)
          PROVE  Follow(chan'[p].size, Len(chan') - p, cursor', length')
      <4>1. Follow(chan[p].size, (Len(chan) - p) + 1, cursor', length')
        <5>1. /\ chan[p].size \in Int /\ Len(chan) - p \in Nat
              /\ Follow(chan[p].size, Len(chan) - p, cursor, length)
          BY <1>0, <3>1 DEF Promised
        <5> QED
          BY <2>6, <5>1
      <4>2. chan'[p] = chan[p] /\ Len(chan') - p = (Len(chan) - p) + 1
        BY <1>0, <2>3
      <4> QED
        BY <4>1, <4>2
    <3>4. Follow(chan'[Len(chan) + 1].size, 0, cursor', length')
      BY <2>0, <2>3 DEF Follow
    <3>5. ASSUME NEW p \in 1..Len(chan')
          PROVE  Follow(chan'[p].size, Len(chan') - p, cursor', length')
      <4>1. CASE p \in 1..Len(chan)
        BY <3>3, <4>1
      <4>2. CASE p = Len(chan) + 1
        BY <1>0, <2>3, <3>4, <4>2
      <4> QED
        BY <1>0, <2>3, <4>1, <4>2
    <3> QED
      BY <3>2, <3>5 DEF Promised
  <2> QED
    BY <2>4, <2>5, <2>7 DEF CountInv
<1>4. ASSUME NEW t \in Threads, SendDone(t)
      PROVE  CountInv'
  <2>1. /\ length' = length /\ torn' = torn /\ append' = append
        /\ chan' = chan /\ main' = main /\ left' = left /\ got' = got
        /\ torn \/ cursor[t] = length
        /\ \A u \in Threads : cursor'[u] = IF u = t THEN -1 ELSE cursor[u]
    BY <1>0, <1>4 DEF SendDone, fileTable, receiver, TypeOK
  <2>2. TypeOK' /\ Counted' /\ (~torn' => Untorn')
    <3>1. /\ tables' = tables /\ sizes' = sizes /\ overlap' = overlap
          /\ cursor' \in [Threads -> -1..MaxFiles]
      BY <1>0, <1>4 DEF SendDone, receiver, TypeOK
    <3>2. ~torn' => Untorn'
      BY <1>0, <2>1 DEF Untorn
    <3> QED
      BY <1>0, <2>1, <3>1, <3>2 DEF TypeOK, Counted
  <2>3. ASSUME NEW n \in Int, NEW k \in Nat, ~torn, Follow(n, k, cursor, length)
        PROVE  Follow(n, k, cursor', length')
    <3>1. CASE n <= k
      BY <3>1 DEF Follow
    <3>2. ASSUME NEW u \in Threads, cursor[u] >= 0, n <= k + (length - cursor[u])
          PROVE  Follow(n, k, cursor', length')
      <4>1. CASE u = t
        <5>1. cursor[u] = length /\ length \in Nat
          BY <1>0, <2>1, <2>3, <4>1
        <5>2. n <= k
          BY <3>2, <5>1
        <5> QED
          BY <5>2 DEF Follow
      <4>2. CASE u # t
        <5>1. cursor'[u] = cursor[u] /\ length' = length
          BY <2>1, <4>2
        <5>2. cursor'[u] >= 0 /\ n <= k + (length' - cursor'[u])
          BY <3>2, <5>1
        <5> QED
          BY <5>2 DEF Follow
      <4> QED
        BY <4>1, <4>2
    <3> QED
      BY <2>3, <3>1, <3>2 DEF Follow
  <2>4. ASSUME main' = "running", ~torn' PROVE Promised'
    <3>1. Follow(left', Len(chan'), cursor', length')
      BY <1>0, <2>1, <2>3, <2>4 DEF CountInv, Promised
    <3>2. ASSUME NEW p \in 1..Len(chan)
          PROVE  Follow(chan'[p].size, Len(chan') - p, cursor', length')
      BY <1>0, <2>1, <2>3, <2>4 DEF CountInv, Promised
    <3> QED
      BY <2>1, <3>1, <3>2 DEF Promised
  <2> QED
    BY <2>2, <2>4 DEF CountInv
<1>5. ASSUME Receive
      PROVE  /\ chan' \in Seq(Packet) /\ Len(chan') = Len(chan) - 1 /\ Len(chan') <= ChanCap
             /\ \A p \in 1..Len(chan') : chan'[p] = chan[p + 1]
             /\ Len(chan) > 0 /\ Head(chan) = chan[1] /\ chan[1] \in Packet
             /\ length' = length /\ torn' = torn /\ append' = append
             /\ cursor' = cursor /\ sizes' = sizes /\ overlap' = overlap
             /\ (~torn' => Untorn')
             /\ ~torn => Promised
             /\ ~torn => \A p \in 1..Len(chan') : Follow(chan'[p].size, Len(chan') - p, cursor', length')
  <2>1. /\ chan # <<>> /\ chan' = Tail(chan) /\ (~torn => Promised)
        /\ length' = length /\ torn' = torn /\ append' = append
        /\ cursor' = cursor /\ sizes' = sizes /\ overlap' = overlap
    BY <1>5 DEF Receive, fileTable, tracker, CountInv
  <2>2. /\ chan' \in Seq(Packet) /\ Len(chan') = Len(chan) - 1 /\ Len(chan') <= ChanCap
        /\ \A p \in 1..Len(chan') : chan'[p] = chan[p + 1]
        /\ Len(chan) > 0 /\ Head(chan) = chan[1] /\ chan[1] \in Packet
    BY <1>0, <2>1 DEF TypeOK
  <2>3. ASSUME ~torn, NEW p \in 1..Len(chan')
        PROVE  Follow(chan'[p].size, Len(chan') - p, cursor', length')
    <3>1. Follow(chan[p + 1].size, Len(chan) - (p + 1), cursor, length)
      <4>1. p + 1 \in 1..Len(chan) /\ Promised
        BY <1>0, <2>1, <2>2, <2>3
      <4> QED
        BY <4>1 DEF Promised
    <3> QED
      BY <1>0, <2>1, <2>2, <3>1 DEF Follow
  <2>4. ~torn' => Untorn'
    BY <1>0, <2>1 DEF Untorn
  <2> QED
    BY <2>1, <2>2, <2>3, <2>4
<1>6. CASE RecvSize
  <2>1. Receive /\ left = 0 /\ main' = main /\ got' = got
    BY <1>6 DEF RecvSize
  <2>2. left' \in 0..MaxFiles /\ (left' = 0 \/ left' = chan[1].size)
    BY <1>0, <1>5, <1>6, <2>1 DEF RecvSize, Packet
  <2>3. tables' \in Seq(Seq(0..MaxFiles))
    <3>1. <<>> \in Seq(0..MaxFiles) /\ tables \in Seq(Seq(0..MaxFiles))
      BY <1>0, EmptySeq DEF TypeOK
    <3>2. tables' = tables \/ tables' = Append(tables, <<>>)
      BY <1>6 DEF RecvSize
    <3> QED
      BY <3>1, <3>2, AppendTable
  <2>4. TypeOK'
    BY <1>0, <1>5, <2>1, <2>2, <2>3 DEF TypeOK
  <2>5. Counted'
    <3>1. got' = <<>> /\ Len(got') = 0
      BY <1>0, <2>1, EmptySeq DEF Counted
    <3>2. left' + Len(got') <= MaxFiles
      BY <2>2, <3>1
    <3>3. torn' => overlap'
      BY <1>0, <1>5, <2>1 DEF Counted
    <3> QED
      BY <3>1, <3>2, <3>3 DEF Counted
  <2>6. ASSUME ~torn' PROVE Promised'
    <3>1. Follow(chan[1].size, Len(chan'), cursor', length')
      <4>1. Follow(chan[1].size, Len(chan) - 1, cursor, length)
        BY <1>0, <1>5, <2>1, <2>6 DEF Promised
      <4> QED
        BY <1>5, <2>1, <4>1
    <3>2. Follow(0, Len(chan'), cursor', length')
      BY <1>5, <2>1 DEF Follow
    <3> QED
      <4>1. /\ ~torn
            /\ \A p \in 1..Len(chan') : Follow(chan'[p].size, Len(chan') - p, cursor', length')
        BY <1>5, <2>1, <2>6
      <4>2. Follow(left', Len(chan'), cursor', length')
        BY <2>2, <3>1, <3>2
      <4> QED
        BY <4>1, <4>2 DEF Promised
  <2> QED
    BY <1>5, <2>1, <2>4, <2>5, <2>6 DEF CountInv
<1>7. CASE RecvNode
  <2> DEFINE number == chan[1].node.file
             list == Append(got, number)
  <2>1. Receive /\ left > 0
    BY <1>7 DEF RecvNode
  <2>2. number \in 0..MaxFiles
    BY <1>5, <2>1, PacketType
  <2>3. list \in Seq(0..MaxFiles) /\ Len(list) = Len(got) + 1
    BY <1>0, <2>2, AppendProperties
  <2>4. \/ left > 1 /\ left' = left - 1 /\ got' = list /\ main' = main /\ tables' = tables
        \/ left = 1 /\ left' = 0 /\ got' = <<>> /\ main' = main /\ tables' = Append(tables, list)
        \/ left' = left /\ got' = got /\ main' = "wildPointer" /\ tables' = tables
    BY <1>5, <1>7, <2>1 DEF RecvNode
  <2>5. tables' \in Seq(Seq(0..MaxFiles))
    <3>1. tables \in Seq(Seq(0..MaxFiles))
      BY <1>0 DEF TypeOK
    <3> QED
      BY <2>3, <2>4, <3>1, AppendTable
  <2>6. TypeOK' /\ Counted'
    <3>1. <<>> \in Seq(0..MaxFiles) /\ Len(<<>>) = 0
      BY EmptySeq
    <3>2. /\ left' \in 0..MaxFiles /\ main' \in {"running", "wildPointer"}
          /\ got' \in Seq(0..MaxFiles) /\ Len(got') <= MaxFiles
          /\ left' + Len(got') <= MaxFiles /\ (left' = 0 => got' = <<>>)
      <4>1. left + Len(got) <= MaxFiles /\ Len(got) <= MaxFiles /\ main \in {"running", "wildPointer"}
        BY <1>0 DEF TypeOK, Counted
      <4>2. CASE left > 1 /\ left' = left - 1 /\ got' = list /\ main' = main
        BY <1>0, <2>3, <4>1, <4>2
      <4>3. CASE left = 1 /\ left' = 0 /\ got' = <<>> /\ main' = main
        BY <1>0, <3>1, <4>1, <4>3
      <4>4. CASE left' = left /\ got' = got /\ main' = "wildPointer"
        BY <1>0, <2>1, <4>1, <4>4
      <4> QED
        BY <2>4, <4>2, <4>3, <4>4
    <3>3. TypeOK'
      BY <1>0, <1>5, <2>1, <2>5, <3>2 DEF TypeOK
    <3> QED
      BY <1>0, <1>5, <2>1, <3>2, <3>3 DEF Counted
  <2>7. ASSUME main' = "running", ~torn' PROVE Promised'
    <3>1. left' = left - 1
      BY <1>0, <2>4, <2>7
    <3>2. Follow(left - 1, Len(chan) - 1, cursor, length)
      <4>1. Follow(left, Len(chan), cursor, length)
        BY <1>5, <2>1, <2>7 DEF Promised
      <4>2. \A u \in Threads : left <= Len(chan) + (length - cursor[u])
                                => left - 1 <= (Len(chan) - 1) + (length - cursor[u])
        BY <1>0
      <4>3. left <= Len(chan) => left - 1 <= Len(chan) - 1
        BY <1>0
      <4> QED
        BY <4>1, <4>2, <4>3 DEF Follow
    <3>3. Follow(left', Len(chan'), cursor', length')
      BY <1>5, <2>1, <3>1, <3>2
    <3> QED
      BY <1>5, <2>1, <2>7, <3>3 DEF Promised
  <2> QED
    BY <1>5, <2>1, <2>6, <2>7 DEF CountInv
<1>8. CASE UNCHANGED vars
  BY <1>0, <1>8
  DEF vars, fileTable, tracker, receiver, CountInv, TypeOK, Counted, Untorn, Promised
<1> QED
  BY <1>1, <1>2, <1>3, <1>4, <1>6, <1>7, <1>8 DEF Next

\* In every reachable state what the peer waits for, and what each size on its way
\* announces, follows in the connection or in some thread's walk.
THEOREM CountInvariance == Spec => []CountInv
<1> QED
  BY CountInit, CountStep, PTL DEF Spec

\* However the packets of several threads are mixed, once all is read the peer's
\* main thread waits for a size.
THEOREM Resynchronisation == Spec => []ReceiverResynchronises
<1>1. CountInv => ReceiverResynchronises
  BY DEF CountInv, ReceiverResynchronises, Quiet, Promised, Follow, TypeOK
<1> QED
  BY <1>1, CountInvariance, PTL
-----------------------------------------------------------------------------
(* Tables that do not overlap arrive as they were sent.                    *)

\* The place of a packet in all that is sent: node 0 is the size of the table.
Place == [table : Nat, node : Nat]

PacketAt(place, announced) ==
  IF place.node = 0
  THEN [size |-> announced[place.table], node |-> NullNode]
  ELSE [size |-> -1,
        node |-> [file |-> place.node, more |-> place.node < announced[place.table]]]

After(place, announced) ==
  IF place.node < announced[place.table]
  THEN [table |-> place.table, node |-> place.node + 1]
  ELSE [table |-> place.table + 1, node |-> 0]

Awaited == [table |-> Len(tables) + 1, node |-> IF left = 0 THEN 0 ELSE Len(got) + 1]

\* The packets on their way have the places at, which follow upon each other from
\* what the receiver waits for to what is sent next.
InOrder(at) ==
  /\ \A i \in 1..Len(chan) :
       /\ at[i].table \in 1..Len(sizes)
       /\ at[i].node \in 0..sizes[at[i].table]
       /\ chan[i] = PacketAt(at[i], sizes)
       /\ at[i + 1] = After(at[i], sizes)
  /\ at[1] = Awaited
  /\ \A t \in Threads :
       cursor[t] >= 0 =>
         at[Len(chan) + 1] = After([table |-> Len(sizes), node |-> cursor[t]], sizes)
  /\ ~Sending => at[Len(chan) + 1] = [table |-> Len(sizes) + 1, node |-> 0]

\* One thread sends a table that is whole and does not grow, and what has arrived is
\* as announced.
OneSender ==
  /\ \A t, u \in Threads : cursor[t] >= 0 /\ cursor[u] >= 0 => t = u
  /\ \A t \in Threads :
       cursor[t] >= 0 => /\ Len(sizes) > 0 /\ sizes[Len(sizes)] = length
                         /\ \A u \in Threads : append[u] # "linked"

Arrived ==
  /\ Len(tables) <= Len(sizes)
  /\ left > 0 => /\ Len(tables) < Len(sizes)
                 /\ left + Len(got) = sizes[Len(tables) + 1]
  /\ \A i \in 1..Len(got) : got[i] = i
  /\ \A k \in 1..Len(tables) : tables[k] = [i \in 1..sizes[k] |-> i]

OneAtATime == main = "running" /\ OneSender /\ Arrived

OrderInv ==
  ~overlap => OneAtATime /\ \E at \in [1..(Len(chan) + 1) -> Place] : InOrder(at)

LEMMA OrderInit == Init => OrderInv
<1> SUFFICES ASSUME Init
             PROVE  OrderInv
  OBVIOUS
<1>1. Len(chan) = 0 /\ Len(tables) = 0 /\ Len(sizes) = 0 /\ Len(got) = 0 /\ left = 0
  BY EmptySeq DEF Init
<1>2. OneAtATime
  BY <1>1 DEF Init, OneAtATime, OneSender, Arrived
<1> DEFINE at == [i \in 1..1 |-> [table |-> 1, node |-> 0]]
<1>3. at \in [1..(Len(chan) + 1) -> Place]
  BY <1>1 DEF Place
<1>4. InOrder(at)
  BY <1>1 DEF Init, InOrder, Awaited, Sending
<1> QED
  BY <1>2, <1>3, <1>4 DEF OrderInv

LEMMA NoMore ==
  ASSUME NEW node, NEW number, NEW end, node = [file |-> number, more |-> number < end], ~(number < end)
  PROVE  ~node.more
BY Zenon

LEMMA Identity ==
  ASSUME NEW S, NEW list \in Seq(S), \A i \in 1..Len(list) : list[i] = i
  PROVE  list = [i \in 1..Len(list) |-> i]
BY LenProperties

LEMMA OrderStep == CountInv /\ OrderInv /\ [Next]_vars => OrderInv'
<1> SUFFICES ASSUME CountInv, OrderInv, [Next]_vars, ~overlap'
             PROVE  OneAtATime' /\ (\E at \in [1..(Len(chan) + 1) -> Place] : InOrder(at))'
  BY DEF OrderInv
<1> USE BoundsAssumption
<1>1. TypeOK /\ Counted
  BY DEF CountInv
<1>2. ~overlap
  <2>1. CASE \E t \in Threads : FindTail(t) \/ LinkNode(t) \/ SendSize(t)
    BY <1>1, <2>1 DEF FindTail, LinkNode, SendSize, TypeOK
  <2>2. CASE \/ \E t \in Threads : FillNode(t) \/ SendNode(t) \/ SendDone(t)
             \/ RecvSize \/ RecvNode \/ UNCHANGED vars
    BY <2>2 DEF FillNode, SendNode, SendDone, RecvSize, RecvNode, Receive, tracker, vars
  <2> QED
    BY <2>1, <2>2 DEF Next
<1>3. PICK at \in [1..(Len(chan) + 1) -> Place] : InOrder(at)
  BY <1>2 DEF OrderInv
<1>4. OneAtATime
  BY <1>2 DEF OrderInv
<1>5. /\ chan \in Seq(Packet) /\ Len(chan) \in Nat /\ length \in Nat /\ left \in Nat
      /\ sizes \in Seq(0..MaxFiles) /\ Len(sizes) \in Nat
      /\ \A k \in 1..Len(sizes) : sizes[k] \in Nat
      /\ tables \in Seq(Seq(0..MaxFiles)) /\ Len(tables) \in Nat
      /\ got \in Seq(0..MaxFiles) /\ Len(got) \in Nat
      /\ cursor \in [Threads -> -1..MaxFiles]
      /\ ~torn /\ Untorn /\ append \in [Threads -> {"no", "tail", "linked"}]
      /\ \A t \in Threads : cursor[t] \in Int /\ cursor[t] >= -1 /\ cursor[t] <= length
  <2>1. \A k \in 1..Len(sizes) : sizes[k] \in 0..MaxFiles
    BY <1>1 DEF TypeOK
  <2> QED
    BY <1>1, <1>2, <2>1 DEF TypeOK, Counted, CountInv, Untorn
<1>6. ASSUME NEW t \in Threads, FindTail(t) \/ LinkNode(t) \/ FillNode(t)
      PROVE  OneAtATime' /\ (\E a \in [1..(Len(chan) + 1) -> Place] : InOrder(a))'
  <2>1. /\ chan' = chan /\ sizes' = sizes /\ cursor' = cursor /\ main' = main
        /\ left' = left /\ got' = got /\ tables' = tables
    BY <1>6 DEF FindTail, LinkNode, FillNode, receiver
  <2>2. OneSender'
    <3>1. CASE LinkNode(t)
      BY <2>1, <3>1 DEF LinkNode, Sending, OneSender
    <3>2. CASE FindTail(t) \/ FillNode(t)
      <4>1. length' = length /\ \E place \in {"tail", "no"} : append' = [append EXCEPT ![t] = place]
        BY <3>2 DEF FindTail, FillNode
      <4>2. \A u \in Threads : append[u] # "linked" => append'[u] # "linked"
        BY <1>5, <4>1
      <4> QED
        BY <1>4, <2>1, <4>1, <4>2 DEF OneAtATime, OneSender
    <3> QED
      BY <1>6, <3>1, <3>2
  <2>3. OneAtATime'
    BY <1>4, <2>1, <2>2 DEF OneAtATime, Arrived
  <2>4. InOrder(at)'
    BY <1>3, <2>1 DEF InOrder, Awaited, Sending
  <2> QED
    BY <1>3, <2>1, <2>3, <2>4
<1>7. ASSUME NEW t \in Threads, SendSize(t)
      PROVE  OneAtATime' /\ (\E a \in [1..(Len(chan) + 1) -> Place] : InOrder(a))'
  <2> DEFINE packet == [size |-> length, node |-> NullNode]
             place == [table |-> Len(sizes) + 1, node |-> 0]
  <2>0. PICK more : more = [i \in 1..(Len(chan) + 2) |->
                              IF i <= Len(chan) + 1 THEN at[i] ELSE After(place, sizes')]
    OBVIOUS
  <2>1. ~Sending /\ \A u \in Threads : append[u] # "linked"
    BY <1>7 DEF SendSize
  <2>2. /\ length' = length /\ append' = append /\ sizes' = Append(sizes, length) /\ main' = main
        /\ left' = left /\ got' = got /\ tables' = tables
        /\ chan' = Append(chan, packet)
        /\ cursor' = [cursor EXCEPT ![t] = 0]
    BY <1>5, <1>7 DEF SendSize, Send, fileTable, receiver
  <2>3. /\ Len(sizes') = Len(sizes) + 1 /\ sizes'[Len(sizes) + 1] = length
        /\ \A k \in 1..Len(sizes) : sizes'[k] = sizes[k]
    BY <1>5, <2>2, AppendProperties DEF TypeOK, CountInv
  <2>4. packet \in Packet
    BY <1>1 DEF Packet, TypeOK
  <2>5. /\ Len(chan') = Len(chan) + 1 /\ chan'[Len(chan) + 1] = packet
        /\ \A i \in 1..Len(chan) : chan'[i] = chan[i]
    BY <1>5, <2>2, <2>4, AppendProperties
  <2>6. \A u \in Threads : cursor'[u] >= 0 => u = t /\ cursor'[u] = 0
    BY <1>5, <2>1, <2>2 DEF Sending
  <2>7. OneAtATime'
    <3>1. \A k \in 1..Len(tables') : tables'[k] = [i \in 1..sizes'[k] |-> i]
      BY <1>4, <1>5, <2>2, <2>3 DEF OneAtATime, OneSender, Arrived
    <3>2. OneSender'
      BY <1>5, <2>1, <2>2, <2>3, <2>6 DEF OneSender
    <3>3. Arrived'
      <4>1. Arrived
        BY <1>4 DEF OneAtATime
      <4>2. Len(tables') <= Len(sizes')
        BY <1>5, <2>2, <2>3, <4>1 DEF Arrived
      <4>3. left' > 0 => /\ Len(tables') < Len(sizes')
                         /\ left' + Len(got') = sizes'[Len(tables') + 1]
        BY <1>5, <2>2, <2>3, <4>1 DEF Arrived
      <4>4. \A i \in 1..Len(got') : got'[i] = i
        BY <2>2, <4>1 DEF Arrived
      <4> QED
        BY <3>1, <4>2, <4>3, <4>4 DEF Arrived
    <3> QED
      BY <1>4, <2>2, <3>2, <3>3 DEF OneAtATime
  <2>8. at[Len(chan) + 1] = place
    BY <1>3, <2>1 DEF InOrder
  <2>9. more \in [1..(Len(chan') + 1) -> Place]
    <3>1. After(place, sizes') \in Place
      BY <1>5, <2>3 DEF After, Place
    <3> QED
      BY <1>3, <1>5, <2>0, <2>5, <3>1
  <2>10. ASSUME NEW i \in 1..Len(chan')
         PROVE  /\ more[i].table \in 1..Len(sizes')
                /\ more[i].node \in 0..sizes'[more[i].table]
                /\ chan'[i] = PacketAt(more[i], sizes')
                /\ more[i + 1] = After(more[i], sizes')
    <3>1. CASE i \in 1..Len(chan)
      <4>1. /\ at[i].table \in 1..Len(sizes) /\ at[i].node \in 0..sizes[at[i].table]
            /\ chan[i] = PacketAt(at[i], sizes) /\ at[i + 1] = After(at[i], sizes)
        BY <1>3, <3>1 DEF InOrder
      <4>0. \A k \in 1..Len(sizes) : sizes'[k] = sizes[k] /\ k \in 1..Len(sizes')
        BY <1>5, <2>3
      <4>2. sizes'[at[i].table] = sizes[at[i].table] /\ at[i].table \in 1..Len(sizes')
        BY <4>0, <4>1
      <4>3. PacketAt(at[i], sizes') = PacketAt(at[i], sizes) /\ After(at[i], sizes') = After(at[i], sizes)
        BY <4>2 DEF PacketAt, After
      <4>4. more[i] = at[i] /\ more[i + 1] = at[i + 1] /\ chan'[i] = chan[i]
        BY <1>5, <2>0, <2>5, <3>1
      <4> QED
        BY <4>1, <4>2, <4>3, <4>4
    <3>2. CASE i = Len(chan) + 1
      <4>1. more[i] = place /\ more[i + 1] = After(place, sizes') /\ chan'[i] = packet
        BY <1>5, <2>0, <2>5, <2>8, <3>2
      <4>2. place.table = Len(sizes) + 1 /\ place.node = 0
        OBVIOUS
      <4>3. PacketAt(place, sizes') = packet
        BY <2>3, <4>2 DEF PacketAt
      <4> QED
        BY <1>5, <2>3, <4>1, <4>2, <4>3
    <3>3. i \in 1..Len(chan) \/ i = Len(chan) + 1
      <4>1. Len(chan) \in Nat /\ Len(chan') = Len(chan) + 1
        BY <1>5, <2>5
      <4> QED
        BY <4>1
    <3> QED
      BY <3>1, <3>2, <3>3
  <2>11. InOrder(more)'
    <3>1. more[1] = Awaited'
      <4>1. more[1] = at[1] /\ Awaited' = Awaited
        BY <1>5, <2>0, <2>2 DEF Awaited
      <4> QED
        BY <1>3, <4>1 DEF InOrder
    <3>2. ASSUME NEW u \in Threads, cursor'[u] >= 0
          PROVE  more[Len(chan') + 1] = After([table |-> Len(sizes'), node |-> cursor'[u]], sizes')
      BY <1>5, <2>0, <2>3, <2>5, <2>6, <3>2
    <3>3. Sending'
      BY <1>5, <2>2 DEF Sending
    <3> QED
      BY <2>10, <3>1, <3>2, <3>3 DEF InOrder
  <2> QED
    BY <2>7, <2>9, <2>11
<1>8. ASSUME NEW t \in Threads, SendNode(t)
      PROVE  OneAtATime' /\ (\E a \in [1..(Len(chan) + 1) -> Place] : InOrder(a))'
  <2> DEFINE next == cursor[t] + 1
             packet == [size |-> -1, node |-> [file |-> next, more |-> next < length]]
             place == [table |-> Len(sizes), node |-> next]
  <2>0. PICK more : more = [i \in 1..(Len(chan) + 2) |->
                              IF i <= Len(chan) + 1 THEN at[i] ELSE After(place, sizes)]
    OBVIOUS
  <2>a. cursor'[t] = next /\ \A u \in Threads : append[u] # "linked"
    BY <1>4, <1>5, <1>8 DEF SendNode, OneAtATime, OneSender
  <2>1. /\ length' = length /\ append' = append /\ sizes' = sizes /\ main' = main
        /\ left' = left /\ got' = got /\ tables' = tables
        /\ cursor[t] >= 0 /\ next <= length /\ next \in 1..MaxFiles
        /\ cursor' = [cursor EXCEPT ![t] = next]
        /\ chan' = Append(chan, packet)
    <3>1. NodesAt(next) = {[file |-> next, more |-> next < length]}
      BY <1>5, <2>a DEF NodesAt
    <3>2. \E node \in NodesAt(next) : Send([size |-> -1, node |-> node])
      BY <1>8, <2>a DEF SendNode
    <3>3. chan' = Append(chan, packet)
      BY <3>1, <3>2 DEF Send
    <3> QED
      BY <1>1, <1>5, <1>8, <3>3 DEF SendNode, fileTable, receiver, TypeOK
  <2>2. packet \in Packet
    BY <2>1 DEF Packet
  <2>3. /\ Len(chan') = Len(chan) + 1 /\ chan'[Len(chan) + 1] = packet
        /\ \A i \in 1..Len(chan) : chan'[i] = chan[i]
    BY <1>5, <2>1, <2>2, AppendProperties
  <2>11. /\ Len(chan) \in Nat /\ Len(chan') = Len(chan) + 1
         /\ \A i \in 1..Len(chan) : chan'[i] = chan[i]
    BY <1>5, <2>3
  <2>4. /\ Len(sizes) > 0 /\ sizes[Len(sizes)] = length
        /\ \A u \in Threads : u # t => ~(cursor[u] >= 0)
    BY <1>4, <2>1 DEF OneAtATime, OneSender, Arrived
  <2>5. \A u \in Threads : cursor'[u] >= 0 => u = t /\ cursor'[u] = next
    BY <1>5, <2>1, <2>4
  <2>6. OneAtATime'
    BY <1>4, <1>5, <2>1, <2>4, <2>5 DEF OneAtATime, OneSender, Arrived
  <2>7. at[Len(chan) + 1] = place
    <3>1. at[Len(chan) + 1] = After([table |-> Len(sizes), node |-> cursor[t]], sizes)
      BY <1>3, <2>1 DEF InOrder
    <3> QED
      BY <1>5, <2>1, <2>4, <3>1 DEF After
  <2>8. more \in [1..(Len(chan') + 1) -> Place]
    <3>1. After(place, sizes) \in Place
      BY <1>5, <2>1 DEF After, Place
    <3> QED
      BY <1>3, <1>5, <2>0, <2>3, <3>1
  <2>9. ASSUME NEW i \in 1..Len(chan')
        PROVE  /\ more[i].table \in 1..Len(sizes')
               /\ more[i].node \in 0..sizes'[more[i].table]
               /\ chan'[i] = PacketAt(more[i], sizes')
               /\ more[i + 1] = After(more[i], sizes')
    <3>1. CASE i \in 1..Len(chan)
      <4>1. /\ at[i].table \in 1..Len(sizes) /\ at[i].node \in 0..sizes[at[i].table]
            /\ chan[i] = PacketAt(at[i], sizes) /\ at[i + 1] = After(at[i], sizes)
        BY <1>3, <3>1 DEF InOrder
      <4>2. more[i] = at[i] /\ more[i + 1] = at[i + 1] /\ chan'[i] = chan[i]
        BY <2>0, <2>11, <3>1
      <4> QED
        BY <2>1, <4>1, <4>2
    <3>2. CASE i = Len(chan) + 1
      <4>1. more[i] = place /\ more[i + 1] = After(place, sizes) /\ chan'[i] = packet
        BY <1>5, <2>0, <2>3, <2>7, <3>2
      <4>2. place.table = Len(sizes) /\ place.node = next
        OBVIOUS
      <4>3. PacketAt(place, sizes) = packet
        BY <1>5, <2>1, <2>4, <4>2 DEF PacketAt
      <4>4. Len(sizes) \in 1..Len(sizes) /\ next \in 0..sizes[Len(sizes)] /\ sizes' = sizes
        BY <1>5, <2>1, <2>4
      <4> QED
        BY <4>1, <4>2, <4>3, <4>4
    <3>3. i \in 1..Len(chan) \/ i = Len(chan) + 1
      BY <2>11
    <3> QED
      BY <3>1, <3>2, <3>3
  <2>10. InOrder(more)'
    <3>1. more[1] = Awaited'
      <4>1. more[1] = at[1] /\ Awaited' = Awaited
        BY <1>5, <2>0, <2>1 DEF Awaited
      <4> QED
        BY <1>3, <4>1 DEF InOrder
    <3>2. ASSUME NEW u \in Threads, cursor'[u] >= 0
          PROVE  more[Len(chan') + 1] = After([table |-> Len(sizes'), node |-> cursor'[u]], sizes')
      <4>1. sizes' = sizes /\ [table |-> Len(sizes'), node |-> cursor'[u]] = place
        BY <2>1, <2>5, <3>2
      <4>2. more[Len(chan') + 1] = After(place, sizes)
        BY <2>0, <2>11
      <4> QED
        BY <4>1, <4>2
    <3>3. Sending'
      BY <1>5, <2>1 DEF Sending
    <3> QED
      BY <2>9, <3>1, <3>2, <3>3 DEF InOrder
  <2> QED
    BY <2>6, <2>8, <2>10
<1>9. ASSUME NEW t \in Threads, SendDone(t)
      PROVE  OneAtATime' /\ (\E a \in [1..(Len(chan) + 1) -> Place] : InOrder(a))'
  <2>1. /\ length' = length /\ append' = append /\ sizes' = sizes /\ main' = main
        /\ chan' = chan
        /\ left' = left /\ got' = got /\ tables' = tables
        /\ cursor[t] = length
        /\ cursor' = [cursor EXCEPT ![t] = -1]
    BY <1>5, <1>9 DEF SendDone, fileTable, receiver
  <2>2. /\ Len(sizes) > 0 /\ sizes[Len(sizes)] = length
        /\ \A u \in Threads : u # t => ~(cursor[u] >= 0)
    BY <1>4, <1>5, <2>1 DEF OneAtATime, OneSender, Arrived
  <2>3. \A u \in Threads : ~(cursor'[u] >= 0)
    BY <1>5, <2>1, <2>2
  <2>4. OneAtATime'
    BY <1>4, <2>1, <2>3 DEF OneAtATime, OneSender, Arrived
  <2>5. at[Len(chan) + 1] = [table |-> Len(sizes) + 1, node |-> 0]
    <3>1. at[Len(chan) + 1] = After([table |-> Len(sizes), node |-> cursor[t]], sizes)
      BY <1>3, <1>5, <2>1 DEF InOrder
    <3> QED
      BY <1>5, <2>1, <2>2, <3>1 DEF After
  <2>6. Awaited' = Awaited
    BY <2>1 DEF Awaited
  <2>7. InOrder(at)'
    BY <1>3, <2>1, <2>3, <2>5, <2>6 DEF InOrder
  <2> QED
    BY <1>3, <2>1, <2>4, <2>7
<1>10. ASSUME Receive
       PROVE  /\ Len(chan) > 0 /\ Head(chan) = chan[1] /\ Len(chan') = Len(chan) - 1
              /\ \A i \in 1..Len(chan') : chan'[i] = chan[i + 1]
              /\ sizes' = sizes /\ OneSender'
              /\ Awaited.table \in 1..Len(sizes) /\ Awaited.node \in 0..sizes[Awaited.table]
              /\ chan[1] = PacketAt(Awaited, sizes)
              /\ Awaited' = After(Awaited, sizes) =>
                   (\E a \in [1..(Len(chan) + 1) -> Place] : InOrder(a))'
  <2>1. /\ Len(chan) > 0 /\ Head(chan) = chan[1] /\ Len(chan') = Len(chan) - 1
        /\ \A i \in 1..Len(chan') : chan'[i] = chan[i + 1]
        /\ sizes' = sizes /\ cursor' = cursor /\ length' = length /\ append' = append
    BY <1>5, <1>10 DEF Receive, fileTable, tracker
  <2>2. /\ at[1].table \in 1..Len(sizes) /\ at[1].node \in 0..sizes[at[1].table]
        /\ chan[1] = PacketAt(at[1], sizes) /\ at[2] = After(at[1], sizes)
        /\ at[1] = Awaited
    <3>1. 1 \in 1..Len(chan) /\ 1 + 1 = 2
      BY <1>5, <2>1
    <3>2. /\ at[1].table \in 1..Len(sizes) /\ at[1].node \in 0..sizes[at[1].table]
          /\ chan[1] = PacketAt(at[1], sizes) /\ at[1 + 1] = After(at[1], sizes)
      BY <1>3, <3>1 DEF InOrder
    <3> QED
      BY <1>3, <3>1, <3>2 DEF InOrder
  <2>3. PICK rest : rest = [i \in 1..Len(chan) |-> at[i + 1]]
    OBVIOUS
  <2>4. rest \in [1..(Len(chan') + 1) -> Place]
    BY <1>3, <1>5, <2>1, <2>3
  <2>5. ASSUME NEW i \in 1..Len(chan')
        PROVE  /\ rest[i].table \in 1..Len(sizes')
               /\ rest[i].node \in 0..sizes'[rest[i].table]
               /\ chan'[i] = PacketAt(rest[i], sizes')
               /\ rest[i + 1] = After(rest[i], sizes')
    <3>1. i + 1 \in 1..Len(chan) /\ rest[i] = at[i + 1] /\ rest[i + 1] = at[(i + 1) + 1]
      BY <1>5, <2>1, <2>3
    <3> DEFINE j == i + 1
    <3>2. /\ at[j].table \in 1..Len(sizes) /\ at[j].node \in 0..sizes[at[j].table]
          /\ chan[j] = PacketAt(at[j], sizes) /\ at[j + 1] = After(at[j], sizes)
      BY <1>3, <3>1 DEF InOrder
    <3> QED
      BY <2>1, <3>1, <3>2
  <2>6. ASSUME Awaited' = After(Awaited, sizes)
        PROVE  InOrder(rest)'
    <3>1. rest[1] = Awaited'
      BY <1>5, <2>1, <2>2, <2>3, <2>6
    <3>2. rest[Len(chan') + 1] = at[Len(chan) + 1]
      BY <1>5, <2>1, <2>3
    <3>3. Sending' = Sending
      BY <2>1 DEF Sending
    <3> QED
      BY <1>3, <2>1, <2>5, <3>1, <3>2, <3>3 DEF InOrder
  <2>7. OneSender'
    BY <1>4, <2>1 DEF OneAtATime, OneSender
  <2> QED
    BY <2>1, <2>2, <2>4, <2>6, <2>7
<1>11. CASE RecvSize
  <2>1. Receive /\ left = 0 /\ main' = main /\ got' = got
    BY <1>11 DEF RecvSize
  <2>2. Awaited = [table |-> Len(tables) + 1, node |-> 0]
    BY <2>1 DEF Awaited
  <2>3. chan[1].size = sizes[Len(tables) + 1] /\ Len(tables) + 1 \in 1..Len(sizes)
    BY <1>10, <2>1, <2>2 DEF PacketAt
  <2>4. got = <<>> /\ Len(got) = 0
    BY <1>1, <2>1, EmptySeq DEF Counted
  <2>5. CASE chan[1].size > 0
    <3>1. left' = chan[1].size /\ tables' = tables
      BY <1>10, <1>11, <2>1, <2>5 DEF RecvSize
    <3>2. OneAtATime'
      <4>1. Arrived'
        <5>1. Arrived /\ sizes' = sizes /\ tables' = tables
          BY <1>4, <1>10, <2>1, <3>1 DEF OneAtATime
        <5>2. Len(tables') < Len(sizes')
          BY <1>5, <2>3, <5>1
        <5>3. left' + Len(got') = sizes'[Len(tables') + 1]
          <6>1. left' = sizes[Len(tables) + 1] /\ left' \in Int
            BY <2>3, <2>5, <3>1, <1>5
          <6>2. Len(got') = 0
            BY <2>1, <2>4
          <6> QED
            BY <5>1, <6>1, <6>2
        <5>4. \A i \in 1..Len(got') : got'[i] = i
          BY <2>1, <2>4
        <5>5. /\ Len(tables') <= Len(sizes')
              /\ \A k \in 1..Len(tables') : tables'[k] = [i \in 1..sizes'[k] |-> i]
          BY <5>1 DEF Arrived
        <5> QED
          BY <5>2, <5>3, <5>4, <5>5 DEF Arrived
      <4> QED
        BY <1>4, <1>10, <2>1, <4>1, <3>1 DEF OneAtATime
    <3>3. Awaited' = After(Awaited, sizes)
      BY <1>5, <2>1, <2>2, <2>3, <2>4, <2>5, <3>1 DEF Awaited, After
    <3> QED
      BY <1>10, <2>1, <3>2, <3>3
  <2>6. CASE ~(chan[1].size > 0)
    <3>1. left' = 0 /\ tables' = Append(tables, <<>>)
      BY <1>10, <1>11, <2>1, <2>6 DEF RecvSize
    <3>2. /\ Len(tables') = Len(tables) + 1 /\ tables'[Len(tables) + 1] = <<>>
          /\ \A k \in 1..Len(tables) : tables'[k] = tables[k]
      <4>1. <<>> \in Seq(0..MaxFiles)
        BY EmptySeq
      <4> QED
        BY <1>5, <3>1, <4>1, AppendTable
    <3>3. sizes[Len(tables) + 1] = 0
      BY <1>5, <2>3, <2>6
    <3>4. <<>> = [i \in 1..0 |-> i]
      OBVIOUS
    <3>5. ASSUME NEW k \in 1..Len(tables')
          PROVE  tables'[k] = [i \in 1..sizes'[k] |-> i]
      <4>1. CASE k \in 1..Len(tables)
        BY <1>4, <1>10, <2>1, <3>2, <4>1 DEF OneAtATime, OneSender, Arrived
      <4>2. CASE k = Len(tables) + 1
        BY <1>10, <2>1, <3>2, <3>3, <3>4, <4>2
      <4>0. Len(tables) \in Nat /\ Len(tables') = Len(tables) + 1
        BY <1>5, <3>2
      <4>3. k \in 1..Len(tables) \/ k = Len(tables) + 1
        BY <4>0
      <4> QED
        BY <4>1, <4>2, <4>3
    <3>6. OneAtATime'
      <4>1. Arrived'
        <5>1. Arrived /\ sizes' = sizes /\ left' = 0
          BY <1>4, <1>10, <2>1, <3>1 DEF OneAtATime
        <5>2. Len(tables') <= Len(sizes')
          BY <1>5, <2>3, <3>2, <5>1
        <5>3. \A i \in 1..Len(got') : got'[i] = i
          BY <2>1, <2>4
        <5> QED
          BY <3>5, <5>1, <5>2, <5>3 DEF Arrived
      <4> QED
        BY <1>4, <1>10, <2>1, <4>1, <3>1 DEF OneAtATime
    <3>7. Awaited' = After(Awaited, sizes)
      BY <1>5, <2>1, <2>2, <3>1, <3>2, <3>3 DEF Awaited, After
    <3> QED
      BY <1>10, <2>1, <3>6, <3>7
  <2> QED
    BY <2>5, <2>6
<1>12. CASE RecvNode
  <2> DEFINE k == Len(tables) + 1
             n == Len(got) + 1
             list == Append(got, n)
  <2>1. Receive /\ left > 0
    BY <1>12 DEF RecvNode
  <2>2. Awaited = [table |-> k, node |-> n]
    BY <2>1 DEF Awaited
  <2>3. k \in 1..Len(sizes) /\ left + Len(got) = sizes[k] /\ Len(tables) < Len(sizes)
    BY <1>4, <1>5, <2>1 DEF OneAtATime, OneSender, Arrived
  <2>4. chan[1].node = [file |-> n, more |-> n < sizes[k]]
    BY <1>5, <1>10, <2>1, <2>2 DEF PacketAt
  <2>5. n \in 0..MaxFiles
    BY <1>1, <1>5, <2>1, <2>3 DEF TypeOK
  <2>6. /\ list \in Seq(0..MaxFiles) /\ Len(list) = n
        /\ \A i \in 1..Len(list) : list[i] = i
    BY <1>4, <1>5, <2>5, AppendProperties DEF OneAtATime, OneSender, Arrived
  <2>7. CASE left > 1
    <3>1. left' = left - 1 /\ got' = list /\ main' = main /\ tables' = tables
      BY <1>10, <1>12, <2>1, <2>4, <2>7 DEF RecvNode
    <3>2. OneAtATime'
      <4>1. Arrived'
        <5>1. Len(got') = Len(got) + 1 /\ (\A i \in 1..Len(got') : got'[i] = i)
          BY <2>6, <3>1
        <5>2. sizes' = sizes /\ left' + Len(got') = left + Len(got)
          BY <1>5, <1>10, <2>1, <3>1, <5>1
        <5> QED
          BY <1>4, <2>3, <3>1, <5>1, <5>2 DEF OneAtATime, Arrived
      <4> QED
        BY <1>4, <1>10, <2>1, <4>1, <3>1 DEF OneAtATime
    <3>3. Awaited' = After(Awaited, sizes)
      BY <1>5, <2>2, <2>3, <2>6, <2>7, <3>1 DEF Awaited, After
    <3> QED
      BY <1>10, <2>1, <3>2, <3>3
  <2>8. CASE left = 1
    <3>0. n = sizes[k] /\ ~chan[1].node.more /\ chan[1].node.file = n
      <4>1. n = sizes[k] /\ ~(n < sizes[k])
        BY <1>5, <2>3, <2>8
      <4>2. chan[1].node.file = n
        BY <2>4
      <4>3. ~chan[1].node.more
        BY <2>4, <4>1, NoMore
      <4> QED
        BY <4>1, <4>2, <4>3
    <3>1. left' = 0 /\ got' = <<>> /\ main' = main /\ tables' = Append(tables, list)
      BY <1>10, <1>12, <2>1, <2>8, <3>0 DEF RecvNode
    <3>2. /\ Len(tables') = Len(tables) + 1 /\ tables'[Len(tables) + 1] = list
          /\ \A i \in 1..Len(tables) : tables'[i] = tables[i]
      BY <1>5, <2>6, <3>1, AppendTable
    <3>3. list = [i \in 1..sizes[k] |-> i]
      BY <2>6, <3>0, Identity
    <3>4. ASSUME NEW j \in 1..Len(tables')
          PROVE  tables'[j] = [i \in 1..sizes'[j] |-> i]
      <4>1. CASE j \in 1..Len(tables)
        BY <1>4, <1>10, <2>1, <3>2, <4>1 DEF OneAtATime, OneSender, Arrived
      <4>2. CASE j = Len(tables) + 1
        BY <1>10, <2>1, <3>2, <3>3, <4>2
      <4>3. Len(tables) \in Nat /\ Len(tables') = Len(tables) + 1
        BY <1>5, <3>2
      <4>4. j \in 1..Len(tables) \/ j = Len(tables) + 1
        BY <4>3
      <4> QED
        BY <4>1, <4>2, <4>4
    <3>5. Len(got') = 0
      BY <3>1, EmptySeq
    <3>6. OneAtATime'
      <4>1. Arrived'
        <5>1. Len(tables') <= Len(sizes') /\ sizes' = sizes
          BY <1>5, <1>10, <2>1, <2>3, <3>2
        <5>2. ~(left' > 0) /\ (\A i \in 1..Len(got') : got'[i] = i)
          BY <3>1, <3>5
        <5> QED
          BY <3>4, <5>1, <5>2 DEF Arrived
      <4> QED
        BY <1>4, <1>10, <2>1, <4>1, <3>1 DEF OneAtATime
    <3>7. Awaited' = After(Awaited, sizes)
      BY <1>5, <2>2, <3>0, <3>1, <3>2 DEF Awaited, After
    <3> QED
      BY <1>10, <2>1, <3>6, <3>7
  <2> QED
    BY <1>5, <2>1, <2>7, <2>8
<1>13. CASE UNCHANGED vars
  <2>1. OneAtATime' /\ InOrder(at)' /\ chan' = chan
    BY <1>3, <1>4, <1>13
    DEF vars, fileTable, tracker, receiver, OneAtATime, OneSender, Arrived, InOrder, Awaited, Sending
  <2> QED
    BY <1>3, <2>1
<1> QED
  BY <1>6, <1>7, <1>8, <1>9, <1>11, <1>12, <1>13 DEF Next

\* Without overlaps, each table arrives whole, in its turn, and as it was announced.
THEOREM WholeTables == Spec => []WholeUnlessOverlap
<1>1. Init => CountInv /\ OrderInv
  BY CountInit, OrderInit
<1>2. (CountInv /\ OrderInv) /\ [Next]_vars => (CountInv /\ OrderInv)'
  BY CountStep, OrderStep
<1>3. OrderInv => WholeUnlessOverlap
  BY DEF OrderInv, OneAtATime, OneSender, Arrived, WholeUnlessOverlap
<1> QED
  BY <1>1, <1>2, <1>3, PTL DEF Spec

-----------------------------------------------------------------------------
(* Pieces.  Numbers.                                                       *)

LEMMA LeastNumber ==
  ASSUME NEW T \in SUBSET Nat, T # {}
  PROVE  \E m \in T : \A k \in T : m <= k
<1> DEFINE R == OpToRel(<, Nat)
<1>1. IsWellFoundedOn(R, Nat)
  BY NatLessThanWellFounded
<1>2. \A x, y \in Nat : x < y => <<x, y>> \in R
  BY DEF OpToRel
<1> HIDE DEF R
<1>3. PICK m \in T : \A k \in T : ~(<<k, m>> \in R)
  BY <1>1, WFMin
<1>4. ASSUME NEW k \in T PROVE m <= k
  <2>1. k \in Nat /\ m \in Nat
    OBVIOUS
  <2>2. ~(k < m)
    BY <1>2, <1>3, <2>1
  <2> QED
    BY <2>1, <2>2
<1> QED
  BY <1>4

LEMMA PacketStarts ==
  /\ \A i \in Nat : i * MAX_DATA_LEN \in Nat
  /\ \A i \in Nat : (i + 1) * MAX_DATA_LEN = i * MAX_DATA_LEN + MAX_DATA_LEN
  /\ \A h, i \in Nat : h < i => h * MAX_DATA_LEN + MAX_DATA_LEN <= i * MAX_DATA_LEN
<1>1. MAX_DATA_LEN \in Nat \ {0}
  BY MaxDataLenAssumption
<1>2. \A i \in Nat : i * MAX_DATA_LEN \in Nat
  BY <1>1
<1>3. \A i \in Nat : (i + 1) * MAX_DATA_LEN = i * MAX_DATA_LEN + MAX_DATA_LEN
  BY <1>1
<1>4. ASSUME NEW h \in Nat, NEW i \in Nat, h < i
      PROVE  h * MAX_DATA_LEN + MAX_DATA_LEN <= i * MAX_DATA_LEN
  <2>1. PICK d \in Nat : i = h + 1 + d
    <3>1. i - h - 1 \in Nat /\ i = h + 1 + (i - h - 1)
      BY <1>4
    <3> QED
      BY <3>1
  <2>2. (h + 1 + d) * MAX_DATA_LEN = h * MAX_DATA_LEN + MAX_DATA_LEN + d * MAX_DATA_LEN
    BY <1>1
  <2>3. d * MAX_DATA_LEN \in Nat /\ h * MAX_DATA_LEN \in Nat
    BY <1>2
  <2> QED
    BY <1>1, <2>1, <2>2, <2>3
<1> QED
  BY <1>2, <1>3, <1>4

LEMMA Division ==
  ASSUME NEW n \in Nat
  PROVE  /\ n \div MAX_DATA_LEN \in Nat
         /\ n % MAX_DATA_LEN \in Nat /\ n % MAX_DATA_LEN < MAX_DATA_LEN
         /\ n = (n \div MAX_DATA_LEN) * MAX_DATA_LEN + (n % MAX_DATA_LEN)
<1>1. MAX_DATA_LEN \in Nat \ {0}
  BY MaxDataLenAssumption
<1>2. n \div MAX_DATA_LEN \in Nat /\ n % MAX_DATA_LEN \in 0..(MAX_DATA_LEN - 1)
  BY <1>1
<1>3. n = MAX_DATA_LEN * (n \div MAX_DATA_LEN) + (n % MAX_DATA_LEN)
  BY <1>1
<1>4. MAX_DATA_LEN * (n \div MAX_DATA_LEN) = (n \div MAX_DATA_LEN) * MAX_DATA_LEN
  BY <1>1, <1>2
<1> QED
  BY <1>1, <1>2, <1>3, <1>4

\* The packets of a piece cover it, and each of them has a byte of it.
LEMMA PacketsCover ==
  ASSUME NEW size \in Nat
  PROVE  /\ PktCount(size) \in Nat
         /\ size <= PktCount(size) * MAX_DATA_LEN
         /\ \A i \in Nat : i < PktCount(size) => i * MAX_DATA_LEN < size
<1>0. /\ size \div MAX_DATA_LEN \in Nat
      /\ size % MAX_DATA_LEN \in Nat /\ size % MAX_DATA_LEN < MAX_DATA_LEN
      /\ size = (size \div MAX_DATA_LEN) * MAX_DATA_LEN + (size % MAX_DATA_LEN)
  BY Division
<1>1. PICK q \in Nat, r \in Nat : /\ q = size \div MAX_DATA_LEN /\ r = size % MAX_DATA_LEN
                                  /\ r < MAX_DATA_LEN /\ size = q * MAX_DATA_LEN + r
  BY <1>0, Zenon
<1>2. PktCount(size) = q + IF r > 0 THEN 1 ELSE 0
  BY <1>1 DEF PktCount
<1>3. MAX_DATA_LEN \in Nat \ {0} /\ q * MAX_DATA_LEN \in Nat
  BY MaxDataLenAssumption, PacketStarts
<1>4. CASE r > 0
  <2>1. PktCount(size) = q + 1 /\ (q + 1) * MAX_DATA_LEN = q * MAX_DATA_LEN + MAX_DATA_LEN
    BY <1>2, <1>4, PacketStarts
  <2>2. size <= PktCount(size) * MAX_DATA_LEN
    BY <1>1, <1>3, <2>1
  <2>3. ASSUME NEW i \in Nat, i < PktCount(size)
        PROVE  i * MAX_DATA_LEN < size
    <3>1. i = q \/ i < q
      BY <2>1, <2>3
    <3>2. i * MAX_DATA_LEN \in Nat /\ (i < q => i * MAX_DATA_LEN + MAX_DATA_LEN <= q * MAX_DATA_LEN)
      BY PacketStarts
    <3> QED
      BY <1>1, <1>3, <1>4, <3>1, <3>2
  <2> QED
    BY <2>1, <2>2, <2>3
<1>5. CASE ~(r > 0)
  <2>1. PktCount(size) = q /\ size = q * MAX_DATA_LEN
    BY <1>1, <1>2, <1>3, <1>5
  <2>2. ASSUME NEW i \in Nat, i < PktCount(size)
        PROVE  i * MAX_DATA_LEN < size
    <3>1. i * MAX_DATA_LEN \in Nat /\ i * MAX_DATA_LEN + MAX_DATA_LEN <= q * MAX_DATA_LEN
      BY <2>1, <2>2, PacketStarts
    <3> QED
      BY <1>3, <2>1, <3>1
  <2> QED
    BY <1>3, <2>1, <2>2
<1> QED
  BY <1>4, <1>5

-----------------------------------------------------------------------------
(* Packets.                                                                *)

LEMMA FirstNul ==
  ASSUME NEW s \in Seq(Bytes), HasNul(s)
  PROVE  /\ NulAt(s) \in 1..Len(s) /\ s[NulAt(s)] = NUL
         /\ \A j \in 1..(NulAt(s) - 1) : s[j] # NUL
<1> DEFINE T == {i \in 1..Len(s) : s[i] = NUL}
<1>1. T \in SUBSET Nat /\ T # {}
  BY DEF HasNul
<1>2. PICK m \in T : \A k \in T : m <= k
  BY <1>1, LeastNumber
<1>3. m \in 1..Len(s) /\ s[m] = NUL /\ \A j \in 1..(m - 1) : s[j] # NUL
  <2>1. m \in 1..Len(s) /\ s[m] = NUL
    OBVIOUS
  <2>2. ASSUME NEW j \in 1..(m - 1) PROVE s[j] # NUL
    <3>1. j \in 1..Len(s) /\ ~(m <= j)
      BY <2>1
    <3> QED
      BY <1>2, <3>1
  <2> QED
    BY <2>1, <2>2
<1> QED
  BY <1>3 DEF NulAt

\* What follows a NUL byte in a packet is NUL.
LEMMA Copied ==
  ASSUME NEW s \in Seq(Bytes)
  PROVE  /\ Strncpy(s) \in Seq(Bytes) /\ Len(Strncpy(s)) = Len(s)
         /\ \A k \in 1..Len(s) : Strncpy(s)[k] = IF HasNul(s) /\ k > NulAt(s) THEN NUL ELSE s[k]
<1>1. Len(s) \in Nat /\ \A k \in 1..Len(s) : s[k] \in Bytes
  OBVIOUS
<1>2. Strncpy(s) \in [1..Len(s) -> Bytes]
  BY <1>1 DEF Strncpy, Bytes, NUL
<1>3. Strncpy(s) \in Seq(Bytes) /\ Len(Strncpy(s)) = Len(s)
  BY <1>1, <1>2
<1> QED
  BY <1>3 DEF Strncpy

\* The string that comes of a packet is right as far as it is within the packet, and
\* ends before a NUL byte or with the packet and what lies behind it.
LEMMA Unpacked ==
  ASSUME NEW s \in Seq(Bytes), NEW string \in CStrings(Strncpy(s))
  PROVE  /\ string \in Seq(Bytes)
         /\ \A k \in 1..Len(s) : k <= Len(string) => string[k] = s[k]
         /\ \A k \in 1..Len(s) : k > Len(string) => \E t \in 1..k : s[t] = NUL
         /\ Len(string) > Len(s) => ~HasNul(s) /\ Len(string) <= Len(s) + MaxJunk
<1> DEFINE copy == Strncpy(s)
<1>1. /\ copy \in Seq(Bytes) /\ Len(copy) = Len(s) /\ Len(s) \in Nat
      /\ \A k \in 1..Len(s) : copy[k] = IF HasNul(s) /\ k > NulAt(s) THEN NUL ELSE s[k]
  BY Copied
<1> HIDE DEF copy
<1>2. string \in CStrings(copy)
  BY DEF copy
<1>3. HasNul(copy) <=> HasNul(s)
  <2>1. ASSUME HasNul(s) PROVE HasNul(copy)
    <3>1. NulAt(s) \in 1..Len(s) /\ s[NulAt(s)] = NUL
      BY <2>1, FirstNul
    <3>2. copy[NulAt(s)] = NUL
      BY <1>1, <3>1
    <3> QED
      BY <1>1, <3>1, <3>2 DEF HasNul
  <2>2. ASSUME ~HasNul(s) PROVE ~HasNul(copy)
    BY <1>1, <2>2 DEF HasNul
  <2> QED
    BY <2>1, <2>2
<1>4. CASE HasNul(s)
  <2>1. /\ NulAt(s) \in 1..Len(s) /\ s[NulAt(s)] = NUL
    BY <1>4, FirstNul
  <2>2. /\ NulAt(copy) \in 1..Len(s)
        /\ \A j \in 1..(NulAt(copy) - 1) : copy[j] # NUL
        /\ copy[NulAt(copy)] = NUL
    BY <1>1, <1>3, <1>4, FirstNul
  <2>3. PICK n \in Nat : n = NulAt(copy) - 1
    BY <2>2
  <2>4. string = SubSeq(copy, 1, n)
    BY <1>2, <1>3, <1>4, <2>3 DEF CStrings
  <2>5. n < Len(s) /\ n + 1 \in 1..Len(s)
    BY <1>1, <2>2, <2>3
  <2>6. /\ string \in Seq(Bytes) /\ Len(string) = n
        /\ \A k \in 1..n : string[k] = copy[k]
    BY <1>1, <2>4, <2>5
  <2>7. n < NulAt(s)
    <3>1. copy[NulAt(s)] = NUL
      BY <1>1, <2>1
    <3>2. ~(NulAt(s) \in 1..n)
      BY <2>2, <2>3, <3>1
    <3> QED
      BY <2>1, <2>3, <3>2
  <2>8. \A k \in 1..n : copy[k] = s[k]
    BY <1>1, <2>1, <2>5, <2>7
  <2>9. s[n + 1] = NUL
    <3>1. n + 1 <= NulAt(s)
      BY <2>1, <2>7
    <3>2. copy[n + 1] = NUL
      BY <2>2, <2>3
    <3> QED
      BY <1>1, <2>1, <2>5, <3>1, <3>2
  <2>10. ASSUME NEW k \in 1..Len(s), k > n
         PROVE  \E t \in 1..k : s[t] = NUL
    <3>1. n + 1 \in 1..k
      BY <1>1, <2>10
    <3> QED
      BY <2>9, <3>1
  <2>11. \A k \in 1..Len(s) : k <= Len(string) => string[k] = s[k]
    BY <2>6, <2>8
  <2>12. ~(Len(string) > Len(s))
    BY <1>1, <2>5, <2>6
  <2> QED
    BY <2>6, <2>10, <2>11, <2>12
<1>5. CASE ~HasNul(s)
  <2>1. PICK m \in 0..MaxJunk : string = copy \o [i \in 1..m |-> Junk]
    BY <1>2, <1>3, <1>5 DEF CStrings
  <2>2. m \in Nat /\ m <= MaxJunk /\ MaxJunk \in Nat
    BY JunkAssumption
  <2>3. [i \in 1..m |-> Junk] \in [1..m -> Bytes]
    BY DEF Junk, Bytes
  <2>4. [i \in 1..m |-> Junk] \in Seq(Bytes) /\ Len([i \in 1..m |-> Junk]) = m
    BY <2>2, <2>3
  <2>5. /\ string \in Seq(Bytes) /\ Len(string) = Len(s) + m
        /\ \A k \in 1..Len(s) : string[k] = copy[k]
    <3> DEFINE junk == [i \in 1..m |-> Junk]
    <3>1. junk \in Seq(Bytes) /\ Len(junk) = m
      BY <2>4
    <3> HIDE DEF junk
    <3>2. /\ copy \o junk \in Seq(Bytes) /\ Len(copy \o junk) = Len(copy) + Len(junk)
          /\ \A k \in 1..(Len(copy) + Len(junk)) :
               (copy \o junk)[k] = IF k <= Len(copy) THEN copy[k] ELSE junk[k - Len(copy)]
      BY <1>1, <3>1, ConcatProperties
    <3>3. \A k \in 1..Len(s) : k \in 1..(Len(copy) + Len(junk)) /\ k <= Len(copy)
      BY <1>1, <2>2, <3>1
    <3>4. string = copy \o junk
      BY <2>1 DEF junk
    <3> QED
      BY <1>1, <3>1, <3>2, <3>3, <3>4
  <2>6. \A k \in 1..Len(s) : copy[k] = s[k]
    BY <1>1, <1>5
  <2> QED
    BY <1>1, <1>5, <2>2, <2>5, <2>6
<1> QED
  BY <1>4, <1>5

LEMMA PacketParts ==
  ASSUME NEW data \in Seq(Bytes), NEW i \in Nat
  PROVE  /\ DataPacket(data, i) \in Seq(Bytes) /\ Len(DataPacket(data, i)) <= MAX_DATA_LEN
         /\ \A k \in 1..Len(DataPacket(data, i)) :
              /\ i * MAX_DATA_LEN + k \in 1..Len(data)
              /\ DataPacket(data, i)[k] = data[i * MAX_DATA_LEN + k]
         /\ \A j \in 1..Len(data) :
              i * MAX_DATA_LEN < j /\ j <= i * MAX_DATA_LEN + MAX_DATA_LEN
                => j - i * MAX_DATA_LEN \in 1..Len(DataPacket(data, i))
<1>1. PICK lo \in Nat : lo = i * MAX_DATA_LEN
  BY PacketStarts
<1>2. MAX_DATA_LEN \in Nat /\ Len(data) \in Nat /\ (i + 1) * MAX_DATA_LEN = lo + MAX_DATA_LEN
  BY <1>1, MaxDataLenAssumption, PacketStarts
<1>3. PICK hi \in Nat : hi = IF lo + MAX_DATA_LEN < Len(data) THEN lo + MAX_DATA_LEN ELSE Len(data)
  BY <1>2
<1>4. DataPacket(data, i) = SubSeq(data, lo + 1, hi)
  BY <1>1, <1>2, <1>3 DEF DataPacket
<1>5. hi <= Len(data) /\ hi <= lo + MAX_DATA_LEN
  BY <1>2, <1>3
<1>6. \A k \in (lo + 1)..hi : data[k] \in Bytes
  BY <1>2, <1>5
<1>7. /\ SubSeq(data, lo + 1, hi) \in Seq(Bytes)
      /\ Len(SubSeq(data, lo + 1, hi)) = IF lo + 1 <= hi THEN hi - (lo + 1) + 1 ELSE 0
      /\ \A k \in 1..(hi - (lo + 1) + 1) : SubSeq(data, lo + 1, hi)[k] = data[lo + 1 + k - 1]
  BY <1>6, lo + 1 \in Int, hi \in Int, SubSeqProperties
<1>8. PICK packet \in Seq(Bytes) : packet = DataPacket(data, i)
  BY <1>4, <1>7
<1>9. PICK n \in Nat : n = Len(packet)
  OBVIOUS
<1>10. n = IF lo + 1 <= hi THEN hi - lo ELSE 0
  BY <1>4, <1>7, <1>8, <1>9
<1>11. ASSUME NEW k \in 1..n
       PROVE  lo + k \in 1..Len(data) /\ packet[k] = data[lo + k]
  <2>1. k \in 1..(hi - (lo + 1) + 1) /\ lo + 1 + k - 1 = lo + k
    BY <1>10
  <2>2. packet[k] = data[lo + k]
    BY <1>4, <1>7, <1>8, <2>1
  <2> QED
    BY <1>2, <1>5, <1>10, <2>2
<1>12. ASSUME NEW j \in 1..Len(data), lo < j, j <= lo + MAX_DATA_LEN
       PROVE  j - lo \in 1..n
  BY <1>2, <1>3, <1>10, <1>12
<1>13. n <= MAX_DATA_LEN
  BY <1>2, <1>5, <1>10
<1> QED
  BY <1>1, <1>8, <1>9, <1>11, <1>12, <1>13

\* A packet arrives at its place: its bytes are right up to a NUL byte, the bytes
\* before it stay, and those behind it stay or had no NUL byte to stop before them.
LEMMA Stored ==
  ASSUME NEW data \in Seq(Bytes), NEW buf \in Seq(Bytes), Len(buf) = Len(data),
         NEW i \in Nat, NEW string \in CStrings(Strncpy(DataPacket(data, i))),
         NEW j \in 1..Len(data)
  PROVE  /\ j <= i * MAX_DATA_LEN => Store(buf, i, string)[j] = buf[j]
         /\ i * MAX_DATA_LEN < j /\ j <= i * MAX_DATA_LEN + MAX_DATA_LEN =>
              \/ Store(buf, i, string)[j] = data[j]
              \/ /\ Store(buf, i, string)[j] = buf[j]
                 /\ \E k \in (i * MAX_DATA_LEN + 1)..j : data[k] = NUL
         /\ j > i * MAX_DATA_LEN + MAX_DATA_LEN =>
              \/ Store(buf, i, string)[j] = buf[j]
              \/ /\ ~HasNul(DataPacket(data, i))
                 /\ j - (i * MAX_DATA_LEN + MAX_DATA_LEN) <= MaxJunk
<1>1. PICK lo \in Nat : lo = i * MAX_DATA_LEN
  BY PacketStarts
<1>2. MAX_DATA_LEN \in Nat /\ Len(data) \in Nat /\ MaxJunk \in Nat
  BY MaxDataLenAssumption, JunkAssumption
<1>3. PICK packet \in Seq(Bytes) : packet = DataPacket(data, i)
  BY PacketParts
<1>4. PICK n \in Nat : n = Len(packet)
  OBVIOUS
<1>5. /\ n <= MAX_DATA_LEN
      /\ \A k \in 1..n : lo + k \in 1..Len(data) /\ packet[k] = data[lo + k]
      /\ lo < j /\ j <= lo + MAX_DATA_LEN => j - lo \in 1..n
  BY <1>1, <1>3, <1>4, PacketParts
<1>6. /\ string \in Seq(Bytes)
      /\ \A k \in 1..n : k <= Len(string) => string[k] = packet[k]
      /\ \A k \in 1..n : k > Len(string) => \E t \in 1..k : packet[t] = NUL
      /\ Len(string) > n => ~HasNul(packet) /\ Len(string) <= n + MaxJunk
  BY <1>3, <1>4, Unpacked
<1>7. PICK l \in Nat : l = Len(string)
  BY <1>6
<1>8. Store(buf, i, string)[j] = IF j - lo \in 1..l THEN string[j - lo] ELSE buf[j]
  BY <1>1, <1>7 DEF Store
<1>9. ASSUME j <= lo PROVE Store(buf, i, string)[j] = buf[j]
  <2>1. ~(j - lo \in 1..l)
    BY <1>9
  <2> QED
    BY <1>8, <2>1
<1>10. ASSUME lo < j, j <= lo + MAX_DATA_LEN
       PROVE  \/ Store(buf, i, string)[j] = data[j]
              \/ /\ Store(buf, i, string)[j] = buf[j]
                 /\ \E k \in (lo + 1)..j : data[k] = NUL
  <2>1. j - lo \in 1..n /\ lo + (j - lo) = j
    BY <1>5, <1>10
  <2>2. CASE j - lo <= l
    <3>1. j - lo \in 1..l
      BY <2>1, <2>2
    <3> QED
      BY <1>5, <1>6, <1>7, <1>8, <2>1, <2>2, <3>1
  <2>3. CASE j - lo > l
    <3>1. ~(j - lo \in 1..l)
      BY <2>3
    <3>2. PICK t \in 1..(j - lo) : packet[t] = NUL
      BY <1>6, <1>7, <2>1, <2>3
    <3>3. t \in 1..n /\ lo + t \in (lo + 1)..j
      BY <2>1, <3>2
    <3>4. data[lo + t] = NUL
      BY <1>5, <3>2, <3>3
    <3> QED
      BY <1>8, <3>1, <3>3, <3>4
  <2> QED
    BY <2>2, <2>3
<1>11. ASSUME j > lo + MAX_DATA_LEN
       PROVE  \/ Store(buf, i, string)[j] = buf[j]
              \/ ~HasNul(packet) /\ j - (lo + MAX_DATA_LEN) <= MaxJunk
  <2>1. CASE j - lo \in 1..l
    <3>1. l > n
      BY <1>2, <1>5, <1>11, <2>1
    <3>2. ~HasNul(packet) /\ l <= n + MaxJunk
      BY <1>6, <1>7, <3>1
    <3>3. j - (lo + MAX_DATA_LEN) <= MaxJunk
      BY <1>2, <1>5, <2>1, <3>2
    <3> QED
      BY <3>2, <3>3
  <2>2. CASE ~(j - lo \in 1..l)
    BY <1>8, <2>2
  <2> QED
    BY <2>1, <2>2
<1> QED
  BY <1>1, <1>3, <1>9, <1>10, <1>11

LEMMA StoreType ==
  ASSUME NEW buf \in Seq(Bytes), NEW i \in Nat, NEW string \in Seq(Bytes)
  PROVE  Store(buf, i, string) \in Seq(Bytes) /\ Len(Store(buf, i, string)) = Len(buf)
<1>1. \A j \in 1..Len(buf) : buf[j] \in Bytes
  OBVIOUS
<1>2. \A k \in 1..Len(string) : string[k] \in Bytes
  OBVIOUS
<1>3. Store(buf, i, string) \in [1..Len(buf) -> Bytes]
  BY <1>1, <1>2 DEF Store
<1> QED
  BY <1>3

\* The strings of any packet are byte sequences.
LEMMA StringType ==
  ASSUME NEW s \in Seq(Bytes), NEW string \in CStrings(s)
  PROVE  string \in Seq(Bytes)
<1>1. CASE HasNul(s)
  <2>1. NulAt(s) \in 1..Len(s) /\ string = SubSeq(s, 1, NulAt(s) - 1)
    BY <1>1, FirstNul DEF CStrings
  <2>2. PICK n \in Nat : n = NulAt(s) - 1 /\ n <= Len(s)
    BY <2>1
  <2> QED
    BY <2>1, <2>2
<1>2. CASE ~HasNul(s)
  <2>1. PICK m \in 0..MaxJunk : string = s \o [i \in 1..m |-> Junk]
    BY <1>2 DEF CStrings
  <2>2. m \in Nat
    BY JunkAssumption
  <2>3. [i \in 1..m |-> Junk] \in [1..m -> Bytes]
    BY DEF Junk, Bytes
  <2>4. [i \in 1..m |-> Junk] \in Seq(Bytes)
    BY <2>2, <2>3
  <2> QED
    BY <2>1, <2>4, ConcatProperties
<1> QED
  BY <1>1, <1>2

\* What is read from a file is as long as what is asked for.
LEMMA FileRead ==
  ASSUME NEW contents \in Seq(Bytes), NEW offset \in Nat, NEW size \in Nat
  PROVE  Fread(contents, offset, size) \in Seq(Bytes) /\ Len(Fread(contents, offset, size)) = size
<1>1. \A i \in 1..size : offset + i <= Len(contents) => contents[offset + i] \in Bytes
  <2> SUFFICES ASSUME NEW i \in 1..size, offset + i <= Len(contents)
               PROVE  contents[offset + i] \in Bytes
    OBVIOUS
  <2>1. offset + i \in 1..Len(contents)
    OBVIOUS
  <2> QED
    BY <2>1, ElementOfSeq
<1>2. Fread(contents, offset, size) \in [1..size -> Bytes]
  BY <1>1 DEF Fread, Bytes, NUL
<1> QED
  BY <1>2

\* For each packet a head and a body, and the body is the packet.
LEMMA ItemsSent ==
  ASSUME NEW data \in Seq(Bytes)
  PROVE  /\ ToSend(data) \in Seq(Items)
         /\ Len(ToSend(data)) = 2 * PktCount(Len(data))
         /\ \A i \in Nat : 2 * i + 2 <= Len(ToSend(data))
              => ToSend(data)[2 * i + 2].data = Strncpy(DataPacket(data, i))
<1>1. PICK n \in Nat : n = 2 * PktCount(Len(data))
  <2>1. PktCount(Len(data)) \in Nat
    BY PacketsCover
  <2> QED
    BY <2>1
<1>2. ASSUME NEW k \in 1..n
      PROVE  Strncpy(DataPacket(data, (k - 1) \div 2)) \in Seq(Bytes)
  <2>1. (k - 1) \div 2 \in Nat
    OBVIOUS
  <2> QED
    BY <2>1, PacketParts, Copied
<1>3. ToSend(data) = [k \in 1..n |->
         [part |-> IF k % 2 = 1 THEN "head" ELSE "body",
          data |-> Strncpy(DataPacket(data, (k - 1) \div 2))]]
  BY <1>1 DEF ToSend
<1>4. ToSend(data) \in [1..n -> Items]
  BY <1>2, <1>3 DEF Items
<1>5. ToSend(data) \in Seq(Items) /\ Len(ToSend(data)) = n
  BY <1>4
<1>6. ASSUME NEW i \in Nat, 2 * i + 2 <= n
      PROVE  ToSend(data)[2 * i + 2].data = Strncpy(DataPacket(data, i))
  <2>1. 2 * i + 2 \in 1..n /\ (2 * i + 2 - 1) \div 2 = i
    BY <1>6
  <2> QED
    BY <1>3, <2>1
<1> QED
  BY <1>1, <1>5, <1>6

-----------------------------------------------------------------------------
(* What is in a buffer.                                                    *)

\* Bytes that a packet before packet i left behind its end may be at place j.
Overran(data, i, j) ==
  \E h \in 0..(i - 1) : /\ ~HasNul(DataPacket(data, h))
                        /\ j - (h * MAX_DATA_LEN + MAX_DATA_LEN) <= MaxJunk

\* Byte j of packet i after n packets of data.
RightByte(data, buf, n, i, j) ==
  \/ i < n /\ buf[j] = data[j]
  \/ /\ i < n => \E k \in (i * MAX_DATA_LEN + 1)..j : data[k] = NUL
     /\ buf[j] = NUL \/ Overran(data, i, j)

Right(data, buf, n) ==
  \A i \in Nat, j \in 1..Len(data) :
    i * MAX_DATA_LEN < j /\ j <= i * MAX_DATA_LEN + MAX_DATA_LEN
      => RightByte(data, buf, n, i, j)

LEMMA RightAtFirst ==
  ASSUME NEW data \in Seq(Bytes)
  PROVE  Right(data, Zeros(Len(data)), 0)
<1> SUFFICES ASSUME NEW i \in Nat, NEW j \in 1..Len(data)
             PROVE  RightByte(data, Zeros(Len(data)), 0, i, j)
  BY DEF Right
<1>1. Zeros(Len(data))[j] = NUL
  BY DEF Zeros
<1> QED
  BY <1>1 DEF RightByte

\* The next packet leaves the buffer right.
LEMMA RightWithNext ==
  ASSUME NEW data \in Seq(Bytes), NEW buf \in Seq(Bytes), Len(buf) = Len(data),
         NEW n \in Nat, NEW string \in CStrings(Strncpy(DataPacket(data, n))),
         Right(data, buf, n)
  PROVE  Right(data, Store(buf, n, string), n + 1)
<1> SUFFICES ASSUME NEW i \in Nat, NEW j \in 1..Len(data),
                    i * MAX_DATA_LEN < j, j <= i * MAX_DATA_LEN + MAX_DATA_LEN
             PROVE  RightByte(data, Store(buf, n, string), n + 1, i, j)
  BY DEF Right
<1>1. RightByte(data, buf, n, i, j)
  BY DEF Right
<1>2. PICK after \in Seq(Bytes) : after = Store(buf, n, string)
  <2>1. string \in Seq(Bytes)
    BY PacketParts, Copied, StringType
  <2> QED
    BY <2>1, StoreType
<1>3. /\ j <= n * MAX_DATA_LEN => after[j] = buf[j]
      /\ n * MAX_DATA_LEN < j /\ j <= n * MAX_DATA_LEN + MAX_DATA_LEN =>
           \/ after[j] = data[j]
           \/ /\ after[j] = buf[j]
              /\ \E k \in (n * MAX_DATA_LEN + 1)..j : data[k] = NUL
      /\ j > n * MAX_DATA_LEN + MAX_DATA_LEN =>
           \/ after[j] = buf[j]
           \/ /\ ~HasNul(DataPacket(data, n))
              /\ j - (n * MAX_DATA_LEN + MAX_DATA_LEN) <= MaxJunk
  BY <1>2, Stored
<1>4. /\ i * MAX_DATA_LEN \in Nat /\ n * MAX_DATA_LEN \in Nat
      /\ i < n => i * MAX_DATA_LEN + MAX_DATA_LEN <= n * MAX_DATA_LEN
      /\ n < i => n * MAX_DATA_LEN + MAX_DATA_LEN <= i * MAX_DATA_LEN
      /\ MAX_DATA_LEN \in Nat /\ j \in Nat
  BY PacketStarts, MaxDataLenAssumption
<1>5. CASE i < n
  <2>1. j <= n * MAX_DATA_LEN
    BY <1>4, <1>5
  <2>2. after[j] = buf[j] /\ i < n + 1
    BY <1>3, <1>5, <2>1
  <2> QED
    BY <1>1, <1>2, <1>5, <2>2 DEF RightByte
<1>6. CASE i = n
  <2>1. ~(i < n) /\ i < n + 1
    BY <1>6
  <2>2. buf[j] = NUL \/ Overran(data, i, j)
    BY <1>1, <2>1 DEF RightByte
  <2>3. \/ after[j] = data[j]
        \/ /\ after[j] = buf[j]
           /\ \E k \in (i * MAX_DATA_LEN + 1)..j : data[k] = NUL
    BY <1>3, <1>6
  <2> QED
    BY <1>2, <2>1, <2>2, <2>3 DEF RightByte
<1>7. CASE n < i
  <2>1. ~(i < n) /\ ~(i < n + 1) /\ n \in 0..(i - 1)
    BY <1>7
  <2>2. buf[j] = NUL \/ Overran(data, i, j)
    BY <1>1, <2>1 DEF RightByte
  <2>3. j > n * MAX_DATA_LEN + MAX_DATA_LEN
    BY <1>4, <1>7
  <2>4. CASE after[j] = buf[j]
    BY <1>2, <2>1, <2>2, <2>4 DEF RightByte
  <2>5. CASE /\ ~HasNul(DataPacket(data, n))
             /\ j - (n * MAX_DATA_LEN + MAX_DATA_LEN) <= MaxJunk
    <3>1. Overran(data, i, j)
      BY <2>1, <2>5 DEF Overran
    <3> QED
      BY <1>2, <2>1, <3>1 DEF RightByte
  <2> QED
    BY <1>3, <2>3, <2>4, <2>5
<1> QED
  BY <1>5, <1>6, <1>7

-----------------------------------------------------------------------------
(* The invariant of a transfer.                                            *)

Live(c) == phase[c] \in {"idle", "connected", "head", "body"}

\* What the downloader has taken from the stream: heads and bodies.
Taken(c) == 2 * received[c] + IF phase[c] = "body" THEN 1 ELSE 0

Untouched(c) ==
  phase[c] # "body" /\ received[c] = 0 /\ wire[c] = <<>> /\ upload[c] \in {None, <<>>}

\* What is on its way and what is still to send are the rest of the stream.
InStream(c) ==
  LET items == ToSend(Asked(c)) IN
  /\ file # NoFile /\ upload[c] \in Seq(Items)
  /\ Taken(c) + Len(wire[c]) + Len(upload[c]) = Len(items)
  /\ \A k \in 1..Len(wire[c]) : wire[c][k] = items[Taken(c) + k]
  /\ \A k \in 1..Len(upload[c]) : upload[c][k] = items[Taken(c) + Len(wire[c]) + k]

Received(c) ==
  (Live(c) \/ phase[c] = "done") /\ file # NoFile
    => Right(Asked(c), buffer[c], received[c])

Finished(c) ==
  written[c] # None =>
    /\ phase[c] = "done" /\ written[c] = buffer[c] /\ AllReceived(c)
    /\ file = NoFile => piece[c].size = 0

Connection(c) ==
  /\ Live(c) => Untouched(c) \/ InStream(c)
  /\ Received(c) /\ Finished(c)

Waits(c) == (listening # None /\ c = listening) \/ \E i \in 1..Len(backlog) : backlog[i] = c

\* No connection waits twice, and one that waits has not been served.
WaitOnce ==
  /\ \A i, j \in 1..Len(backlog) : backlog[i] = backlog[j] => i = j
  /\ listening # None => \A i \in 1..Len(backlog) : backlog[i] # listening

WaitsUntouched(c) ==
  /\ Waits(c) /\ Live(c) => phase[c] # "idle" /\ Untouched(c)
  /\ phase[c] = "idle" => Untouched(c) /\ ~Waits(c)

TransferInv ==
  /\ TransferTypeOK
  /\ WaitOnce
  /\ \A c \in Conns : Connection(c) /\ WaitsUntouched(c)

FolderKept == file' = file /\ piece' = piece
QueueKept == listening' = listening /\ backlog' = backlog
Kept(c) ==
  /\ phase'[c] = phase[c] /\ received'[c] = received[c]
  /\ buffer'[c] = buffer[c] /\ written'[c] = written[c]
  /\ upload'[c] = upload[c] /\ wire'[c] = wire[c]

LEMMA AskedKept ==
  ASSUME FolderKept, NEW c
  PROVE  Asked(c)' = Asked(c)
BY DEF FolderKept, Asked, Fread

LEMMA AskedType ==
  ASSUME TransferTypeOK, file # NoFile, NEW c \in Conns
  PROVE  Asked(c) \in Seq(Bytes) /\ Len(Asked(c)) = piece[c].size
<1>1. file \in Seq(Bytes) /\ piece[c].offset \in Nat /\ piece[c].size \in Nat
  BY FilesAssumption, PiecesAssumption DEF TransferTypeOK
<1> QED
  BY <1>1, FileRead DEF Asked

LEMMA KeptConnection ==
  ASSUME FolderKept, NEW c \in Conns, Kept(c)
  PROVE  /\ Connection(c) => Connection(c)'
         /\ Live(c)' = Live(c) /\ (Untouched(c)' <=> Untouched(c))
<1>1. Asked(c)' = Asked(c) /\ file' = file /\ piece' = piece
  BY AskedKept DEF FolderKept
<1>2. Live(c)' = Live(c) /\ (Untouched(c)' <=> Untouched(c)) /\ Taken(c)' = Taken(c)
  BY DEF Kept, Live, Untouched, Taken
<1>3. InStream(c) => InStream(c)'
  BY <1>1, <1>2 DEF Kept, InStream
<1>4. Received(c) => Received(c)'
  BY <1>1, <1>2 DEF Kept, Received
<1>5. Finished(c) => Finished(c)'
  BY <1>1 DEF Kept, Finished, AllReceived
<1> QED
  BY <1>2, <1>3, <1>4, <1>5 DEF Connection

\* What a step of connection c alone owes.
Stepped(c) ==
  /\ Connection(c)'
  /\ phase'[c] # "idle" /\ (Live(c)' => Live(c))
  /\ Untouched(c) /\ Live(c)' => Untouched(c)'

LEMMA OneConnection ==
  ASSUME TransferInv, FolderKept, QueueKept, TransferTypeOK', NEW c \in Conns, Stepped(c),
         \A d \in Conns \ {c} : Kept(d)
  PROVE  TransferInv'
<1>1. WaitOnce'
  BY DEF TransferInv, WaitOnce, QueueKept
<1>2. ASSUME NEW d \in Conns PROVE Connection(d)' /\ WaitsUntouched(d)'
  <2>1. Connection(d) /\ WaitsUntouched(d) /\ Waits(d)' = Waits(d)
    BY DEF TransferInv, QueueKept, Waits
  <2>2. CASE d = c
    BY <2>1, <2>2 DEF Stepped, WaitsUntouched
  <2>3. CASE d # c
    <3>1. Connection(d)' /\ Live(d)' = Live(d) /\ (Untouched(d)' <=> Untouched(d))
      BY <2>1, <2>3, KeptConnection
    <3>2. phase'[d] = phase[d]
      BY <2>3 DEF Kept
    <3> QED
      BY <2>1, <3>1, <3>2 DEF WaitsUntouched
  <2> QED
    BY <2>2, <2>3
<1> QED
  BY <1>1, <1>2 DEF TransferInv

\* One item less of the stream.
LEMMA OneItemLess ==
  ASSUME NEW w \in Seq(Items), w # <<>>, NEW t \in Nat, NEW items,
         \A k \in 1..Len(w) : w[k] = items[t + k]
  PROVE  /\ Len(Tail(w)) = Len(w) - 1 /\ t + 1 + Len(Tail(w)) = t + Len(w)
         /\ \A k \in 1..Len(Tail(w)) : Tail(w)[k] = items[t + 1 + k]
<1>1. PICK n \in Nat : n = Len(w)
  OBVIOUS
<1>2. Len(Tail(w)) = n - 1 /\ \A k \in 1..(n - 1) : Tail(w)[k] = w[k + 1]
  BY <1>1
<1>3. ASSUME NEW k \in 1..(n - 1) PROVE Tail(w)[k] = items[t + 1 + k]
  <2>1. k + 1 \in 1..Len(w)
    BY <1>1
  <2>2. w[k + 1] = items[t + (k + 1)]
    BY <2>1
  <2>3. t + (k + 1) = t + 1 + k
    OBVIOUS
  <2> QED
    BY <1>2, <2>2, <2>3
<1> QED
  BY <1>1, <1>2, <1>3

\* A step of the downloader that takes the next item.
LEMMA TakeOne ==
  ASSUME TransferTypeOK, FolderKept, NEW c \in Conns, InStream(c), wire[c] # <<>>,
         wire'[c] = Tail(wire[c]), upload'[c] = upload[c],
         received[c] \in Nat, Taken(c)' = Taken(c) + 1
  PROVE  InStream(c)'
<1>1. Asked(c)' = Asked(c) /\ file' = file
  BY AskedKept DEF FolderKept
<1>2. PICK t \in Nat : t = Taken(c)
  BY DEF Taken
<1>3. PICK w \in Seq(Items) : w = wire[c]
  BY DEF TransferTypeOK
<1>4. PICK items : items = ToSend(Asked(c))
  OBVIOUS
<1>5. PICK u \in Seq(Items) : u = upload[c]
  BY DEF InStream
<1>6. /\ t + Len(w) + Len(u) = Len(items)
      /\ \A k \in 1..Len(w) : w[k] = items[t + k]
      /\ \A k \in 1..Len(u) : u[k] = items[t + Len(w) + k]
  BY <1>2, <1>3, <1>4, <1>5 DEF InStream
<1>7. /\ t + 1 + Len(Tail(w)) = t + Len(w)
      /\ \A k \in 1..Len(Tail(w)) : Tail(w)[k] = items[t + 1 + k]
  <2>1. w # <<>> /\ \A k \in 1..Len(w) : w[k] = items[t + k]
    BY <1>3, <1>6
  <2> QED
    BY <2>1, OneItemLess
<1>8. Taken(c)' = t + 1 /\ wire'[c] = Tail(w) /\ upload'[c] = u
  BY <1>2, <1>3, <1>5
<1>9. ASSUME NEW k \in 1..Len(u) PROVE u[k] = items[t + 1 + Len(Tail(w)) + k]
  BY <1>6, <1>7
<1>10. t + 1 + Len(Tail(w)) + Len(u) = Len(items)
  BY <1>6, <1>7
<1> QED
  BY <1>1, <1>4, <1>7, <1>8, <1>9, <1>10 DEF InStream

-----------------------------------------------------------------------------
(* The steps of the downloader.                                            *)

LEMMA SendRequestStep ==
  ASSUME TransferInv, NEW c \in Conns, SendRequest(c)
  PROVE  TransferInv'
<1>1. /\ FolderKept /\ QueueKept /\ \A d \in Conns \ {c} : Kept(d)
      /\ phase[c] = "connected" /\ phase'[c] = "head"
      /\ <<received, buffer, written, upload, wire>>' = <<received, buffer, written, upload, wire>>
  BY DEF TransferInv, TransferTypeOK, SendRequest, Phase, FolderKept, QueueKept, Kept,
         holding, accepting
<1>2. TransferTypeOK'
  BY DEF TransferInv, TransferTypeOK, SendRequest, Phase, Phases, holding, accepting
<1>3. Asked(c)' = Asked(c) /\ file' = file /\ Connection(c) /\ Taken(c)' = Taken(c)
  BY <1>1, AskedKept DEF TransferInv, FolderKept, Taken
<1>4. Live(c) /\ Live(c)' /\ (Untouched(c) => Untouched(c)')
  BY <1>1 DEF Live, Untouched
<1>5. InStream(c) => InStream(c)'
  BY <1>1, <1>3 DEF InStream
<1>6. Received(c)' /\ Finished(c)'
  BY <1>1, <1>3, <1>4 DEF Connection, Received, Finished
<1>7. Stepped(c)
  BY <1>1, <1>3, <1>4, <1>5, <1>6 DEF Stepped, Connection
<1> QED
  BY <1>1, <1>2, <1>7, OneConnection

\* A downloader that is stopped, lost or about to fail promises nothing more.
LEMMA GivesUp ==
  ASSUME TransferInv, FolderKept, QueueKept, TransferTypeOK', NEW c \in Conns,
         phase[c] # "done", phase'[c] \in {"garbled", "dead", "silent", "mute"},
         written'[c] = written[c], \A d \in Conns \ {c} : Kept(d)
  PROVE  TransferInv'
<1>1. ~Live(c)' /\ phase'[c] # "done" /\ phase'[c] # "idle"
  BY DEF Live
<1>2. written'[c] = None
  BY DEF TransferInv, Connection, Finished
<1>3. Received(c)' /\ Finished(c)'
  BY <1>1, <1>2 DEF Received, Finished
<1>4. Stepped(c)
  BY <1>1, <1>3 DEF Stepped, Connection
<1> QED
  BY <1>4, OneConnection

LEMMA DecompressFailsStep ==
  ASSUME TransferInv, NEW c \in Conns, DecompressFails(c)
  PROVE  TransferInv'
<1>1. /\ FolderKept /\ QueueKept /\ \A d \in Conns \ {c} : Kept(d)
      /\ phase[c] = "garbled" /\ phase'[c] = "dead" /\ written'[c] = written[c]
  BY DEF TransferInv, TransferTypeOK, DecompressFails, Phase, FolderKept, QueueKept, Kept,
         holding, accepting
<1>2. TransferTypeOK'
  BY DEF TransferInv, TransferTypeOK, DecompressFails, Phase, Phases, holding, accepting
<1> QED
  BY <1>1, <1>2, GivesUp

LEMMA DownloaderEndsStep ==
  ASSUME TransferInv, NEW c \in Conns, DownloaderEnds(c)
  PROVE  TransferInv'
<1>1. /\ FolderKept /\ QueueKept /\ \A d \in Conns \ {c} : Kept(d)
      /\ phase[c] # "done" /\ phase'[c] = "dead" /\ written'[c] = written[c]
  BY DEF TransferInv, TransferTypeOK, DownloaderEnds, Phase, FolderKept, QueueKept, Kept,
         holding, accepting
<1>2. TransferTypeOK'
  BY DEF TransferInv, TransferTypeOK, DownloaderEnds, Phase, Phases, holding, accepting
<1> QED
  BY <1>1, <1>2, GivesUp

LEMMA DownloaderSilentStep ==
  ASSUME TransferInv, NEW c \in Conns, DownloaderSilent(c)
  PROVE  TransferInv'
<1>1. /\ FolderKept /\ QueueKept /\ \A d \in Conns \ {c} : Kept(d)
      /\ phase[c] # "done" /\ phase'[c] \in {"mute", "silent"}
      /\ written'[c] = written[c]
  BY DEF TransferInv, TransferTypeOK, DownloaderSilent, Phase, FolderKept, QueueKept, Kept,
         holding, accepting
<1>2. TransferTypeOK'
  BY DEF TransferInv, TransferTypeOK, DownloaderSilent, Phase, Phases, holding, accepting
<1> QED
  BY <1>1, <1>2, GivesUp

LEMMA RecvLengthStep ==
  ASSUME TransferInv, NEW c \in Conns, RecvLength(c)
  PROVE  TransferInv'
<1>1. /\ FolderKept /\ QueueKept /\ \A d \in Conns \ {c} : Kept(d)
      /\ phase[c] = "head" /\ phase'[c] \in {"body", "garbled"}
      /\ <<received, buffer, written, upload>>' = <<received, buffer, written, upload>>
  BY DEF TransferInv, TransferTypeOK, RecvLength, Take, Closed, Phase, FolderKept, QueueKept,
         Kept, holding, accepting
<1>2. TransferTypeOK'
  <2>1. wire' \in [Conns -> Seq(Items)]
    <3>1. wire[c] # <<>> => Tail(wire[c]) \in Seq(Items)
      BY DEF TransferInv, TransferTypeOK
    <3> QED
      BY <3>1 DEF TransferInv, TransferTypeOK, RecvLength, Take
  <2>2. phase' \in [Conns -> Phases]
    BY DEF TransferInv, TransferTypeOK, RecvLength, Phase, Phases
  <2> QED
    BY <2>1, <2>2 DEF TransferInv, TransferTypeOK, RecvLength, holding, accepting
<1>3. CASE phase'[c] = "garbled"
  BY <1>1, <1>2, <1>3, GivesUp
<1>4. CASE phase'[c] = "body"
  <2>1. wire[c] # <<>> /\ wire'[c] = Tail(wire[c])
    BY <1>4 DEF TransferInv, TransferTypeOK, RecvLength, Take, Phase
  <2>2. Live(c) /\ Live(c)' /\ ~Untouched(c) /\ Connection(c)
    BY <1>1, <1>4, <2>1 DEF Live, Untouched, TransferInv
  <2>3. InStream(c) /\ received[c] \in Nat /\ Taken(c)' = Taken(c) + 1
    BY <1>1, <1>4, <2>2 DEF Connection, Taken, TransferInv, TransferTypeOK
  <2>4. InStream(c)'
    BY <1>1, <2>1, <2>3, TakeOne DEF TransferInv
  <2>5. Asked(c)' = Asked(c) /\ file' = file
    BY <1>1, AskedKept DEF FolderKept
  <2>6. Received(c)' /\ Finished(c)'
    BY <1>1, <1>4, <2>2, <2>5 DEF Connection, Received, Finished
  <2>7. Stepped(c)
    BY <1>4, <2>2, <2>4, <2>6 DEF Stepped, Connection
  <2> QED
    BY <1>1, <1>2, <2>7, OneConnection
<1> QED
  BY <1>1, <1>3, <1>4

LEMMA RecvDataStep ==
  ASSUME TransferInv, NEW c \in Conns, RecvData(c)
  PROVE  TransferInv'
<1>1. /\ FolderKept /\ QueueKept /\ \A d \in Conns \ {c} : Kept(d)
      /\ phase[c] = "body" /\ phase'[c] \in {"head", "garbled"}
      /\ <<written, upload>>' = <<written, upload>>
  BY DEF TransferInv, TransferTypeOK, RecvData, Take, Closed, Phase, FolderKept, QueueKept,
         Kept, holding, accepting
<1>2. wire' \in [Conns -> Seq(Items)] /\ phase' \in [Conns -> Phases]
  <2>1. wire[c] # <<>> => Tail(wire[c]) \in Seq(Items)
    BY DEF TransferInv, TransferTypeOK
  <2>2. wire' \in [Conns -> Seq(Items)]
    BY <2>1 DEF TransferInv, TransferTypeOK, RecvData, Take
  <2>3. phase' \in [Conns -> Phases]
    BY DEF TransferInv, TransferTypeOK, RecvData, Phase, Phases
  <2> QED
    BY <2>2, <2>3
<1>3. CASE phase'[c] = "garbled"
  <2>1. received' = received /\ buffer' = buffer
    BY <1>3 DEF TransferInv, TransferTypeOK, RecvData, Phase
  <2>2. TransferTypeOK'
    BY <1>2, <2>1 DEF TransferInv, TransferTypeOK, RecvData, holding, accepting
  <2> QED
    BY <1>1, <1>3, <2>2, GivesUp
<1>4. CASE phase'[c] = "head"
  <2>1. /\ wire[c] # <<>> /\ wire'[c] = Tail(wire[c])
        /\ received' = [received EXCEPT ![c] = @ + 1]
        /\ \E string \in CStrings(Head(wire[c]).data) :
             buffer' = [buffer EXCEPT ![c] = Store(@, received[c], string)]
    BY <1>4 DEF TransferInv, TransferTypeOK, RecvData, Take, Phase
  <2>2. PICK string \in CStrings(Head(wire[c]).data) :
          buffer' = [buffer EXCEPT ![c] = Store(@, received[c], string)]
    BY <2>1
  <2>3. received[c] \in Nat /\ buffer[c] \in Seq(Bytes) /\ wire[c] \in Seq(Items)
    BY DEF TransferInv, TransferTypeOK
  <2>4. string \in Seq(Bytes)
    <3>1. Head(wire[c]) \in Items
      BY <2>1, <2>3
    <3>2. Head(wire[c]).data \in Seq(Bytes)
      BY <3>1 DEF Items
    <3> QED
      BY <3>2, StringType
  <2>5. /\ received'[c] = received[c] + 1
        /\ buffer'[c] = Store(buffer[c], received[c], string)
    BY <2>1, <2>2 DEF TransferInv, TransferTypeOK
  <2>6. TransferTypeOK'
    <3>1. /\ Store(buffer[c], received[c], string) \in Seq(Bytes)
          /\ Len(Store(buffer[c], received[c], string)) = Len(buffer[c])
      BY <2>3, <2>4, StoreType
    <3>2. received' \in [Conns -> Nat] /\ buffer' \in [Conns -> Seq(Bytes)]
      BY <2>1, <2>2, <2>3, <3>1 DEF TransferInv, TransferTypeOK
    <3>3. \A d \in Conns : Len(buffer'[d]) = piece'[d].size
      BY <1>1, <2>2, <3>1 DEF TransferInv, TransferTypeOK, FolderKept
    <3> QED
      BY <1>2, <3>2, <3>3 DEF TransferInv, TransferTypeOK, RecvData, holding, accepting
  <2>7. Live(c) /\ Live(c)' /\ ~Untouched(c) /\ Connection(c)
    BY <1>1, <1>4 DEF Live, Untouched, TransferInv
  <2>8. InStream(c) /\ Taken(c)' = Taken(c) + 1 /\ Taken(c) = 2 * received[c] + 1
    BY <1>1, <1>4, <2>3, <2>5, <2>7 DEF Connection, Taken
  <2>9. InStream(c)'
    BY <1>1, <2>1, <2>3, <2>8, TakeOne DEF TransferInv
  <2>10. Asked(c)' = Asked(c) /\ file' = file /\ file # NoFile
    BY <1>1, <2>8, AskedKept DEF FolderKept, InStream
  <2>11. Head(wire[c]).data = Strncpy(DataPacket(Asked(c), received[c]))
    <3>1. PICK items : items = ToSend(Asked(c))
      OBVIOUS
    <3>2. /\ Taken(c) + Len(wire[c]) + Len(upload[c]) = Len(items) /\ upload[c] \in Seq(Items)
          /\ \A k \in 1..Len(wire[c]) : wire[c][k] = items[Taken(c) + k]
      BY <2>8, <3>1 DEF InStream
    <3>3. Head(wire[c]) = wire[c][1] /\ Len(wire[c]) \in Nat /\ Len(wire[c]) >= 1
      BY <2>1, <2>3
    <3>4. Head(wire[c]) = items[2 * received[c] + 2]
      <4>1. 1 \in 1..Len(wire[c])
        BY <3>3
      <4>2. wire[c][1] = items[Taken(c) + 1]
        BY <3>2, <4>1
      <4>3. Taken(c) + 1 = 2 * received[c] + 2
        BY <2>3, <2>8
      <4> QED
        BY <3>3, <4>2, <4>3
    <3>5. 2 * received[c] + 2 <= Len(items)
      BY <2>3, <2>8, <3>2, <3>3
    <3> QED
      BY <2>3, <2>10, <3>1, <3>4, <3>5, AskedType, ItemsSent DEF TransferInv
  <2>12. Right(Asked(c), buffer'[c], received'[c])
    <3>1. Asked(c) \in Seq(Bytes) /\ Len(buffer[c]) = Len(Asked(c))
      BY <2>10, AskedType DEF TransferInv, TransferTypeOK
    <3>2. Right(Asked(c), buffer[c], received[c])
      BY <2>7, <2>10 DEF Connection, Received
    <3> QED
      BY <2>2, <2>3, <2>5, <2>11, <3>1, <3>2, RightWithNext
  <2>13. Received(c)' /\ Finished(c)'
    BY <1>1, <2>7, <2>10, <2>12 DEF Connection, Received, Finished
  <2>14. Stepped(c)
    BY <1>4, <2>7, <2>9, <2>13 DEF Stepped, Connection
  <2> QED
    BY <1>1, <2>6, <2>14, OneConnection
<1> QED
  BY <1>1, <1>3, <1>4

LEMMA WriteStep ==
  ASSUME TransferInv, NEW c \in Conns, Write(c)
  PROVE  TransferInv'
<1>1. /\ FolderKept /\ QueueKept /\ \A d \in Conns \ {c} : Kept(d)
      /\ phase[c] = "head" /\ phase'[c] = "done" /\ written'[c] = buffer[c] /\ AllReceived(c)
      /\ <<received, buffer, upload, wire>>' = <<received, buffer, upload, wire>>
  BY DEF TransferInv, TransferTypeOK, Write, Phase, FolderKept, QueueKept, Kept,
         holding, accepting
<1>2. TransferTypeOK'
  BY DEF TransferInv, TransferTypeOK, Write, Phase, Phases, holding, accepting
<1>3. Asked(c)' = Asked(c) /\ file' = file /\ piece' = piece /\ Connection(c)
  BY <1>1, AskedKept DEF TransferInv, FolderKept
<1>4. Live(c) /\ ~Live(c)'
  BY <1>1 DEF Live
<1>5. file = NoFile => piece[c].size = 0
  <2>1. SUFFICES ASSUME file = NoFile PROVE piece[c].size = 0
    OBVIOUS
  <2>2. received[c] = 0
    BY <1>3, <1>4, <2>1 DEF Connection, InStream, Untouched
  <2>3. piece[c].size \in Nat
    BY PiecesAssumption DEF TransferInv, TransferTypeOK
  <2>4. piece[c].size <= 0 * MAX_DATA_LEN
    BY <1>1, <2>2, <2>3, PacketsCover DEF AllReceived
  <2> QED
    BY <2>3, <2>4, MaxDataLenAssumption
<1>6. Received(c)' /\ Finished(c)'
  BY <1>1, <1>3, <1>4, <1>5 DEF Connection, Received, Finished, AllReceived
<1>7. Stepped(c)
  BY <1>1, <1>3, <1>4, <1>6 DEF Stepped, Connection
<1> QED
  BY <1>1, <1>2, <1>7, OneConnection

-----------------------------------------------------------------------------
(* The queue of the holder.                                                *)

LEMMA ConnectStep ==
  ASSUME TransferInv, NEW c \in Conns, Connect(c)
  PROVE  TransferInv'
<1>1. /\ FolderKept /\ listening' = listening /\ \A d \in Conns \ {c} : Kept(d)
      /\ phase[c] = "idle"
      /\ <<received, buffer, written, upload, wire>>' = <<received, buffer, written, upload, wire>>
  BY DEF TransferInv, TransferTypeOK, Connect, Phase, FolderKept, Kept, holding
<1>2. backlog \in Seq(Conns) /\ phase \in [Conns -> Phases]
  BY DEF TransferInv, TransferTypeOK
<1>3. CASE phase' = [phase EXCEPT ![c] = "dead"] /\ backlog' = backlog
  <2>1. TransferTypeOK'
    BY <1>3 DEF TransferInv, TransferTypeOK, Connect, Phases, holding
  <2> QED
    BY <1>1, <1>2, <1>3, <2>1, GivesUp DEF QueueKept
<1>4. CASE phase' = [phase EXCEPT ![c] = "connected"] /\ backlog' = Append(backlog, c)
  <2>1. phase'[c] = "connected" /\ backlog' \in Seq(Conns)
    BY <1>2, <1>4
  <2>2. TransferTypeOK'
    BY <1>4, <2>1 DEF TransferInv, TransferTypeOK, Connect, Phases, holding
  <2>3. Asked(c)' = Asked(c) /\ file' = file /\ Connection(c) /\ Taken(c)' = Taken(c)
    BY <1>1, <2>1, AskedKept DEF TransferInv, FolderKept, Taken
  <2>4. Live(c) /\ Live(c)' /\ Untouched(c) /\ Untouched(c)' /\ ~Waits(c)
    BY <1>1, <2>1 DEF Live, Untouched, TransferInv, WaitsUntouched
  <2>5. Received(c)' /\ Finished(c)'
    BY <1>1, <2>1, <2>3, <2>4 DEF Connection, Received, Finished
  <2>6. Connection(c)'
    BY <2>4, <2>5 DEF Connection
  <2>7. PICK n \in Nat : n = Len(backlog)
    BY <1>2
  <2>8. /\ Len(backlog') = n + 1 /\ backlog'[n + 1] = c
        /\ \A k \in 1..n : backlog'[k] = backlog[k]
    BY <1>2, <1>4, <2>7
  <2>9. /\ \A i, j \in 1..n : backlog[i] = backlog[j] => i = j
        /\ listening # None => \A i \in 1..n : backlog[i] # listening
        /\ listening # None => listening # c
        /\ \A i \in 1..n : backlog[i] # c
    BY <2>4, <2>7 DEF TransferInv, WaitOnce, Waits
  <2>10. WaitOnce'
    <3>1. \A i \in 1..(n + 1) : i \in 1..n \/ i = n + 1
      OBVIOUS
    <3>2. \A i, j \in 1..(n + 1) : backlog'[i] = backlog'[j] => i = j
      BY <2>8, <2>9, <3>1
    <3>3. listening # None => \A i \in 1..(n + 1) : backlog'[i] # listening
      BY <2>8, <2>9, <3>1
    <3> QED
      BY <1>1, <2>8, <3>2, <3>3 DEF WaitOnce
  <2>11. ASSUME NEW d \in Conns PROVE Connection(d)' /\ WaitsUntouched(d)'
    <3>1. CASE d = c
      BY <2>1, <2>4, <2>6, <3>1 DEF WaitsUntouched
    <3>2. CASE d # c
      <4>1. /\ Connection(d)' /\ WaitsUntouched(d) /\ phase'[d] = phase[d]
            /\ Live(d)' = Live(d) /\ (Untouched(d)' <=> Untouched(d))
        BY <1>1, <3>2, KeptConnection DEF TransferInv, Kept
      <4>2. Waits(d)' => Waits(d)
        <5>1. \A i \in 1..(n + 1) : backlog'[i] = d => i \in 1..n /\ backlog[i] = d
          BY <2>8, <3>2
        <5> QED
          BY <1>1, <2>7, <2>8, <5>1 DEF Waits
      <4> QED
        BY <4>1, <4>2 DEF WaitsUntouched
    <3> QED
      BY <3>1, <3>2
  <2> QED
    BY <2>2, <2>10, <2>11 DEF TransferInv
<1> QED
  BY <1>3, <1>4 DEF Connect, Phase

LEMMA AcceptStep ==
  ASSUME TransferInv, Accept
  PROVE  TransferInv'
<1>1. /\ FolderKept /\ \A d \in Conns : Kept(d)
      /\ listening = None /\ listening' = Head(backlog) /\ backlog' = Tail(backlog)
      /\ backlog \in Seq(Conns) /\ backlog # <<>>
  BY DEF TransferInv, TransferTypeOK, Accept, FolderKept, Kept, holding, receiving
<1>2. PICK n \in Nat : n + 1 = Len(backlog)
  BY <1>1
<1>3. /\ backlog' \in Seq(Conns) /\ Len(backlog') = n /\ listening' \in Conns
      /\ listening' = backlog[1] /\ \A k \in 1..n : backlog'[k] = backlog[k + 1]
  BY <1>1, <1>2
<1>4. TransferTypeOK'
  BY <1>3 DEF TransferInv, TransferTypeOK, Accept, holding, receiving
<1>5. \A i, j \in 1..(n + 1) : backlog[i] = backlog[j] => i = j
  BY <1>2 DEF TransferInv, WaitOnce
<1>6. \A k \in 1..n : k + 1 \in 1..(n + 1) /\ k + 1 # 1
  OBVIOUS
<1>7. WaitOnce'
  <2>1. \A i, j \in 1..n : backlog'[i] = backlog'[j] => i = j
    BY <1>3, <1>5, <1>6
  <2>2. \A i \in 1..n : backlog'[i] # listening'
    BY <1>3, <1>5, <1>6
  <2> QED
    BY <1>3, <2>1, <2>2 DEF WaitOnce
<1>8. ASSUME NEW d \in Conns PROVE Connection(d)' /\ WaitsUntouched(d)'
  <2>1. /\ Connection(d)' /\ WaitsUntouched(d) /\ phase'[d] = phase[d]
        /\ Live(d)' = Live(d) /\ (Untouched(d)' <=> Untouched(d))
    BY <1>1, KeptConnection DEF TransferInv, Kept
  <2>2. Waits(d)' => Waits(d)
    <3>1. 1 \in 1..Len(backlog) /\ \A k \in 1..n : k + 1 \in 1..Len(backlog)
      BY <1>2
    <3> QED
      BY <1>3, <3>1 DEF Waits
  <2> QED
    BY <2>1, <2>2 DEF WaitsUntouched
<1> QED
  BY <1>4, <1>7, <1>8 DEF TransferInv

\* The queue without the connection whose request has been read.
LEMMA ReadStep ==
  ASSUME TransferInv, FolderKept, TransferTypeOK', listening # None, listening' = None,
         backlog' = backlog, NEW c \in Conns, c = listening, Connection(c)', phase'[c] # "idle",
         \A d \in Conns \ {c} : Kept(d)
  PROVE  TransferInv'
<1>1. WaitOnce'
  BY DEF TransferInv, WaitOnce
<1>2. ASSUME NEW d \in Conns PROVE Connection(d)' /\ WaitsUntouched(d)'
  <2>1. CASE d = c
    <3>1. ~Waits(c)' /\ phase'[c] # "idle"
      BY DEF TransferInv, WaitOnce, Waits
    <3> QED
      BY <2>1, <3>1 DEF WaitsUntouched
  <2>2. CASE d # c
    <3>1. /\ Connection(d)' /\ WaitsUntouched(d) /\ phase'[d] = phase[d]
          /\ Live(d)' = Live(d) /\ (Untouched(d)' <=> Untouched(d))
      BY <2>2, KeptConnection DEF TransferInv, Kept
    <3>2. Waits(d)' => Waits(d)
      BY DEF Waits
    <3> QED
      BY <3>1, <3>2 DEF WaitsUntouched
  <2> QED
    BY <2>1, <2>2
<1> QED
  BY <1>1, <1>2 DEF TransferInv

\* What Serve leaves to send: nothing, or the stream of a piece.
LEMMA ServeType ==
  ASSUME TransferTypeOK, NEW c \in Conns, NEW wanted \in Pieces \cup {None}, Serve(c, wanted)
  PROVE  upload' \in [Conns -> Seq(Items) \cup {None}]
<1>1. upload \in [Conns -> Seq(Items) \cup {None}]
  BY DEF TransferTypeOK
<1>2. CASE wanted = None \/ file = NoFile
  <2>1. <<>> \in Seq(Items)
    OBVIOUS
  <2>2. upload' = [upload EXCEPT ![c] = <<>>]
    BY <1>2 DEF Serve
  <2> QED
    BY <1>1, <2>1, <2>2
<1>3. CASE ~(wanted = None \/ file = NoFile)
  <2>1. file \in Seq(Bytes) /\ wanted.offset \in Nat /\ wanted.size \in Nat
    BY <1>3, FilesAssumption, PiecesAssumption DEF TransferTypeOK
  <2>2. PICK items \in Seq(Items) : items = ToSend(Fread(file, wanted.offset, wanted.size))
    <3>1. Fread(file, wanted.offset, wanted.size) \in Seq(Bytes)
      BY <2>1, FileRead
    <3> QED
      BY <3>1, ItemsSent
  <2>3. upload' = [upload EXCEPT ![c] = items]
    BY <1>3, <2>2 DEF Serve
  <2> QED
    BY <1>1, <2>3
<1> QED
  BY <1>2, <1>3

LEMMA RecvRequestStep ==
  ASSUME TransferInv, RecvRequest
  PROVE  TransferInv'
<1>1. PICK c \in Conns : c = listening
  BY DEF TransferInv, TransferTypeOK, RecvRequest
<1>2. /\ FolderKept /\ listening # None /\ listening' = None /\ backlog' = backlog
      /\ <<phase, received, buffer, written, wire>>' = <<phase, received, buffer, written, wire>>
      /\ file' = file /\ piece' = piece /\ holder' = holder
  BY DEF RecvRequest, FolderKept, holding, receiving
<1>3. \/ /\ phase[c] \notin {"connected", "mute", "dead"}
         /\ Serve(c, piece[c])
      \/ /\ phase[c] = "dead"
         /\ \E wanted \in Pieces \cup {None} : Serve(c, wanted)
  BY <1>1 DEF RecvRequest
<1>4. PICK wanted \in Pieces \cup {None} :
        Serve(c, wanted) /\ (phase[c] # "dead" => wanted = piece[c])
  <2>1. piece[c] \in Pieces
    BY DEF TransferInv, TransferTypeOK
  <2> QED
    BY <1>3, <2>1
<1>5. TransferTypeOK'
  <2>1. upload' \in [Conns -> Seq(Items) \cup {None}]
    BY <1>4, ServeType DEF TransferInv
  <2> QED
    BY <1>2, <2>1 DEF TransferInv, TransferTypeOK
<1>6. ASSUME NEW d \in Conns \ {c} PROVE Kept(d)
  BY <1>2, <1>4 DEF Serve, Kept, TransferInv, TransferTypeOK
<1>7. Waits(c) /\ Connection(c) /\ WaitsUntouched(c) /\ Asked(c)' = Asked(c)
  BY <1>1, <1>2, AskedKept DEF Waits, TransferInv
<1>8. phase[c] # "idle"
  BY <1>7 DEF WaitsUntouched, Live
<1>9. Live(c)' = Live(c) /\ Received(c)' /\ Finished(c)'
  <2>1. Live(c)' = Live(c)
    BY <1>2 DEF Live
  <2> QED
    BY <1>2, <1>7, <2>1 DEF Connection, Received, Finished, AllReceived
<1>10. ASSUME Live(c) PROVE Untouched(c)' \/ InStream(c)'
  <2>1. /\ phase[c] # "body" /\ received[c] = 0 /\ wire[c] = <<>> /\ Untouched(c)
        /\ phase[c] # "dead" /\ wanted = piece[c]
    BY <1>4, <1>7, <1>10 DEF WaitsUntouched, Untouched, Live
  <2>2. CASE wanted = None \/ file = NoFile
    <3>1. upload'[c] = <<>>
      BY <1>4, <2>2 DEF Serve, TransferInv, TransferTypeOK
    <3> QED
      BY <1>2, <2>1, <3>1 DEF Untouched
  <2>3. CASE ~(wanted = None \/ file = NoFile)
    <3>1. Asked(c) \in Seq(Bytes) /\ Asked(c) = Fread(file, wanted.offset, wanted.size)
      BY <2>1, <2>3, AskedType DEF Asked, TransferInv
    <3>2. PICK items \in Seq(Items) : items = ToSend(Asked(c))
      BY <3>1, ItemsSent
    <3>3. upload'[c] = items
      BY <1>4, <2>3, <3>1, <3>2 DEF Serve, TransferInv, TransferTypeOK
    <3>4. Taken(c)' = 0
      BY <1>2, <2>1 DEF Taken
    <3>5. wire'[c] = <<>> /\ Len(wire'[c]) = 0
      BY <1>2, <2>1
    <3>6. Len(items) \in Nat
      BY <3>2
    <3>7. ASSUME NEW k \in 1..Len(items) PROVE items[k] = items[0 + 0 + k]
      OBVIOUS
    <3>8. 0 + 0 + Len(items) = Len(items)
      BY <3>6
    <3>9. InStream(c)'
      BY <1>2, <1>7, <2>3, <3>2, <3>3, <3>4, <3>5, <3>7, <3>8 DEF InStream
    <3> QED
      BY <3>9
  <2> QED
    BY <2>2, <2>3
<1>11. CASE Live(c)
  <2>1. Connection(c)' /\ phase'[c] # "idle"
    BY <1>2, <1>8, <1>9, <1>10, <1>11 DEF Connection
  <2> QED
    BY <1>1, <1>2, <1>5, <1>6, <2>1, ReadStep
<1>12. CASE ~Live(c)
  <2>1. Connection(c)' /\ phase'[c] # "idle"
    BY <1>2, <1>8, <1>9, <1>12 DEF Connection
  <2> QED
    BY <1>1, <1>2, <1>5, <1>6, <2>1, ReadStep
<1> QED
  BY <1>11, <1>12

-----------------------------------------------------------------------------
(* The upload threads.                                                     *)

LEMMA SendItemStep ==
  ASSUME TransferInv, NEW c \in Conns, SendItem(c)
  PROVE  TransferInv'
<1>1. /\ FolderKept /\ QueueKept /\ \A d \in Conns \ {c} : Kept(d)
      /\ upload[c] \notin {None, <<>>} /\ upload[c] \in Seq(Items) /\ wire[c] \in Seq(Items)
      /\ wire'[c] = Append(wire[c], Head(upload[c])) /\ upload'[c] = Tail(upload[c])
      /\ <<phase, received, buffer, written>>' = <<phase, received, buffer, written>>
  BY DEF TransferInv, TransferTypeOK, SendItem, Uploading, FolderKept, QueueKept, Kept,
         holding, accepting, receiving
<1>2. PICK u \in Seq(Items) : u = upload[c] /\ u # <<>>
  BY <1>1
<1>3. PICK w \in Seq(Items) : w = wire[c]
  BY <1>1
<1>4. PICK v \in Seq(Items) : v = Tail(u)
  <2>1. Tail(u) \in Seq(Items)
    BY <1>2
  <2> QED
    BY <2>1
<1>5. PICK x \in Seq(Items) : x = Append(w, Head(u))
  <2>1. Head(u) \in Items
    BY <1>2
  <2>2. Append(w, Head(u)) \in Seq(Items)
    BY <2>1
  <2> QED
    BY <2>2
<1>6. upload'[c] = v /\ wire'[c] = x
  BY <1>1, <1>2, <1>3, <1>4, <1>5
<1>7. TransferTypeOK'
  <2>1. upload' = [upload EXCEPT ![c] = v] /\ wire' = [wire EXCEPT ![c] = x]
    BY <1>2, <1>3, <1>4, <1>5 DEF SendItem
  <2>2. /\ upload' \in [Conns -> Seq(Items) \cup {None}]
        /\ wire' \in [Conns -> Seq(Items)]
    BY <2>1 DEF TransferInv, TransferTypeOK
  <2> QED
    BY <2>2 DEF TransferInv, TransferTypeOK, SendItem, holding, accepting, receiving
<1>8. Asked(c)' = Asked(c) /\ file' = file /\ Connection(c) /\ Taken(c)' = Taken(c)
  BY <1>1, AskedKept DEF TransferInv, FolderKept, Taken
<1>9. Live(c)' = Live(c) /\ ~Untouched(c)
  BY <1>1 DEF Live, Untouched
<1>10. phase[c] # "idle" /\ phase'[c] # "idle"
  BY <1>1, <1>9 DEF TransferInv, WaitsUntouched
<1>11. Received(c)' /\ Finished(c)'
  BY <1>1, <1>8, <1>9 DEF Connection, Received, Finished, AllReceived, FolderKept
<1>12. ASSUME Live(c) PROVE InStream(c)'
  <2>1. InStream(c)
    BY <1>8, <1>9, <1>12 DEF Connection
  <2>2. PICK items : items = ToSend(Asked(c))
    OBVIOUS
  <2>3. PICK t \in Nat : t = Taken(c)
    <3>1. received[c] \in Nat
      BY DEF TransferInv, TransferTypeOK
    <3> QED
      BY <3>1 DEF Taken
  <2>4. /\ file # NoFile /\ t + Len(w) + Len(u) = Len(items)
        /\ \A k \in 1..Len(w) : w[k] = items[t + k]
        /\ \A k \in 1..Len(u) : u[k] = items[t + Len(w) + k]
    BY <1>2, <1>3, <2>1, <2>2, <2>3 DEF InStream
  <2>5. PICK m \in Nat, n \in Nat : m = Len(w) /\ n + 1 = Len(u)
    <3>1. Len(u) \in Nat /\ Len(u) >= 1
      BY <1>2
    <3>2. Len(u) - 1 \in Nat /\ (Len(u) - 1) + 1 = Len(u) /\ Len(w) \in Nat
      BY <3>1
    <3> QED
      BY <3>2
  <2>9. Len(x) = m + 1 /\ x[m + 1] = u[1] /\ \A k \in 1..m : x[k] = w[k]
    <3>1. Head(u) = u[1]
      BY <1>2
    <3> QED
      BY <1>5, <2>5, <3>1
  <2>10. Len(v) = n /\ \A k \in 1..n : v[k] = u[k + 1]
    BY <1>2, <1>4, <2>5
  <2>6. t + (m + 1) + n = Len(items)
    <3>1. t + Len(w) + Len(u) = Len(items)
      BY <2>4
    <3>2. t + m + (n + 1) = Len(items)
      BY <2>5, <3>1
    <3> QED
      BY <3>2
  <2>7. ASSUME NEW k \in 1..(m + 1) PROVE x[k] = items[t + k]
    <3>1. CASE k \in 1..m
      BY <2>9, <2>4, <2>5, <3>1
    <3>2. CASE k = m + 1
      <4>1. 1 \in 1..Len(u)
        BY <2>5
      <4>2. u[1] = items[t + m + 1]
        BY <2>4, <2>5, <4>1
      <4>3. t + m + 1 = t + k
        BY <3>2
      <4> QED
        BY <2>9, <3>2, <4>2, <4>3
    <3> QED
      BY <3>1, <3>2
  <2>8. ASSUME NEW k \in 1..n PROVE v[k] = items[t + (m + 1) + k]
    <3>1. k + 1 \in 1..Len(u)
      BY <2>5
    <3>2. u[k + 1] = items[t + m + (k + 1)]
      BY <2>4, <2>5, <3>1
    <3>3. t + m + (k + 1) = t + (m + 1) + k
      OBVIOUS
    <3> QED
      BY <2>10, <3>2, <3>3
  <2> QED
    BY <1>6, <1>8, <2>2, <2>3, <2>4, <2>5, <2>6, <2>7, <2>8, <2>9, <2>10 DEF InStream
<1>13. Stepped(c)
  BY <1>9, <1>10, <1>11, <1>12 DEF Stepped, Connection
<1> QED
  BY <1>1, <1>7, <1>13, OneConnection

LEMMA SendFailsStep ==
  ASSUME TransferInv, NEW c \in Conns, SendFails(c)
  PROVE  TransferInv'
<1>1. /\ FolderKept /\ QueueKept /\ \A d \in Conns \ {c} : Kept(d)
      /\ phase[c] = "dead" /\ upload[c] \in Seq(Items) /\ upload[c] # <<>>
      /\ <<phase, received, buffer, written, wire>>' = <<phase, received, buffer, written, wire>>
  BY DEF TransferInv, TransferTypeOK, SendFails, Uploading, FolderKept, QueueKept, Kept,
         holding, accepting, receiving
<1>2. TransferTypeOK'
  <2>1. PICK rest \in {Tail(upload[c]), <<>>} : upload' = [upload EXCEPT ![c] = rest]
    BY DEF SendFails
  <2>2. Tail(upload[c]) \in Seq(Items) /\ <<>> \in Seq(Items)
    BY <1>1
  <2>3. upload' \in [Conns -> Seq(Items) \cup {None}]
    BY <2>1, <2>2 DEF TransferInv, TransferTypeOK
  <2> QED
    BY <2>3 DEF TransferInv, TransferTypeOK, SendFails, holding, accepting, receiving
<1> QED
  BY <1>1, <1>2, GivesUp

LEMMA HolderGoesStep ==
  ASSUME TransferInv, NEW how \in {"down", "silent"}, HolderGoes(how)
  PROVE  TransferInv'
<1>1. /\ FolderKept /\ QueueKept /\ \A d \in Conns : Kept(d)
  BY DEF HolderGoes, FolderKept, QueueKept, Kept, accepting, receiving
<1>2. TransferTypeOK' /\ WaitOnce'
  BY DEF TransferInv, TransferTypeOK, WaitOnce, HolderGoes, accepting, receiving
<1>3. ASSUME NEW d \in Conns PROVE Connection(d)' /\ WaitsUntouched(d)'
  <2>1. /\ Connection(d)' /\ WaitsUntouched(d) /\ phase'[d] = phase[d]
        /\ Live(d)' = Live(d) /\ (Untouched(d)' <=> Untouched(d))
    BY <1>1, KeptConnection DEF TransferInv, Kept
  <2>2. Waits(d)' = Waits(d)
    BY <1>1 DEF QueueKept, Waits
  <2> QED
    BY <2>1, <2>2 DEF WaitsUntouched
<1> QED
  BY <1>2, <1>3 DEF TransferInv

-----------------------------------------------------------------------------
(* The theorems.                                                           *)

LEMMA TransferStarts ==
  ASSUME TransferInit
  PROVE  TransferInv
<1>1. TransferTypeOK
  <2>1. ASSUME NEW c \in Conns
        PROVE  Zeros(piece[c].size) \in Seq(Bytes) /\ Len(Zeros(piece[c].size)) = piece[c].size
    <3>1. PICK n \in Nat : n = piece[c].size
      BY PiecesAssumption DEF TransferInit
    <3>2. Zeros(n) \in [1..n -> Bytes]
      BY DEF Zeros, Bytes, NUL
    <3>3. Zeros(n) \in Seq(Bytes) /\ Len(Zeros(n)) = n
      BY <3>2 DEF Zeros
    <3> QED
      BY <3>1, <3>3
  <2>2. buffer \in [Conns -> Seq(Bytes)] /\ \A c \in Conns : Len(buffer[c]) = piece[c].size
    BY <2>1 DEF TransferInit
  <2> QED
    BY <2>2 DEF TransferInit, TransferTypeOK, Phases
<1>2. WaitOnce
  BY DEF TransferInit, WaitOnce
<1>3. ASSUME NEW c \in Conns PROVE Connection(c) /\ WaitsUntouched(c)
  <2>1. Untouched(c) /\ ~Waits(c)
    BY DEF TransferInit, Untouched, Waits
  <2>2. Finished(c)
    BY DEF TransferInit, Finished
  <2>3. Received(c)
    <3>1. SUFFICES ASSUME file # NoFile PROVE Right(Asked(c), buffer[c], received[c])
      BY DEF Received
    <3>2. Asked(c) \in Seq(Bytes) /\ Len(Asked(c)) = piece[c].size
      BY <1>1, <3>1, AskedType
    <3>3. buffer[c] = Zeros(piece[c].size) /\ received[c] = 0
      BY DEF TransferInit
    <3> QED
      BY <3>2, <3>3, RightAtFirst
  <2> QED
    BY <2>1, <2>2, <2>3 DEF Connection, WaitsUntouched
<1> QED
  BY <1>1, <1>2, <1>3 DEF TransferInv

LEMMA TransferStuttered ==
  ASSUME TransferInv, UNCHANGED transferVars
  PROVE  TransferInv'
<1>1. FolderKept /\ QueueKept /\ \A d \in Conns : Kept(d)
  BY DEF transferVars, holding, accepting, receiving, FolderKept, QueueKept, Kept
<1>2. TransferTypeOK' /\ WaitOnce'
  BY DEF TransferInv, TransferTypeOK, WaitOnce, transferVars, holding, accepting, receiving
<1>3. ASSUME NEW d \in Conns PROVE Connection(d)' /\ WaitsUntouched(d)'
  <2>1. /\ Connection(d)' /\ WaitsUntouched(d) /\ phase'[d] = phase[d]
        /\ Live(d)' = Live(d) /\ (Untouched(d)' <=> Untouched(d))
    BY <1>1, KeptConnection DEF TransferInv, Kept
  <2>2. Waits(d)' = Waits(d)
    BY <1>1 DEF QueueKept, Waits
  <2> QED
    BY <2>1, <2>2 DEF WaitsUntouched
<1> QED
  BY <1>2, <1>3 DEF TransferInv

THEOREM TransferInvariance == TransferSpec => []TransferInv
<1>1. TransferInit => TransferInv
  BY TransferStarts
<1>2. TransferInv /\ [TransferNext]_transferVars => TransferInv'
  <2> SUFFICES ASSUME TransferInv, [TransferNext]_transferVars PROVE TransferInv'
    OBVIOUS
  <2>1. CASE Accept
    BY <2>1, AcceptStep
  <2>2. CASE RecvRequest
    BY <2>2, RecvRequestStep
  <2>3. CASE HolderStops
    BY <2>3, HolderGoesStep DEF HolderStops
  <2>4. ASSUME NEW c \in Conns, Uploader(c) PROVE TransferInv'
    <3>1. CASE SendItem(c)
      BY <3>1, SendItemStep
    <3>2. CASE SendFails(c)
      BY <3>2, SendFailsStep
    <3>3. CASE SendKills(c)
      BY <3>3, HolderGoesStep DEF SendKills
    <3> QED
      BY <2>4, <3>1, <3>2, <3>3 DEF Uploader
  <2>5. ASSUME NEW c \in Conns, Downloader(c) PROVE TransferInv'
    <3>1. CASE Connect(c)
      BY <3>1, ConnectStep
    <3>2. CASE SendRequest(c)
      BY <3>2, SendRequestStep
    <3>3. CASE RecvLength(c)
      BY <3>3, RecvLengthStep
    <3>4. CASE RecvData(c)
      BY <3>4, RecvDataStep
    <3>5. CASE Write(c)
      BY <3>5, WriteStep
    <3>6. CASE DecompressFails(c)
      BY <3>6, DecompressFailsStep
    <3> QED
      BY <2>5, <3>1, <3>2, <3>3, <3>4, <3>5, <3>6 DEF Downloader
  <2>6. ASSUME NEW c \in Conns, DownloaderEnds(c) \/ DownloaderSilent(c) PROVE TransferInv'
    BY <2>6, DownloaderEndsStep, DownloaderSilentStep
  <2>7. CASE UNCHANGED transferVars
    BY <2>7, TransferStuttered
  <2> QED
    BY <2>1, <2>2, <2>3, <2>4, <2>5, <2>6, <2>7 DEF TransferNext, Listening
<1> QED
  BY <1>1, <1>2, PTL DEF TransferSpec

\* The values of all variables, and that no packet makes a buffer longer or shorter
\* than its piece.
THEOREM TransferTypes == TransferSpec => []TransferTypeOK
<1>1. TransferInv => TransferTypeOK
  BY DEF TransferInv
<1> QED
  BY <1>1, TransferInvariance, PTL

\* All packets of a piece that is written have been received.
LEMMA WrittenBytes ==
  ASSUME TransferInv, NEW c \in Conns, written[c] # None, file # NoFile,
         NEW j \in 1..piece[c].size
  PROVE  LET i == (j - 1) \div MAX_DATA_LEN
         IN  /\ i \in Nat
             /\ \/ written[c][j] = Asked(c)[j]
                \/ /\ \E k \in (i * MAX_DATA_LEN + 1)..j : Asked(c)[k] = NUL
                   /\ written[c][j] = NUL \/ Overran(Asked(c), i, j)
<1>1. piece[c].size \in Nat
  BY PiecesAssumption DEF TransferInv, TransferTypeOK
<1>2. PICK n \in Nat : n = PktCount(piece[c].size)
  BY <1>1, PacketsCover
<1>3. /\ phase[c] = "done" /\ written[c] = buffer[c] /\ received[c] = n
      /\ Right(Asked(c), buffer[c], n)
  BY <1>2 DEF TransferInv, Connection, Finished, AllReceived, Received
<1>4. PICK i \in Nat : i = (j - 1) \div MAX_DATA_LEN
  <2>1. j - 1 \in Nat
    BY <1>1
  <2> QED
    BY <2>1, Division
<1>5. i * MAX_DATA_LEN < j /\ j <= i * MAX_DATA_LEN + MAX_DATA_LEN
  <2>1. j - 1 \in Nat
    BY <1>1
  <2>2. PICK r \in Nat : r < MAX_DATA_LEN /\ j - 1 = i * MAX_DATA_LEN + r
    BY <1>4, <2>1, Division
  <2>3. PICK lo \in Nat : lo = i * MAX_DATA_LEN
    BY PacketStarts
  <2>4. j \in Nat /\ MAX_DATA_LEN \in Nat
    BY <1>1, MaxDataLenAssumption
  <2>5. lo < j /\ j <= lo + MAX_DATA_LEN
    BY <2>2, <2>3, <2>4
  <2> QED
    BY <2>3, <2>5
<1>6. i < n
  <2>1. piece[c].size <= n * MAX_DATA_LEN
    BY <1>1, <1>2, PacketsCover
  <2>2. i * MAX_DATA_LEN < n * MAX_DATA_LEN
    BY <1>1, <1>5, <2>1, PacketStarts
  <2>3. CASE n < i
    BY <2>2, <2>3, PacketStarts, MaxDataLenAssumption
  <2>4. CASE n = i
    BY <2>2, <2>4, PacketStarts
  <2> QED
    BY <2>3, <2>4
<1>7. j \in 1..Len(Asked(c))
  BY AskedType DEF TransferInv
<1>8. RightByte(Asked(c), buffer[c], n, i, j)
  BY <1>3, <1>5, <1>7 DEF Right
<1> QED
  BY <1>3, <1>4, <1>6, <1>8 DEF RightByte

\* What a binary file loses in a transfer: nothing before the first NUL byte of a
\* packet, and behind it the bytes become NUL, or what the heap held behind an
\* earlier packet.
THEOREM BinaryLossIsBounded == TransferSpec => []BinaryLossBounded
<1>1. TransferInv => BinaryLossBounded
  BY WrittenBytes DEF BinaryLossBounded, Overran
<1> QED
  BY <1>1, TransferInvariance, PTL

\* A piece of a text file that piece_download writes is what the holder's file has
\* there, however the packets are cut, delayed or lost.
THEOREM TextIsExact == TransferSpec => []TextPiecesExact
<1>1. ASSUME TransferInv, NEW c \in Conns, written[c] # None, ~HasNul(Asked(c))
      PROVE  written[c] = Asked(c)
  <2>1. /\ written[c] = buffer[c] /\ buffer[c] \in Seq(Bytes) /\ Len(buffer[c]) = piece[c].size
        /\ file = NoFile => piece[c].size = 0
    BY <1>1 DEF TransferInv, TransferTypeOK, Connection, Finished
  <2>2. CASE file = NoFile
    <3>1. buffer[c] = <<>>
      BY <2>1, <2>2
    <3> QED
      BY <2>1, <2>2, <3>1 DEF Asked
  <2>3. CASE file # NoFile
    <3>1. Asked(c) \in Seq(Bytes) /\ Len(Asked(c)) = piece[c].size
      BY <1>1, <2>3, AskedType DEF TransferInv
    <3>2. ASSUME NEW j \in 1..piece[c].size PROVE written[c][j] = Asked(c)[j]
      <4>1. PICK i \in Nat : i = (j - 1) \div MAX_DATA_LEN
        BY <1>1, <2>3, WrittenBytes
      <4>2. \A k \in (i * MAX_DATA_LEN + 1)..j : Asked(c)[k] # NUL
        <5>1. i * MAX_DATA_LEN \in Nat
          BY <4>1, PacketStarts
        <5>2. piece[c].size \in Nat
          BY <1>1, PiecesAssumption DEF TransferInv, TransferTypeOK
        <5>3. (i * MAX_DATA_LEN + 1)..j \subseteq 1..Len(Asked(c))
          BY <3>1, <5>1, <5>2
        <5> QED
          BY <1>1, <5>3 DEF HasNul
      <4> QED
        BY <1>1, <2>3, <4>1, <4>2, WrittenBytes
    <3> QED
      BY <2>1, <3>1, <3>2, SeqEqual
  <2> QED
    BY <2>2, <2>3
<1>2. TransferInv => TextPiecesExact
  BY <1>1 DEF TextPiecesExact
<1> QED
  BY <1>2, TransferInvariance, PTL
=============================================================================
