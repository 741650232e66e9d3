----------------------------- MODULE MonitorProofs -----------------------------
(***************************************************************************)
(* Theorems about a peer's file monitor: the stream in which it announces  *)
(* its table to the tracker (UpdateStream), for tables of any length, any  *)
(* number of announcements and any capacity of the connection; and the     *)
(* directories that it watches (DirWatch), for any set of paths, any       *)
(* number of slots and any number of directories made and removed.         *)
(***************************************************************************)
EXTENDS UpdateStream, DirWatch, SequenceTheorems, FiniteSetTheorems, FunctionTheorems, TLAPS

-----------------------------------------------------------------------------
(* The stream to the tracker.  What is on its way is a chain of packets    *)
(* between two places: the place that the handshake thread has reached in  *)
(* all that was announced, and the place that the monitor thread has       *)
(* reached in sending it.                                                  *)

\* So many tables have been begun, and so many nodes of the last one have passed.
Place == [table : Nat, node : Nat]

\* How a packet leads from one place to the next.  A table is followed by another
\* one when it is complete; a list that grows while it is sent has surplus nodes.
Link(from, packet, to, sizes, race) ==
  \/ packet.type = "KEEP_ALIVE" /\ to = from
  \/ /\ packet.type = "SIZE"
     /\ from.table + 1 \in 1..Len(sizes)
     /\ from.table > 0 => from.node >= sizes[from.table]
     /\ packet.size = sizes[from.table + 1]
     /\ to = [table |-> from.table + 1, node |-> 0]
  \/ /\ packet.type = "NODE"
     /\ from.table \in 1..Len(sizes)
     /\ packet.node.file = from.node + 1
     /\ to = [table |-> from.table, node |-> from.node + 1]
     /\ ~race => /\ from.node < sizes[from.table]
                 /\ packet.node.more => from.node + 1 < sizes[from.table]

Chained(at, packets, from, to, sizes, race) ==
  /\ \A i \in 1..Len(packets) : Link(at[i], packets[i], at[i + 1], sizes, race)
  /\ at[1] = from
  /\ at[Len(packets) + 1] = to

Connected(packets, from, to, sizes, race) ==
  \E at \in [1..(Len(packets) + 1) -> Place] : Chained(at, packets, from, to, sizes, race)

LEMMA PacketType ==
  ASSUME NEW packet \in Packet
  PROVE  /\ packet.type = "SIZE" => packet.size \in 1..MaxFiles
         /\ packet.type = "NODE" => packet.node \in Node
BY DEF Packet

\* A link stays one when more tables are announced, or a race is noticed.
LEMMA LinkStays ==
  ASSUME NEW from \in Place, NEW packet, NEW to,
         NEW sizes \in Seq(Nat), NEW more \in Seq(Nat),
         NEW race \in BOOLEAN, NEW later \in BOOLEAN,
         Link(from, packet, to, sizes, race), race => later,
         Len(sizes) <= Len(more), \A i \in 1..Len(sizes) : more[i] = sizes[i]
  PROVE  Link(from, packet, to, more, later)
<1>1. from.table \in Nat /\ from.node \in Nat /\ Len(sizes) \in Nat /\ Len(more) \in Nat
  BY DEF Place
<1>2. CASE packet.type = "KEEP_ALIVE" /\ to = from
  BY <1>2 DEF Link
<1>3. CASE /\ packet.type = "SIZE"
           /\ from.table + 1 \in 1..Len(sizes)
           /\ from.table > 0 => from.node >= sizes[from.table]
           /\ packet.size = sizes[from.table + 1]
           /\ to = [table |-> from.table + 1, node |-> 0]
  <2>1. from.table + 1 \in 1..Len(more) /\ more[from.table + 1] = sizes[from.table + 1]
    <3>1. from.table + 1 \in 1..Len(sizes) /\ 1..Len(sizes) \subseteq 1..Len(more)
      BY <1>1, <1>3
    <3> QED
      BY <3>1
  <2>2. from.table > 0 => more[from.table] = sizes[from.table]
    <3>1. from.table + 1 \in 1..Len(sizes)
      BY <1>3
    <3>2. from.table > 0 => from.table \in 1..Len(sizes)
      BY <1>1, <3>1
    <3> QED
      BY <3>2
  <2> QED
    BY <1>3, <2>1, <2>2 DEF Link
<1>4. CASE /\ packet.type = "NODE"
           /\ from.table \in 1..Len(sizes)
           /\ packet.node.file = from.node + 1
           /\ to = [table |-> from.table, node |-> from.node + 1]
           /\ ~race => /\ from.node < sizes[from.table]
                       /\ packet.node.more => from.node + 1 < sizes[from.table]
  <2>1. from.table \in 1..Len(more) /\ more[from.table] = sizes[from.table]
    BY <1>1, <1>4
  <2> QED
    BY <1>4, <2>1 DEF Link
<1> QED
  BY <1>2, <1>3, <1>4 DEF Link

LEMMA Weaken ==
  ASSUME NEW packets \in Seq(Packet), NEW from, NEW to,
         NEW sizes \in Seq(Nat), NEW race \in BOOLEAN, NEW later \in BOOLEAN,
         Connected(packets, from, to, sizes, race), race => later
  PROVE  Connected(packets, from, to, sizes, later)
<1>1. PICK at \in [1..(Len(packets) + 1) -> Place] : Chained(at, packets, from, to, sizes, race)
  BY DEF Connected
<1>2. ASSUME NEW i \in 1..Len(packets)
      PROVE  Link(at[i], packets[i], at[i + 1], sizes, later)
  <2>1. at[i] \in Place /\ Len(packets) \in Nat
    OBVIOUS
  <2>2. Link(at[i], packets[i], at[i + 1], sizes, race)
    BY <1>1 DEF Chained
  <2> QED
    BY <2>1, <2>2, LinkStays
<1>3. Chained(at, packets, from, to, sizes, later)
  BY <1>1, <1>2 DEF Chained
<1> QED
  BY <1>3 DEF Connected

\* One more packet at the end, ...
LEMMA Extend ==
  ASSUME NEW packets \in Seq(Packet), NEW packet \in Packet,
         NEW from, NEW to \in Place, NEW next \in Place,
         NEW sizes \in Seq(Nat), NEW more \in Seq(Nat), NEW race \in BOOLEAN,
         Connected(packets, from, to, sizes, race),
         Len(sizes) <= Len(more), \A i \in 1..Len(sizes) : more[i] = sizes[i],
         Link(to, packet, next, more, race)
  PROVE  Connected(Append(packets, packet), from, next, more, race)
<1> DEFINE longer == Append(packets, packet)
<1>1. PICK at \in [1..(Len(packets) + 1) -> Place] : Chained(at, packets, from, to, sizes, race)
  BY DEF Connected
<1>2. /\ Len(packets) \in Nat /\ Len(longer) = Len(packets) + 1
      /\ \A i \in 1..Len(packets) : longer[i] = packets[i]
      /\ longer[Len(packets) + 1] = packet
  BY AppendProperties
<1> DEFINE places == [i \in 1..(Len(packets) + 2) |-> IF i <= Len(packets) + 1 THEN at[i] ELSE next]
<1> HIDE DEF longer
<1>3. places \in [1..(Len(longer) + 1) -> Place]
  BY <1>2
<1>4. /\ \A i \in 1..(Len(packets) + 1) : places[i] = at[i]
      /\ places[Len(packets) + 2] = next
  BY <1>2
<1> HIDE DEF places
<1>5. ASSUME NEW i \in 1..Len(longer)
      PROVE  Link(places[i], longer[i], places[i + 1], more, race)
  <2>1. CASE i \in 1..Len(packets)
    <3>0. i \in 1..(Len(packets) + 1) /\ i + 1 \in 1..(Len(packets) + 1)
      BY <1>2, <2>1
    <3>1. /\ at[i] \in Place /\ places[i] = at[i] /\ places[i + 1] = at[i + 1]
          /\ longer[i] = packets[i]
      BY <1>2, <1>4, <2>1, <3>0
    <3>2. Link(at[i], packets[i], at[i + 1], sizes, race)
      BY <1>1, <2>1 DEF Chained
    <3>3. Link(at[i], packets[i], at[i + 1], more, race)
      BY <3>1, <3>2, LinkStays
    <3> QED
      BY <3>1, <3>3
  <2>2. CASE i = Len(packets) + 1
    <3>1. places[i] = to /\ places[i + 1] = next /\ longer[i] = packet
      BY <1>1, <1>2, <1>4, <2>2 DEF Chained
    <3> QED
      BY <3>1
  <2> QED
    BY <1>2, <2>1, <2>2
<1>6. places[1] = from /\ places[Len(longer) + 1] = next
  BY <1>1, <1>2, <1>4 DEF Chained
<1>7. Chained(places, longer, from, next, more, race)
  BY <1>5, <1>6 DEF Chained
<1>8. Connected(longer, from, next, more, race)
  BY <1>3, <1>7 DEF Connected
<1> QED
  BY <1>8 DEF longer

\* ... and the first one taken away.
LEMMA Shrink ==
  ASSUME NEW packets \in Seq(Packet), packets # <<>>, NEW from, NEW to,
         NEW sizes, NEW race,
         Connected(packets, from, to, sizes, race)
  PROVE  \E next \in Place : /\ Link(from, Head(packets), next, sizes, race)
                             /\ Connected(Tail(packets), next, to, sizes, race)
<1> DEFINE rest == Tail(packets)
<1>1. PICK at \in [1..(Len(packets) + 1) -> Place] : Chained(at, packets, from, to, sizes, race)
  BY DEF Connected
<1>2. /\ Len(packets) \in Nat /\ Len(packets) > 0 /\ Head(packets) = packets[1]
      /\ rest \in Seq(Packet) /\ Len(rest) = Len(packets) - 1
      /\ \A i \in 1..Len(rest) : rest[i] = packets[i + 1]
  BY HeadTailProperties, EmptySeq
<1> HIDE DEF rest
<1>3. at[2] \in Place
  BY <1>2
<1>4. Link(from, Head(packets), at[2], sizes, race)
  <2>1. 1 \in 1..Len(packets) /\ 1 + 1 = 2
    BY <1>2
  <2>2. Link(at[1], packets[1], at[1 + 1], sizes, race)
    BY <1>1, <2>1 DEF Chained
  <2> QED
    BY <1>1, <1>2, <2>1, <2>2 DEF Chained
<1> DEFINE places == [i \in 1..Len(packets) |-> at[i + 1]]
<1>5. places \in [1..(Len(rest) + 1) -> Place]
  BY <1>2
<1>6. \A i \in 1..Len(packets) : places[i] = at[i + 1]
  OBVIOUS
<1> HIDE DEF places
<1>7. ASSUME NEW i \in 1..Len(rest)
      PROVE  Link(places[i], rest[i], places[i + 1], sizes, race)
  <2>1. /\ i + 1 \in 1..Len(packets) /\ places[i] = at[i + 1]
        /\ places[i + 1] = at[(i + 1) + 1] /\ rest[i] = packets[i + 1]
    BY <1>2, <1>6
  <2>2. Link(at[i + 1], packets[i + 1], at[(i + 1) + 1], sizes, race)
    BY <1>1, <2>1 DEF Chained
  <2> QED
    BY <2>1, <2>2
<1>8. places[1] = at[2] /\ places[Len(rest) + 1] = to
  BY <1>1, <1>2, <1>6 DEF Chained
<1>9. Connected(rest, at[2], to, sizes, race)
  BY <1>5, <1>7, <1>8 DEF Connected, Chained
<1> QED
  BY <1>3, <1>4, <1>9 DEF rest

-----------------------------------------------------------------------------
(* The invariant.                                                          *)

\* How far the table has been sent, against what was announced.
Sender ==
  LET last == announced[Len(announced)]
  IN  IF Len(announced) = 0
      THEN ~sending /\ sent = 0
      ELSE /\ sending => length >= last
           /\ conn = "up" /\ ~sending => sent >= last
           /\ ~raced => sent <= last /\ (sending => length = last)

\* What the variables of the handshake thread say between two tables, and in one.
Receiver ==
  \/ counter = -1 /\ file_table_size = -1 /\ ~live /\ nodes = <<>>
  \/ /\ live /\ counter >= 0 /\ counter < file_table_size
     /\ Len(merged) < Len(announced)
     /\ file_table_size = announced[Len(merged) + 1]
     /\ Len(nodes) = counter
     /\ \A i \in 1..Len(nodes) : nodes[i].file = i

Sent == [table |-> Len(announced), node |-> sent]

Received ==
  IF counter >= 0
  THEN [table |-> Len(merged) + 1, node |-> counter]
  ELSE [table |-> Len(merged), node |-> IF Len(merged) = 0 THEN 0 ELSE announced[Len(merged)]]

IInv ==
  /\ TypeOK
  /\ Sender
  /\ MergedAsAnnounced
  /\ FailsOnlyAfterRace
  /\ thread = "running" => Receiver /\ Connected(chan, Received, Sent, announced, raced)

LEMMA InitIInv == Init => IInv
<1> SUFFICES ASSUME Init
             PROVE  IInv
  OBVIOUS
<1>1. /\ <<>> \in Seq(Packet) /\ <<>> \in Seq(Node) /\ <<>> \in Seq(1..MaxFiles)
      /\ <<>> \in Seq(Seq(1..MaxFiles))
  BY EmptySeq
<1>2. Len(chan) = 0 /\ Len(announced) = 0 /\ Len(merged) = 0
  BY EmptySeq DEF Init
<1>3. TypeOK
  <2>1. length \in 0..MaxFiles /\ sent \in 0..MaxFiles /\ counter \in -1..MaxFiles
        /\ file_table_size \in -1..MaxFiles /\ Len(chan) <= ChanCap
    BY <1>2, BoundsAssumption DEF Init
  <2> QED
    BY <1>1, <2>1 DEF Init, TypeOK
<1>4. Sender /\ Receiver /\ MergedAsAnnounced /\ FailsOnlyAfterRace
  BY <1>2 DEF Init, Sender, Receiver, MergedAsAnnounced, FailsOnlyAfterRace
<1> DEFINE at == [i \in 1..1 |-> [table |-> 0, node |-> 0]]
<1>5. at \in [1..(Len(chan) + 1) -> Place]
  BY <1>2 DEF Place
<1>6. Received = [table |-> 0, node |-> 0] /\ Sent = [table |-> 0, node |-> 0]
  BY <1>2 DEF Init, Received, Sent
<1>7. Chained(at, chan, Received, Sent, announced, raced)
  BY <1>2, <1>6 DEF Chained
<1> QED
  BY <1>3, <1>4, <1>5, <1>7 DEF IInv, Connected

\* What the types say that the proofs below use.
LEMMA Types ==
  ASSUME TypeOK
  PROVE  /\ MaxFiles \in Nat /\ length \in Nat /\ sent \in Nat
         /\ counter \in Int /\ counter >= -1 /\ file_table_size \in Int
         /\ chan \in Seq(Packet) /\ Len(chan) \in Nat
         /\ announced \in Seq(1..MaxFiles) /\ announced \in Seq(Nat) /\ Len(announced) \in Nat
         /\ \A k \in 1..Len(announced) : announced[k] \in Nat
         /\ nodes \in Seq(Node) /\ Len(nodes) \in Nat
         /\ merged \in Seq(Seq(1..MaxFiles)) /\ Len(merged) \in Nat
         /\ raced \in BOOLEAN
         /\ Sent \in Place
<1>1. announced \in Seq(1..MaxFiles) /\ announced \in Seq(Nat)
  BY BoundsAssumption, SeqMonotonic DEF TypeOK
<1>2. \A k \in 1..Len(announced) : announced[k] \in Nat
  BY <1>1
<1>3. sent \in Nat
  BY BoundsAssumption DEF TypeOK
<1>4. Sent \in Place
  BY <1>1, <1>3 DEF Place, Sent
<1> QED
  BY <1>1, <1>2, <1>3, <1>4, BoundsAssumption DEF TypeOK

\* A send by the peer leaves the receiver alone; what it adds follows on.
LEMMA SendLemma ==
  ASSUME IInv, TypeOK', NEW packet \in Packet, Send(packet), UNCHANGED handshake,
         raced' = raced,
         Len(announced) <= Len(announced'),
         \A i \in 1..Len(announced) : announced'[i] = announced[i],
         Link(Sent, packet, Sent', announced', raced)
  PROVE  /\ MergedAsAnnounced'
         /\ FailsOnlyAfterRace'
         /\ thread' = "running" =>
              Receiver' /\ Connected(chan', Received', Sent', announced', raced')
<1>1. TypeOK /\ MergedAsAnnounced /\ FailsOnlyAfterRace
  BY DEF IInv
<1>2. /\ thread' = thread /\ counter' = counter /\ file_table_size' = file_table_size
      /\ live' = live /\ nodes' = nodes /\ merged' = merged
  BY DEF handshake
<1>3. MergedAsAnnounced'
  <2>1. Len(merged) <= Len(announced') /\ Len(merged) <= Len(announced)
    <3>1. Len(merged) <= Len(announced) /\ Len(merged) \in Nat /\ Len(announced) \in Nat
      BY <1>1, Types DEF MergedAsAnnounced
    <3>2. Len(announced') \in Nat
      BY DEF TypeOK
    <3> QED
      BY <3>1, <3>2
  <2>2. ASSUME NEW k \in 1..Len(merged)
        PROVE  merged[k] = [i \in 1..announced'[k] |-> i]
    <3>1. k \in 1..Len(announced)
      BY <1>1, <2>1, Types
    <3> QED
      BY <1>1, <3>1 DEF MergedAsAnnounced
  <2> QED
    BY <1>2, <2>1, <2>2 DEF MergedAsAnnounced
<1>4. FailsOnlyAfterRace'
  BY <1>1, <1>2 DEF FailsOnlyAfterRace
<1>5. ASSUME thread' = "running"
      PROVE  Receiver' /\ Connected(chan', Received', Sent', announced', raced')
  <2>1. Receiver /\ Connected(chan, Received, Sent, announced, raced)
    BY <1>2, <1>5 DEF IInv
  <2>2. Receiver'
    <3>1. CASE counter = -1 /\ file_table_size = -1 /\ ~live /\ nodes = <<>>
      BY <1>2, <3>1 DEF Receiver
    <3>2. CASE /\ live /\ counter >= 0 /\ counter < file_table_size
               /\ Len(merged) < Len(announced)
               /\ file_table_size = announced[Len(merged) + 1]
               /\ Len(nodes) = counter
               /\ \A i \in 1..Len(nodes) : nodes[i].file = i
      <4>1. Len(merged) + 1 \in 1..Len(announced)
        <5>1. Len(merged) \in Nat /\ Len(announced) \in Nat
          BY <1>1, Types
        <5> QED
          BY <3>2, <5>1
      <4>0. Len(announced') \in Nat
        BY DEF TypeOK
      <4>2. Len(merged) < Len(announced') /\ announced'[Len(merged) + 1] = announced[Len(merged) + 1]
        BY <1>1, <3>2, <4>0, <4>1, Types
      <4> QED
        BY <1>2, <3>2, <4>2 DEF Receiver
    <3> QED
      BY <2>1, <3>1, <3>2 DEF Receiver
  <2>3. Received' = Received
    <3>1. Len(merged) = 0 \/ announced'[Len(merged)] = announced[Len(merged)]
      BY <1>1, Types DEF MergedAsAnnounced
    <3> QED
      BY <1>2, <3>1 DEF Received
  <2>4. announced' \in Seq(Nat) /\ Sent' \in Place
    <3>1. announced' \in Seq(1..MaxFiles) /\ sent' \in Nat
      BY BoundsAssumption DEF TypeOK
    <3>2. Len(announced') \in Nat
      BY <3>1
    <3>3. 1..MaxFiles \subseteq Nat
      BY BoundsAssumption
    <3>4. announced' \in Seq(Nat)
      BY <3>1, <3>3, SeqMonotonic
    <3>5. Sent' \in Place
      BY <3>1, <3>2 DEF Place, Sent
    <3> QED
      BY <3>4, <3>5
  <2>5. Connected(Append(chan, packet), Received, Sent', announced', raced)
    BY <1>1, <2>1, <2>4, Types, Extend
  <2> QED
    BY <2>2, <2>3, <2>5 DEF Send
<1> QED
  BY <1>3, <1>4, <1>5

\* The next packet leads the handshake thread on from where it is.
LEMMA ReceiveLemma ==
  ASSUME IInv, NEW type, Receive(type)
  PROVE  /\ Receiver
         /\ Head(chan) \in Packet /\ Head(chan).type = type
         /\ chan' \in Seq(Packet) /\ Len(chan') <= ChanCap
         /\ Sender' /\ Sent' = Sent
         /\ \E next \in Place : /\ Link(Received, Head(chan), next, announced, raced)
                              /\ Connected(chan', next, Sent, announced, raced)
<1>1. TypeOK /\ Sender /\ Receiver /\ Connected(chan, Received, Sent, announced, raced)
  BY DEF IInv, Receive
<1>2. chan \in Seq(Packet) /\ chan # <<>> /\ chan' = Tail(chan) /\ Head(chan).type = type
  BY <1>1, Types DEF Receive
<1>3. Head(chan) \in Packet /\ chan' \in Seq(Packet) /\ Len(chan') = Len(chan) - 1
  BY <1>2, HeadTailProperties
<1>4. Len(chan') <= ChanCap
  <2>1. Len(chan) <= ChanCap /\ ChanCap \in Nat /\ Len(chan) \in Nat
    BY <1>1, Types, BoundsAssumption DEF TypeOK
  <2> QED
    BY <1>3, <2>1
<1>5. Sender' /\ Sent' = Sent
  BY <1>1 DEF Receive, peer, Sender, Sent
<1>6. \E next \in Place : /\ Link(Received, Head(chan), next, announced, raced)
                        /\ Connected(Tail(chan), next, Sent, announced, raced)
  BY <1>1, <1>2, Shrink
<1> QED
  BY <1>1, <1>2, <1>3, <1>4, <1>5, <1>6

LEMMA StepIInv == IInv /\ [Next]_vars => IInv'
<1> SUFFICES ASSUME IInv, [Next]_vars
             PROVE  IInv'
  OBVIOUS
<1> USE BoundsAssumption
<1>0. TypeOK /\ Sender /\ MergedAsAnnounced /\ FailsOnlyAfterRace
  BY DEF IInv
<1>1. CASE AddNode
  <2>1. /\ sending' = sending /\ sent' = sent /\ conn' = conn /\ chan' = chan
        /\ UNCHANGED handshake /\ announced' = announced
        /\ length' = length + 1 /\ length < MaxFiles
        /\ raced' = (raced \/ sending)
    BY <1>1 DEF AddNode
  <2>2. TypeOK'
    BY <1>0, <2>1 DEF TypeOK, handshake
  <2>3. Sender'
    <3>1. CASE Len(announced) = 0
      BY <1>0, <2>1, <3>1 DEF Sender
    <3>2. CASE Len(announced) # 0
      <4>0. Len(announced) \in 1..Len(announced)
        BY <1>0, <3>2, Types
      <4>1. announced[Len(announced)] \in Nat /\ length \in Nat
        BY <1>0, <4>0, Types
      <4>2. /\ sending => length >= announced[Len(announced)]
            /\ conn = "up" /\ ~sending => sent >= announced[Len(announced)]
            /\ ~raced => /\ sent <= announced[Len(announced)]
                         /\ sending => length = announced[Len(announced)]
        BY <1>0, <3>2 DEF Sender
      <4>3. sending => length + 1 >= announced[Len(announced)]
        BY <4>1, <4>2
      <4>4. ~raced' => ~raced /\ ~sending
        BY <2>1
      <4> QED
        BY <2>1, <3>2, <4>2, <4>3, <4>4 DEF Sender
    <3> QED
      BY <3>1, <3>2
  <2>4. MergedAsAnnounced' /\ FailsOnlyAfterRace'
    BY <1>0, <2>1 DEF MergedAsAnnounced, FailsOnlyAfterRace, handshake
  <2>5. ASSUME thread' = "running"
        PROVE  Receiver' /\ Connected(chan', Received', Sent', announced', raced')
    <3>1. Receiver /\ Connected(chan, Received, Sent, announced, raced)
      BY <2>1, <2>5 DEF IInv, handshake
    <3>2. Receiver' /\ Received' = Received /\ Sent' = Sent
      BY <2>1, <3>1 DEF Receiver, Received, Sent, handshake
    <3>3. raced' \in BOOLEAN /\ (raced => raced')
      BY <2>1, <2>2 DEF TypeOK
    <3>4. Connected(chan, Received, Sent, announced, raced')
      BY <1>0, <3>1, <3>3, Types, Weaken
    <3> QED
      BY <2>1, <3>2, <3>4
  <2> QED
    BY <2>2, <2>3, <2>4, <2>5 DEF IInv
<1>2. ASSUME NEW new \in {0, 1}, SendSize(new)
      PROVE  IInv'
  <2> DEFINE packet == [type |-> "SIZE", size |-> length']
  <2>1. /\ ~sending /\ sending' = TRUE /\ sent' = 0 /\ conn' = conn /\ conn = "up"
        /\ UNCHANGED handshake /\ raced' = raced
        /\ length' \in 1..MaxFiles
        /\ announced' = Append(announced, length')
        /\ Send(packet)
    BY <1>2 DEF SendSize, Send
  <2>2. packet \in Packet
    BY <2>1 DEF Packet
  <2>3. /\ announced' \in Seq(1..MaxFiles) /\ Len(announced') = Len(announced) + 1
        /\ announced'[Len(announced) + 1] = length'
        /\ \A i \in 1..Len(announced) : announced'[i] = announced[i]
    BY <1>0, <2>1, Types, AppendProperties
  <2>4. chan' \in Seq(Packet) /\ Len(chan') <= ChanCap
    BY <1>0, <2>1, <2>2, Types DEF Send, TypeOK
  <2>5. TypeOK'
    BY <1>0, <2>1, <2>3, <2>4 DEF TypeOK, handshake
  <2>6. Sender'
    BY <1>0, <2>1, <2>3, Types DEF Sender
  <2>7. Link(Sent, packet, Sent', announced', raced)
    <3>1. Sent.table = Len(announced) /\ Sent.node = sent
      BY DEF Sent
    <3>2. Sent' = [table |-> Len(announced) + 1, node |-> 0]
      BY <2>1, <2>3 DEF Sent
    <3>3. Len(announced) > 0 => sent >= announced'[Len(announced)]
      BY <1>0, <2>1, <2>3, Types DEF Sender
    <3>4. packet.type = "SIZE" /\ packet.size = length'
      OBVIOUS
    <3>5. Len(announced) + 1 \in 1..Len(announced')
      BY <1>0, <2>3, Types
    <3> QED
      BY <2>3, <3>1, <3>2, <3>3, <3>4, <3>5 DEF Link
  <2>8. Len(announced) <= Len(announced')
    BY <1>0, <2>3, Types
  <2> HIDE DEF packet
  <2> QED
    BY <2>1, <2>2, <2>3, <2>5, <2>6, <2>7, <2>8, SendLemma DEF IInv
<1>3. CASE SendNode
  <2> DEFINE next == sent + 1
             packet == [type |-> "NODE", node |-> [file |-> next, more |-> next < length]]
  <2>1. /\ sending /\ sent < length /\ sent' = next /\ conn = "up"
        /\ length' = length /\ sending' = sending /\ conn' = conn
        /\ UNCHANGED handshake /\ announced' = announced /\ raced' = raced
        /\ Send(packet)
    BY <1>3 DEF SendNode, Send
  <2>2. next \in 1..MaxFiles /\ packet \in Packet
    BY <1>0, <2>1, Types DEF Packet, Node, TypeOK
  <2>3. chan' \in Seq(Packet) /\ Len(chan') <= ChanCap
    BY <1>0, <2>1, <2>2, Types DEF Send, TypeOK
  <2>4. TypeOK'
    BY <1>0, <2>1, <2>2, <2>3 DEF TypeOK, handshake
  <2>5. Len(announced) > 0
    BY <1>0, <2>1, Types DEF Sender
  <2>6. Sender'
    BY <1>0, <2>1, <2>5, Types DEF Sender
  <2>7. Link(Sent, packet, Sent', announced', raced)
    <3>1. Sent.table = Len(announced) /\ Sent.node = sent
      BY DEF Sent
    <3>2. Sent' = [table |-> Len(announced), node |-> next]
      BY <2>1 DEF Sent
    <3>3. ~raced => sent < announced[Len(announced)] /\ length = announced[Len(announced)]
      BY <1>0, <2>1, <2>5, Types DEF Sender
    <3>4. packet.type = "NODE" /\ packet.node.file = next
      OBVIOUS
    <3>5. packet.node.more => next < length
      BY Zenon
    <3>6. Len(announced) \in 1..Len(announced)
      BY <1>0, <2>5, Types
    <3> QED
      BY <2>1, <3>1, <3>2, <3>3, <3>4, <3>5, <3>6 DEF Link
  <2> HIDE DEF packet
  <2> QED
    BY <1>0, <2>1, <2>2, <2>4, <2>6, <2>7, SendLemma, Types DEF IInv
<1>4. CASE SendKeepAlive
  <2> DEFINE packet == [type |-> "KEEP_ALIVE"]
  <2>1. UNCHANGED peer /\ UNCHANGED handshake /\ announced' = announced /\ raced' = raced
        /\ Send(packet)
    BY <1>4 DEF SendKeepAlive
  <2>2. packet \in Packet
    BY DEF Packet
  <2>3. chan' \in Seq(Packet) /\ Len(chan') <= ChanCap
    BY <1>0, <2>1, <2>2, Types DEF Send, TypeOK
  <2>4. TypeOK'
    BY <1>0, <2>1, <2>3 DEF TypeOK, handshake, peer
  <2>5. Sender'
    BY <1>0, <2>1 DEF Sender, peer
  <2>6. Link(Sent, packet, Sent', announced', raced)
    <3>1. packet.type = "KEEP_ALIVE" /\ Sent' = Sent
      BY <2>1 DEF Sent, peer
    <3> QED
      BY <3>1 DEF Link
  <2> HIDE DEF packet
  <2> QED
    BY <1>0, <2>1, <2>2, <2>4, <2>5, <2>6, SendLemma, Types DEF IInv
<1>5. CASE SendDone \/ PeerGone \/ EndOfStream \/ UNCHANGED vars
  <2>1. /\ length' = length /\ sent' = sent /\ chan' = chan /\ announced' = announced
        /\ raced' = raced /\ counter' = counter /\ file_table_size' = file_table_size
        /\ live' = live /\ nodes' = nodes /\ merged' = merged
        /\ thread' = thread \/ thread' = "ended"
    BY <1>5 DEF SendDone, PeerGone, EndOfStream, vars, peer, handshake
  <2>2. \/ sending' = FALSE /\ conn' = conn /\ sending /\ sent = length
        \/ sending' = FALSE /\ conn' = "closed"
        \/ sending' = sending /\ conn' = conn
    BY <1>5 DEF SendDone, PeerGone, EndOfStream, vars, peer
  <2>3. TypeOK'
    BY <1>0, <2>1, <2>2 DEF TypeOK
  <2>4. Sender'
    BY <1>0, <2>1, <2>2, Types DEF Sender
  <2>5. MergedAsAnnounced' /\ FailsOnlyAfterRace'
    BY <1>0, <2>1 DEF MergedAsAnnounced, FailsOnlyAfterRace
  <2>6. ASSUME thread' = "running"
        PROVE  Receiver' /\ Connected(chan', Received', Sent', announced', raced')
    <3>1. Receiver /\ Connected(chan, Received, Sent, announced, raced)
      BY <2>1, <2>6 DEF IInv
    <3>2. Receiver' /\ Received' = Received /\ Sent' = Sent
      BY <2>1, <3>1 DEF Receiver, Received, Sent
    <3> QED
      BY <2>1, <3>1, <3>2
  <2> QED
    BY <2>3, <2>4, <2>5, <2>6 DEF IInv
<1>6. CASE RecvKeepAlive
  <2>1. /\ Receive("KEEP_ALIVE") /\ UNCHANGED handshake /\ UNCHANGED peer
        /\ announced' = announced /\ raced' = raced
    BY <1>6 DEF RecvKeepAlive, Receive
  <2>2. PICK next \in Place : /\ Link(Received, Head(chan), next, announced, raced)
                            /\ Connected(chan', next, Sent, announced, raced)
    BY <2>1, ReceiveLemma
  <2>3. /\ Receiver /\ Head(chan).type = "KEEP_ALIVE"
        /\ chan' \in Seq(Packet) /\ Len(chan') <= ChanCap /\ Sender' /\ Sent' = Sent
    BY <2>1, ReceiveLemma
  <2>4. next = Received
    BY <2>2, <2>3 DEF Link
  <2>5. TypeOK'
    BY <1>0, <2>1, <2>3 DEF TypeOK, handshake, peer
  <2>6. MergedAsAnnounced' /\ FailsOnlyAfterRace' /\ Receiver' /\ Received' = Received
    BY <1>0, <2>1, <2>3
    DEF MergedAsAnnounced, FailsOnlyAfterRace, Receiver, Received, handshake
  <2> QED
    BY <2>1, <2>2, <2>3, <2>4, <2>5, <2>6 DEF IInv
<1>7. CASE RecvSize
  <2>1. /\ Receive("SIZE") /\ thread = "running" /\ UNCHANGED peer
        /\ announced' = announced /\ raced' = raced
    BY <1>7 DEF RecvSize, Receive
  <2>2. PICK next \in Place : /\ Link(Received, Head(chan), next, announced, raced)
                            /\ Connected(chan', next, Sent, announced, raced)
    BY <2>1, ReceiveLemma
  <2>3. /\ Receiver /\ Head(chan).type = "SIZE" /\ Head(chan).size \in 1..MaxFiles
        /\ chan' \in Seq(Packet) /\ Len(chan') <= ChanCap /\ Sender' /\ Sent' = Sent
    BY <2>1, ReceiveLemma, PacketType
  <2>4. /\ Received.table + 1 \in 1..Len(announced)
        /\ Received.table > 0 => Received.node >= announced[Received.table]
        /\ Head(chan).size = announced[Received.table + 1]
        /\ next = [table |-> Received.table + 1, node |-> 0]
    BY <2>2, <2>3 DEF Link
  <2>5. counter = -1
    <3> SUFFICES ASSUME counter # -1
                 PROVE  FALSE
      OBVIOUS
    <3>1. /\ counter >= 0 /\ counter < file_table_size
          /\ file_table_size = announced[Len(merged) + 1]
      BY <2>3 DEF Receiver
    <3>2. Received.table = Len(merged) + 1 /\ Received.node = counter
      BY <3>1 DEF Received
    <3>3. Len(merged) \in Nat /\ counter \in Int /\ file_table_size \in Int
      BY <1>0, Types
    <3> QED
      BY <2>4, <3>1, <3>2, <3>3
  <2>6. /\ counter' = 0 /\ file_table_size' = Head(chan).size /\ live' = TRUE
        /\ nodes' = <<>> /\ thread' = thread /\ merged' = merged
    BY <1>7, <2>5 DEF RecvSize, Assembling
  <2>7. Received.table = Len(merged)
    BY <2>5 DEF Received
  <2>8. nodes' \in Seq(Node) /\ Len(nodes') = 0
    BY <2>6, EmptySeq
  <2>9. TypeOK'
    <3>1. counter' \in -1..MaxFiles /\ file_table_size' \in -1..MaxFiles
      BY <2>3, <2>6
    <3> QED
      BY <1>0, <2>1, <2>3, <2>6, <2>8, <3>1 DEF TypeOK, peer
  <2>10. MergedAsAnnounced' /\ FailsOnlyAfterRace'
    BY <1>0, <2>1, <2>6 DEF MergedAsAnnounced, FailsOnlyAfterRace
  <2>11. Receiver'
    <3>0. Len(merged) \in Nat /\ Len(announced) \in Nat /\ MaxFiles \in Nat
      BY <1>0, Types
    <3>1. Len(merged) < Len(announced) /\ 0 < Head(chan).size
      BY <2>3, <2>4, <2>7, <3>0
    <3> QED
      BY <2>1, <2>4, <2>6, <2>7, <2>8, <3>1 DEF Receiver
  <2>12. Received' = next
    BY <2>4, <2>6, <2>7 DEF Received
  <2> QED
    BY <2>1, <2>2, <2>3, <2>9, <2>10, <2>11, <2>12 DEF IInv
<1>8. CASE RecvNode
  <2>1. /\ Receive("NODE") /\ thread = "running" /\ UNCHANGED peer
        /\ announced' = announced /\ raced' = raced
    BY <1>8 DEF RecvNode, Receive
  <2>2. PICK next \in Place : /\ Link(Received, Head(chan), next, announced, raced)
                            /\ Connected(chan', next, Sent, announced, raced)
    BY <2>1, ReceiveLemma
  <2>3. /\ Receiver /\ Head(chan).type = "NODE" /\ Head(chan).node \in Node
        /\ chan' \in Seq(Packet) /\ Len(chan') <= ChanCap /\ Sender' /\ Sent' = Sent
    BY <2>1, ReceiveLemma, PacketType
  <2>4. /\ Received.table \in 1..Len(announced)
        /\ Head(chan).node.file = Received.node + 1
        /\ next = [table |-> Received.table, node |-> Received.node + 1]
        /\ ~raced => /\ Received.node < announced[Received.table]
                     /\ Head(chan).node.more => Received.node + 1 < announced[Received.table]
    BY <2>2, <2>3 DEF Link
  <2>5. CASE counter = -1 /\ file_table_size = -1 /\ ~live /\ nodes = <<>>
    <3>1. Received = [table |-> Len(merged),
                      node |-> IF Len(merged) = 0 THEN 0 ELSE announced[Len(merged)]]
      BY <2>5 DEF Received
    <3>2. raced
      <4>1. Len(merged) # 0 /\ announced[Len(merged)] \in Nat
        BY <1>0, <2>4, <3>1, Types
      <4>2. Received.node = announced[Received.table]
        BY <3>1, <4>1
      <4> QED
        BY <2>4, <3>1, <4>1, <4>2
    <3>3. Complete(nodes)
      BY <1>8, <2>5 DEF RecvNode
    <3>4. /\ thread' = "staleTable"
          /\ UNCHANGED <<counter, file_table_size, live, nodes, merged>>
      BY <2>5, <3>3 DEF Complete
    <3>5. TypeOK'
      BY <1>0, <2>1, <2>3, <3>4 DEF TypeOK, peer
    <3>6. MergedAsAnnounced' /\ FailsOnlyAfterRace'
      BY <1>0, <2>1, <3>2, <3>4 DEF MergedAsAnnounced, FailsOnlyAfterRace
    <3> QED
      BY <2>3, <3>4, <3>5, <3>6 DEF IInv
  <2>6. CASE /\ live /\ counter >= 0 /\ counter < file_table_size
             /\ Len(merged) < Len(announced)
             /\ file_table_size = announced[Len(merged) + 1]
             /\ Len(nodes) = counter
             /\ \A i \in 1..Len(nodes) : nodes[i].file = i
    <3>1. PICK list : list = Append(nodes, Head(chan).node)
      OBVIOUS
    <3>2. IF counter + 1 = file_table_size
          THEN Complete(list)
          ELSE Assembling(counter + 1, file_table_size, list)
      BY <1>8, <2>6, <3>1 DEF RecvNode
    <3>3. /\ counter \in Int /\ file_table_size \in Int /\ file_table_size <= MaxFiles
          /\ Len(merged) \in Nat /\ Len(announced) \in Nat
      BY <1>0, Types DEF TypeOK
    <3>4. Received = [table |-> Len(merged) + 1, node |-> counter]
      BY <2>6 DEF Received
    <3>5. /\ Head(chan).node.file = counter + 1
          /\ next = [table |-> Len(merged) + 1, node |-> counter + 1]
          /\ ~raced => (Head(chan).node.more => counter + 1 < file_table_size)
      BY <2>4, <2>6, <3>4
    <3>6. list \in Seq(Node) /\ Len(list) = counter + 1
          /\ list[counter + 1] = Head(chan).node
          /\ \A i \in 1..counter : list[i] = nodes[i]
      <4>1. nodes \in Seq(Node) /\ Head(chan).node \in Node
        BY <1>0, <2>3, Types
      <4>2. /\ list \in Seq(Node) /\ Len(list) = Len(nodes) + 1
            /\ list[Len(nodes) + 1] = Head(chan).node
            /\ \A i \in 1..Len(nodes) : list[i] = nodes[i]
        BY <3>1, <4>1, AppendProperties
      <4> QED
        BY <2>6, <4>2
    <3>7. \A i \in 1..Len(list) : list[i].file = i
      <4> TAKE i \in 1..Len(list)
      <4>1. i \in 1..counter \/ i = counter + 1
        BY <3>3, <3>6
      <4> QED
        BY <2>6, <3>5, <3>6, <4>1
    <3>8. CASE counter + 1 = file_table_size /\ list[Len(list)].more
      <4>1. raced
        BY <3>3, <3>5, <3>6, <3>8
      <4>2. Complete(list)
        BY <3>2, <3>8
      <4>3. /\ thread' = "wildPointer"
            /\ UNCHANGED <<counter, file_table_size, live, nodes, merged>>
        BY <2>6, <3>8, <4>2 DEF Complete
      <4>4. TypeOK'
        BY <1>0, <2>1, <2>3, <4>3 DEF TypeOK, peer
      <4>5. MergedAsAnnounced' /\ FailsOnlyAfterRace'
        BY <1>0, <2>1, <4>1, <4>3 DEF MergedAsAnnounced, FailsOnlyAfterRace
      <4> QED
        BY <2>3, <4>3, <4>4, <4>5 DEF IInv
    <3>9. CASE counter + 1 = file_table_size /\ ~list[Len(list)].more
      <4>1. PICK table : table = [i \in 1..Len(list) |-> list[i].file]
        OBVIOUS
      <4>2. Complete(list)
        BY <3>2, <3>9
      <4>3. /\ merged' = Append(merged, table) /\ thread' = thread
            /\ counter' = -1 /\ file_table_size' = -1 /\ live' = FALSE /\ nodes' = <<>>
        BY <2>6, <3>9, <4>1, <4>2 DEF Complete
      <4>4. table = [i \in 1..announced[Len(merged) + 1] |-> i]
        BY <2>6, <3>6, <3>7, <3>9, <4>1
      <4>5. table \in Seq(1..MaxFiles)
        <5>1. announced[Len(merged) + 1] \in Nat /\ announced[Len(merged) + 1] <= MaxFiles
          BY <2>6, <3>3
        <5> QED
          BY <4>4, <5>1
      <4>6. /\ merged' \in Seq(Seq(1..MaxFiles)) /\ Len(merged') = Len(merged) + 1
            /\ merged'[Len(merged) + 1] = table
            /\ \A k \in 1..Len(merged) : merged'[k] = merged[k]
        <5> DEFINE Tables == Seq(1..MaxFiles)
        <5>1. merged \in Seq(Tables) /\ table \in Tables
          BY <1>0, <4>5, Types
        <5> HIDE DEF Tables
        <5>2. /\ merged' \in Seq(Tables) /\ Len(merged') = Len(merged) + 1
              /\ merged'[Len(merged) + 1] = table
              /\ \A k \in 1..Len(merged) : merged'[k] = merged[k]
          BY <4>3, <5>1, AppendProperties
        <5> QED
          BY <5>2 DEF Tables
      <4>7. TypeOK'
        <5>1. nodes' \in Seq(Node) /\ counter' \in -1..MaxFiles
              /\ file_table_size' \in -1..MaxFiles
          BY <4>3, EmptySeq
        <5> QED
          BY <1>0, <2>1, <2>3, <4>3, <4>6, <5>1 DEF TypeOK, peer
      <4>8. MergedAsAnnounced'
        <5>1. Len(merged') <= Len(announced)
          BY <2>6, <3>3, <4>6
        <5>2. ASSUME NEW k \in 1..Len(merged')
              PROVE  merged'[k] = [i \in 1..announced[k] |-> i]
          <6>1. k \in 1..Len(merged) \/ k = Len(merged) + 1
            BY <3>3, <4>6
          <6> QED
            BY <1>0, <4>4, <4>6, <6>1 DEF MergedAsAnnounced
        <5> QED
          BY <2>1, <5>1, <5>2 DEF MergedAsAnnounced
      <4>9. FailsOnlyAfterRace'
        BY <1>0, <2>1, <4>3 DEF FailsOnlyAfterRace
      <4>10. Receiver'
        BY <4>3 DEF Receiver
      <4>11. Received' = next
        <5>1. Len(merged') # 0 /\ ~(counter' >= 0)
          BY <3>3, <4>3, <4>6
        <5>2. Received' = [table |-> Len(merged) + 1, node |-> announced[Len(merged) + 1]]
          BY <2>1, <4>6, <5>1 DEF Received
        <5> QED
          BY <2>6, <3>5, <3>9, <5>2
      <4> QED
        BY <2>1, <2>2, <2>3, <4>7, <4>8, <4>9, <4>10, <4>11 DEF IInv
    <3>10. CASE counter + 1 # file_table_size
      <4>1. /\ counter' = counter + 1 /\ file_table_size' = file_table_size
            /\ live' = TRUE /\ nodes' = list /\ thread' = thread /\ merged' = merged
        BY <3>2, <3>10 DEF Assembling
      <4>2. counter + 1 < file_table_size
        BY <2>6, <3>3, <3>10
      <4>3. TypeOK'
        <5>1. counter' \in -1..MaxFiles
          BY <2>6, <3>3, <4>1, <4>2
        <5> QED
          BY <1>0, <2>1, <2>3, <3>6, <4>1, <5>1 DEF TypeOK, peer
      <4>4. MergedAsAnnounced' /\ FailsOnlyAfterRace'
        BY <1>0, <2>1, <4>1 DEF MergedAsAnnounced, FailsOnlyAfterRace
      <4>5. Receiver'
        <5>1. counter + 1 >= 0
          BY <2>6, <3>3
        <5> QED
          BY <2>1, <2>6, <3>6, <3>7, <4>1, <4>2, <5>1 DEF Receiver
      <4>6. Received' = next
        <5>1. counter' >= 0
          BY <2>6, <3>3, <4>1
        <5> QED
          BY <3>5, <4>1, <5>1 DEF Received
      <4> QED
        BY <2>1, <2>2, <2>3, <4>3, <4>4, <4>5, <4>6 DEF IInv
    <3> QED
      BY <3>8, <3>9, <3>10
  <2> QED
    BY <2>3, <2>5, <2>6 DEF Receiver
<1> QED
  BY <1>1, <1>2, <1>3, <1>4, <1>5, <1>6, <1>7, <1>8 DEF Next, Recv

\* In every reachable state the packets in the connection lead from where the handshake
\* thread is in what was announced to where peer_sendpkt is.
THEOREM Chain == Spec => []IInv
<1> QED
  BY InitIInv, StepIInv, PTL DEF Spec

\* The k-th table given to update_filetable is the k-th one that peer_sendpkt
\* announced, whole and in order, whatever keep_alive sends in between, however
\* the list grows and wherever the connection breaks (handshake).
THEOREM TablesArriveWhole == Spec => []MergedAsAnnounced
<1>1. IInv => MergedAsAnnounced
  BY DEF IInv
<1> QED
  BY <1>1, Chain, PTL

\* Only a list that grew while peer_sendpkt was in it makes the handshake thread
\* use a table that it has not got, or follow a pointer of the peer.
THEOREM RaceIsTheOnlyCause == Spec => []FailsOnlyAfterRace
<1>1. IInv => FailsOnlyAfterRace
  BY DEF IInv
<1> QED
  BY <1>1, Chain, PTL

-----------------------------------------------------------------------------
(* The directories.  A slot that still has its path belongs to the watch   *)
(* descriptor of the same number and to the directory of that path         *)
(* (SlotsWatch), so an event is looked up in its own directory or in none  *)
(* (EventsPlaced).  A slot loses its path only to the removal of that      *)
(* directory, which is the last of its events (RemovalIsLast): what was    *)
(* there at the start is reported to the end (LostIsOver).                 *)

\* Each directory is in one that exists, and has a number of its own.
FolderSound ==
  /\ dir[Root] # NoDir
  /\ \A p \in Paths \ {Root} : dir[p] # NoDir => dir[Front(p)] # NoDir
  /\ \A p, q \in Paths : dir[p] = dir[q] /\ dir[p] # NoDir => p = q
  /\ \A p \in Paths : dir[p] <= made
  /\ \A w \in 1..Len(watch) : watch[w] <= made

\* The sync folder is the first node of the list, as soon as there is a list.
HeadFirst ==
  /\ stage = "walk" => tree = <<>> /\ folder = <<>> /\ watch = <<>> /\ events = <<>>
  /\ stage # "walk" => tree # <<>> /\ tree[1].path = Root

\* Slots and watch descriptors are in step while the watches are added.
InStep ==
  stage = "watch" =>
    /\ Len(watch) = Len(folder) /\ Len(folder) <= Len(tree)
    /\ \A i \in 1..Len(folder) : folder[i] = [kind |-> "node", path |-> tree[i].path]
    /\ \A i \in 1..Len(tree) : tree[i].path \in Paths
    /\ \A i, j \in 1..Len(tree) : tree[i].path = tree[j].path => i = j

\* A slot that still has the path of its directory belongs to the descriptor of
\* the same number, which watches that directory or no longer any.
SlotsWatch ==
  \A k \in 1..Len(folder) : folder[k].kind = "node" =>
    /\ k \in 1..Len(watch) /\ folder[k].path \in Paths
    /\ watch[k] \in {NoDir, dir[folder[k].path]}

\* So an event's slot, if it has a path, has the path of the event's directory.
EventsPlaced ==
  \A i \in 1..Len(events) :
    /\ events[i].wd \in 1..Len(watch)
    /\ events[i].wd <= Len(folder) /\ folder[events[i].wd].kind = "node"
         => folder[events[i].wd].path = events[i].in
    /\ events[i].what # "file"
         => Proper(events[i]) # Root /\ events[i].in = Front(Proper(events[i]))

Attributed == ~Accident({"shifted", "moved"}) => InStep /\ SlotsWatch /\ EventsPlaced

\* While nothing comes or goes, the walk's directories are there to be watched, and
\* the loop looks only for paths that it was given.
Orderly ==
  /\ stage # "crashed" /\ abspath # Garbled
  /\ "shifted" \notin accidents
  /\ stage = "walk" => walked = 0
  /\ stage = "watch" =>
       /\ walked = Len(tree)
       /\ \A i \in 1..Len(tree) : tree[i].slot = i /\ Exists(tree[i].path)
       /\ \A i \in 1..Len(events) : events[i].what = "file"
  /\ stage = "notify" => walked <= Len(folder) /\ walked <= Len(watch)

\* The slots of the walk's directories, and those that came later.
Started ==
  /\ \A k \in 1..Len(folder) : k <= walked =>
       /\ folder[k].kind \in {"node", "freed", "null"}
       /\ wd[k] = k
       /\ k \in 1..Len(watch)
  /\ \A k \in 1..Len(folder) : k > walked => folder[k].kind \in {"buffer", "null"}

\* A slot that has lost its path has lost its watch and all its events before.
LostIsOver ==
  \A k \in 1..Len(folder) : k <= walked /\ folder[k].kind # "node" =>
    watch[k] = NoDir /\ \A i \in 1..Len(events) : events[i].wd # k

\* The removal of a directory is the last event of what was watched in it.
RemovalIsLast ==
  \A i \in 1..Len(events) : \A k \in 1..Len(folder) :
    /\ events[i].what = "rmdir"
    /\ folder[k].kind = "node" /\ folder[k].path = Proper(events[i])
    => watch[k] = NoDir /\ \A j \in (i + 1)..Len(events) : events[j].wd # k

\* A directory that was made is not watched by a descriptor of the walk.
MadeIsNew ==
  \A i \in 1..Len(events) : events[i].what = "mkdir" =>
    \A w \in 1..Len(watch) :
      w <= walked /\ watch[w] # NoDir => watch[w] # dir[Proper(events[i])]

\* A node and the slot that points to its path.
NodesSlots ==
  \A i \in 1..Len(tree) : tree[i].slot # 0 =>
    /\ tree[i].slot <= walked /\ tree[i].path # Elsewhere
    /\ tree[i].slot <= Len(folder) /\ folder[tree[i].slot].kind = "node"
         => folder[tree[i].slot].path = tree[i].path

Reported ==
  ~Accident({"early", "moved", "confused", "astray"}) =>
    /\ Orderly /\ Started /\ LostIsOver /\ RemovalIsLast
    /\ MadeIsNew /\ NodesSlots

DirInv == DirTypeOK /\ FolderSound /\ HeadFirst /\ Attributed /\ Reported

-----------------------------------------------------------------------------
(* Paths and sequences.                                                    *)

\* A path other than that of the sync folder is its parent's and a name.
LEMMA PathParts ==
  ASSUME NEW p \in Paths
  PROVE  /\ Len(p) \in Nat
         /\ p # Root => Len(p) > 0 /\ Front(p) \in Paths /\ p = Append(Front(p), Last(p))
<1> DEFINE Parts == UNION {Range(q) : q \in Paths}
<1>1. p \in Seq(Parts)
  BY PathsAssumption
<1> HIDE DEF Parts
<1>2. Len(p) \in Nat
  BY <1>1
<1>3. ASSUME p # Root
      PROVE  Len(p) > 0 /\ p = Append(Front(p), Last(p))
  <2>1. Len(p) > 0 /\ Len(p) \in 1..Len(p)
    BY <1>1, <1>3, EmptySeq DEF Root
  <2>2. /\ SubSeq(p, 1, Len(p) - 1) \in Seq(Parts)
        /\ Len(SubSeq(p, 1, Len(p) - 1)) = Len(p) - 1
        /\ \A i \in 1..(Len(p) - 1) : SubSeq(p, 1, Len(p) - 1)[i] = p[i]
    <3>1. Len(p) - 1 \in Int /\ \A i \in 1..(Len(p) - 1) : p[i] \in Parts
      BY <1>1, <1>2
    <3>2. /\ SubSeq(p, 1, Len(p) - 1) \in Seq(Parts)
          /\ Len(SubSeq(p, 1, Len(p) - 1)) = IF 1 <= Len(p) - 1 THEN Len(p) - 1 - 1 + 1 ELSE 0
          /\ \A i \in 1..(Len(p) - 1 - 1 + 1) : SubSeq(p, 1, Len(p) - 1)[i] = p[1 + i - 1]
      BY <3>1, SubSeqProperties
    <3>3. ASSUME NEW i \in 1..(Len(p) - 1)
          PROVE  SubSeq(p, 1, Len(p) - 1)[i] = p[i]
      <4>1. i \in 1..(Len(p) - 1 - 1 + 1) /\ 1 + i - 1 = i
        BY <1>2
      <4> QED
        BY <3>2, <4>1
    <3> DEFINE n == Len(p)
    <3>4. n \in Nat /\ n > 0
      BY <1>2, <2>1
    <3>6. /\ Len(SubSeq(p, 1, Len(p) - 1)) = IF 1 <= n - 1 THEN n - 1 - 1 + 1 ELSE 0
          /\ n = Len(p)
      BY <3>2
    <3> HIDE DEF n
    <3>5. Len(SubSeq(p, 1, Len(p) - 1)) = Len(p) - 1
      BY <3>4, <3>6
    <3> QED
      BY <3>2, <3>3, <3>5
  <2>3. p[Len(p)] \in Parts
    BY <1>1, <2>1
  <2>4. /\ Append(SubSeq(p, 1, Len(p) - 1), p[Len(p)]) \in Seq(Parts)
        /\ Len(Append(SubSeq(p, 1, Len(p) - 1), p[Len(p)])) = Len(p)
        /\ \A i \in 1..Len(p) : Append(SubSeq(p, 1, Len(p) - 1), p[Len(p)])[i] = p[i]
    BY <1>1, <2>1, <2>2, <2>3, AppendProperties
  <2>5. p = Append(SubSeq(p, 1, Len(p) - 1), p[Len(p)])
    BY <1>1, <2>4, SeqEqual
  <2> QED
    BY <2>1, <2>5 DEF Front, Last
<1> QED
  BY <1>2, <1>3, PathsAssumption

\* What is left when an element is removed.
LEMMA RemoveAtParts ==
  ASSUME NEW S, NEW s \in Seq(S), NEW i \in 1..Len(s)
  PROVE  /\ RemoveAt(s, i) \in Seq(S)
         /\ Len(RemoveAt(s, i)) = Len(s) - 1
         /\ \A j \in 1..(Len(s) - 1) :
              RemoveAt(s, i)[j] = IF j < i THEN s[j] ELSE s[j + 1]
<1>1. Len(s) \in Nat /\ i \in Nat /\ i >= 1 /\ i <= Len(s)
  OBVIOUS
<1> DEFINE before == SubSeq(s, 1, i - 1)
           after == SubSeq(s, i + 1, Len(s))
<1>2. /\ before \in Seq(S) /\ Len(before) = i - 1
      /\ \A j \in 1..(i - 1) : before[j] = s[j]
  BY <1>1
<1>3. /\ after \in Seq(S) /\ Len(after) = Len(s) - i
      /\ \A j \in 1..(Len(s) - i) : after[j] = s[i + j]
  <2>1. \A j \in (i + 1)..Len(s) : s[j] \in S
    BY <1>1
  <2>2. /\ after \in Seq(S)
        /\ Len(after) = IF i + 1 <= Len(s) THEN Len(s) - (i + 1) + 1 ELSE 0
        /\ \A j \in 1..(Len(s) - (i + 1) + 1) : after[j] = s[i + 1 + j - 1]
    BY <1>1, <2>1, SubSeqProperties
  <2> HIDE DEF after
  <2>3. Len(after) = Len(s) - i
    BY <1>1, <2>2
  <2>4. ASSUME NEW j \in 1..(Len(s) - i)
        PROVE  after[j] = s[i + j]
    <3>1. j \in 1..(Len(s) - (i + 1) + 1) /\ i + 1 + j - 1 = i + j
      BY <1>1
    <3> QED
      BY <2>2, <3>1
  <2> QED
    BY <2>2, <2>3, <2>4
<1> HIDE DEF before, after
<1>4. /\ before \o after \in Seq(S)
      /\ Len(before \o after) = Len(s) - 1
      /\ \A j \in 1..(Len(s) - 1) :
           (before \o after)[j] = IF j <= i - 1 THEN before[j] ELSE after[j - (i - 1)]
  <2>1. /\ before \o after \in Seq(S)
        /\ Len(before \o after) = Len(before) + Len(after)
        /\ \A j \in 1..(Len(before) + Len(after)) :
             (before \o after)[j]
               = IF j <= Len(before) THEN before[j] ELSE after[j - Len(before)]
    BY <1>2, <1>3, ConcatProperties
  <2>2. Len(before) + Len(after) = Len(s) - 1
    BY <1>1, <1>2, <1>3
  <2> QED
    BY <1>2, <2>1, <2>2
<1>5. ASSUME NEW j \in 1..(Len(s) - 1)
      PROVE  (before \o after)[j] = IF j < i THEN s[j] ELSE s[j + 1]
  <2>1. CASE j < i
    <3>1. j <= i - 1 /\ j \in 1..(i - 1)
      BY <1>1, <2>1
    <3> QED
      BY <1>2, <1>4, <2>1, <3>1
  <2>2. CASE ~(j < i)
    <3>1. j - (i - 1) \in 1..(Len(s) - i) /\ i + (j - (i - 1)) = j + 1 /\ ~(j <= i - 1)
      BY <1>1, <2>2
    <3>2. (before \o after)[j] = after[j - (i - 1)]
      BY <1>4, <3>1
    <3>3. after[j - (i - 1)] = s[i + (j - (i - 1))]
      BY <1>3, <3>1
    <3> QED
      BY <2>2, <3>1, <3>2, <3>3
  <2> QED
    BY <2>1, <2>2
<1> QED
  BY <1>4, <1>5 DEF RemoveAt, before, after

LEMMA NamesOfPaths ==
  ASSUME NEW p \in Paths, p # Root
  PROVE  Last(p) \in Names
<1>1. p \in Seq(UNION {Range(q) : q \in Paths}) /\ Len(p) > 0 /\ Len(p) \in Nat
  BY PathsAssumption, PathParts
<1>2. p[Len(p)] \in UNION {Range(q) : q \in Paths}
  BY <1>1
<1> QED
  BY <1>2 DEF Last, Names

\* A path with a name behind it is another path, and the path is its parent.
LEMMA AppendParts ==
  ASSUME NEW p \in Paths, NEW name \in Names
  PROVE  Append(p, name) # Root /\ Front(Append(p, name)) = p
<1>1. p \in Seq(Names)
  <2>1. UNION {Range(q) : q \in Paths} \subseteq Names
    BY DEF Names
  <2>2. p \in Seq(UNION {Range(q) : q \in Paths})
    BY PathsAssumption
  <2> HIDE DEF Names
  <2> QED
    BY <2>1, <2>2
<1> HIDE DEF Names
<1>2. /\ Append(p, name) \in Seq(Names) /\ Len(Append(p, name)) = Len(p) + 1
      /\ \A i \in 1..Len(p) : Append(p, name)[i] = p[i]
      /\ Len(p) \in Nat
  BY <1>1, AppendProperties
<1> DEFINE q == Append(p, name)
<1> HIDE DEF q
<1>3. q # Root
  BY <1>2, EmptySeq DEF Root, q
<1>4. /\ SubSeq(q, 1, Len(p)) \in Seq(Names) /\ Len(SubSeq(q, 1, Len(p))) = Len(p)
      /\ \A i \in 1..Len(p) : SubSeq(q, 1, Len(p))[i] = q[i]
  BY <1>2 DEF q
<1>5. SubSeq(q, 1, Len(p)) = p
  BY <1>1, <1>2, <1>4, SeqEqual DEF q
<1>6. Len(q) - 1 = Len(p)
  BY <1>2 DEF q
<1>7. Front(q) = SubSeq(q, 1, Len(q) - 1)
  BY DEF Front
<1> QED
  BY <1>3, <1>5, <1>6, <1>7 DEF q

\* What an event is about, a directory below its own if it is not a file.
LEMMA EventParts ==
  ASSUME NEW e \in Events
  PROVE  /\ e.what \in {"mkdir", "rmdir", "file"} /\ e.wd \in Nat \ {0}
         /\ e.in \in Paths /\ e.name \in Names
         /\ Proper(e) \in (Paths \ {Root}) \cup {Elsewhere}
         /\ e.what # "file" => /\ Proper(e) \in Paths /\ Proper(e) # Root
                               /\ e.in = Front(Proper(e))
<1>1. /\ e.what \in {"mkdir", "rmdir", "file"} /\ e.wd \in Nat \ {0}
      /\ e.in \in Paths /\ e.name \in Names
      /\ e.what # "file" => Append(e.in, e.name) \in Paths
  BY DEF Events
<1>2. Append(e.in, e.name) # Root /\ Front(Append(e.in, e.name)) = e.in
  BY <1>1, AppendParts
<1> QED
  BY <1>1, <1>2 DEF Proper, Known

LEMMA SlotParts ==
  ASSUME DirTypeOK, NEW w \in Nat \ {0}
  PROVE  Slot(w) \in Slots
<1>1. CASE w <= Len(folder)
  <2>1. w \in 1..Len(folder) /\ folder \in Seq(Slots)
    BY <1>1 DEF DirTypeOK
  <2>2. folder[w] \in Slots
    BY <2>1, ElementOfSeq
  <2> QED
    BY <1>1, <2>2 DEF Slot
<1>2. CASE ~(w <= Len(folder))
  BY <1>2 DEF Slot, Null, Slots, DirPaths
<1> QED
  BY <1>1, <1>2

LEMMA BelowParts ==
  ASSUME NEW p \in DirPaths, NEW name \in Names
  PROVE  Below(p, name) \in DirPaths /\ Below(p, name) # Root
<1>1. CASE p \in Paths
  <2>1. Append(p, name) # Root
    BY <1>1, AppendParts
  <2> QED
    BY <1>1, <2>1, PathsAssumption DEF Below, Known, DirPaths
<1>2. CASE p \notin Paths
  BY <1>2, PathsAssumption DEF Below, DirPaths
<1> QED
  BY <1>1, <1>2

\* abspath is never the path of the sync folder itself.
LEMMA AbsPathParts ==
  ASSUME DirTypeOK, NEW event \in Events, NEW path \in AbsPaths(event)
  PROVE  path \in DirPaths /\ path # Root
<1> DEFINE slot == Slot(event.wd)
<1>1. event.wd \in Nat \ {0} /\ event.name \in Names
  BY EventParts
<1>2. slot \in Slots
  BY <1>1, SlotParts
<1>3. slot.kind \in {"null", "node", "freed", "buffer"} /\ slot.path \in DirPaths
  BY <1>2 DEF Slots
<1>4. Root \in Paths /\ Elsewhere \notin Paths /\ Garbled \notin Paths
  BY PathsAssumption
<1> HIDE DEF slot
<1>5. CASE slot.kind = "node"
  <2>1. path = Below(slot.path, event.name)
    BY <1>5 DEF AbsPaths, slot
  <2> QED
    BY <1>1, <1>3, <2>1, BelowParts
<1>6. CASE slot.kind = "buffer"
  <2>1. path \in Behind(abspath, event.name)
    BY <1>6 DEF AbsPaths, slot
  <2>2. path \in (Paths \ {Root}) \cup {Elsewhere, Garbled}
    BY <2>1 DEF Behind, Together
  <2> QED
    BY <1>4, <2>2 DEF DirPaths
<1>7. CASE slot.kind = "null"
  <2>1. path = Elsewhere
    BY <1>7 DEF AbsPaths, slot
  <2> QED
    BY <1>4, <2>1 DEF DirPaths
<1>8. CASE slot.kind = "freed"
  <2>1. path = Garbled \/ \E i \in 1..Len(tree) : path = Below(tree[i].path, event.name)
    BY <1>8 DEF AbsPaths, slot
  <2>2. \A i \in 1..Len(tree) : tree[i].path \in DirPaths
    <3>1. \A i \in 1..Len(tree) : tree[i] \in Nodes
      BY ElementOfSeq DEF DirTypeOK
    <3> QED
      BY <3>1 DEF Nodes
  <2> QED
    BY <1>1, <1>4, <2>1, <2>2, BelowParts DEF DirPaths
<1> QED
  BY <1>3, <1>5, <1>6, <1>7, <1>8

-----------------------------------------------------------------------------
(* inotify.                                                                *)

LEMMA WdOfWatched ==
  ASSUME NEW d, Watched(d)
  PROVE  WdOf(d) \in 1..Len(watch) /\ watch[WdOf(d)] = d
BY DEF Watched, WdOf

Event(what, w, in, name) == [what |-> what, wd |-> w, in |-> in, name |-> name]

\* An event that reaches the queue is one of a descriptor of its directory.
LEMMA Emitted ==
  ASSUME DirTypeOK, NEW what \in {"mkdir", "rmdir", "file"},
         NEW in \in Paths, NEW name \in Names, Emit(what, in, name),
         what # "file" => Append(in, name) \in Paths
  PROVE  \/ events' = events
         \/ \E w \in 1..Len(watch) :
              /\ watch[w] = dir[in]
              /\ events' = Append(events, Event(what, w, in, name))
              /\ Event(what, w, in, name) \in Events
<1>1. CASE ~Watched(dir[in])
  BY <1>1 DEF Emit
<1>2. CASE Watched(dir[in])
  <2>1. WdOf(dir[in]) \in 1..Len(watch) /\ watch[WdOf(dir[in])] = dir[in]
    BY <1>2, WdOfWatched
  <2>2. events' = Append(events, Event(what, WdOf(dir[in]), in, name))
    BY <1>2 DEF Emit, Event
  <2>3. WdOf(dir[in]) \in Nat \ {0}
    BY <2>1 DEF DirTypeOK
  <2>4. Event(what, WdOf(dir[in]), in, name) \in Events
    BY <2>3 DEF Event, Events
  <2> QED
    BY <2>1, <2>2, <2>4
<1> QED
  BY <1>1, <1>2

\* What a queue with one more event, or one less, has in it.
LEMMA QueueGrows ==
  ASSUME NEW q \in Seq(Events), NEW e \in Events
  PROVE  /\ Append(q, e) \in Seq(Events) /\ Len(Append(q, e)) = Len(q) + 1
         /\ \A i \in 1..Len(q) : Append(q, e)[i] = q[i]
         /\ Append(q, e)[Len(q) + 1] = e
BY AppendProperties

LEMMA QueueShrinks ==
  ASSUME NEW q \in Seq(Events), q # <<>>
  PROVE  /\ Tail(q) \in Seq(Events) /\ Len(Tail(q)) = Len(q) - 1 /\ Len(q) \in Nat \ {0}
         /\ \A i \in 1..(Len(q) - 1) : Tail(q)[i] = q[i + 1]
         /\ Head(q) = q[1] /\ Head(q) \in Events
<1>1. Len(q) \in Nat \ {0}
  BY EmptySeq
<1> QED
  BY <1>1, HeadTailProperties, TailIsSubSeq, SubSeqProperties

\* inotify_add_watch changes at most one thing: a new descriptor.
LEMMA AddsWatch ==
  ASSUME DirTypeOK, NEW p \in DirPaths, AddWatch(p)
  PROVE  \/ /\ ~Exists(p) /\ wd' = Append(wd, Failed) /\ watch' = watch
         \/ \E w \in 1..Len(watch) :
              Exists(p) /\ watch[w] = dir[p] /\ wd' = Append(wd, w) /\ watch' = watch
         \/ /\ Exists(p) /\ ~Watched(dir[p])
            /\ wd' = Append(wd, Len(watch) + 1) /\ watch' = Append(watch, dir[p])
<1>1. CASE ~Exists(p)
  BY <1>1 DEF AddWatch
<1>2. CASE Exists(p) /\ Watched(dir[p])
  BY <1>2, WdOfWatched DEF AddWatch
<1>3. CASE Exists(p) /\ ~Watched(dir[p])
  BY <1>3 DEF AddWatch
<1> QED
  BY <1>1, <1>2, <1>3

-----------------------------------------------------------------------------
(* The handling of a removal.                                              *)

\* The node that is taken out, and the slot that is cleared; 0 for none.
Removal(event, path, i, s) ==
  LET freed == FreeNode(i, folder)
  IN  /\ i # 1
      /\ i # 0 => TRUE \in NodeMatches(i, path)
      /\ i = 0 => \A j \in 1..Len(tree) : FALSE \in NodeMatches(j, path)
      /\ s # 0 => freed[s].kind = "freed" \/ TRUE \in SlotMatches(s, path)
      /\ tree' = IF i = 0 THEN tree ELSE RemoveAt(tree, i)
      /\ folder' = IF s = 0 THEN freed ELSE [freed EXCEPT ![s] = Null]
      /\ watch' = IF s = 0 THEN watch
                  ELSE [w \in 1..Len(watch) |-> IF w = wd[s] THEN NoDir ELSE watch[w]]
      /\ accidents' = accidents
           \cup (IF path # Proper(event) THEN {"astray"} ELSE {})
           \cup (IF \/ i # 0 /\ tree[i].path # path
                    \/ s # 0 /\ freed[s].kind = "node" /\ freed[s].path # path
                 THEN {"confused"} ELSE {})

\* The first node, which has none before it, is found.
Crash(path) ==
  /\ TRUE \in NodeMatches(1, path)
  /\ stage' = "crashed"
  /\ tree' = tree /\ folder' = folder /\ watch' = watch /\ accidents' = accidents

LEMMA Removes ==
  ASSUME DirTypeOK, NEW event, NEW path, DirRemoved(event, path)
  PROVE  \/ Crash(path)
         \/ /\ stage' = stage
            /\ \E i \in {0} \cup (1..Len(tree)), s \in {0} \cup (1..Len(folder)) :
                 Removal(event, path, i, s)
<1>0. 0 \notin 1..Len(tree) /\ 0 # 1
  BY DEF DirTypeOK
<1>1. PICK i \in FirstMatch(Len(tree), [k \in 1..Len(tree) |-> NodeMatches(k, path)]) :
        \/ /\ i = 1
           /\ stage' = "crashed"
           /\ UNCHANGED <<tree, folder, watch, accidents>>
        \/ /\ i # 1
           /\ LET freed == FreeNode(i, folder)
                  found == [k \in 1..Len(folder) |->
                              IF freed[k].kind = "freed" THEN BOOLEAN ELSE SlotMatches(k, path)]
              IN  \E s \in FirstMatch(Len(folder), found) :
                    /\ tree' = IF i = 0 THEN tree ELSE RemoveAt(tree, i)
                    /\ folder' = IF s = 0 THEN freed ELSE [freed EXCEPT ![s] = Null]
                    /\ watch' = IF s = 0 THEN watch
                                ELSE [w \in 1..Len(watch) |->
                                        IF w = wd[s] THEN NoDir ELSE watch[w]]
                    /\ accidents' = accidents
                         \cup (IF path # Proper(event) THEN {"astray"} ELSE {})
                         \cup (IF \/ i # 0 /\ tree[i].path # path
                                  \/ s # 0 /\ freed[s].kind = "node" /\ freed[s].path # path
                               THEN {"confused"} ELSE {})
           /\ UNCHANGED stage
  BY DEF DirRemoved
<1> DEFINE freed == FreeNode(i, folder)
           found == [k \in 1..Len(folder) |->
                       IF freed[k].kind = "freed" THEN BOOLEAN ELSE SlotMatches(k, path)]
<1>2. i = 0 \/ (i \in 1..Len(tree) /\ TRUE \in NodeMatches(i, path))
  BY <1>1 DEF FirstMatch
<1>3. ASSUME i = 0
      PROVE  \A j \in 1..Len(tree) : FALSE \in NodeMatches(j, path)
  BY <1>0, <1>1, <1>3 DEF FirstMatch
<1>4. ASSUME i = 1, stage' = "crashed", UNCHANGED <<tree, folder, watch, accidents>>
      PROVE  Crash(path)
  BY <1>0, <1>2, <1>4 DEF Crash
<1>5. ASSUME i # 1, stage' = stage,
             NEW s \in FirstMatch(Len(folder), found),
             /\ tree' = IF i = 0 THEN tree ELSE RemoveAt(tree, i)
             /\ folder' = IF s = 0 THEN freed ELSE [freed EXCEPT ![s] = Null]
             /\ watch' = IF s = 0 THEN watch
                         ELSE [w \in 1..Len(watch) |-> IF w = wd[s] THEN NoDir ELSE watch[w]]
             /\ accidents' = accidents
                  \cup (IF path # Proper(event) THEN {"astray"} ELSE {})
                  \cup (IF \/ i # 0 /\ tree[i].path # path
                           \/ s # 0 /\ freed[s].kind = "node" /\ freed[s].path # path
                        THEN {"confused"} ELSE {})
      PROVE  \E j \in {0} \cup (1..Len(tree)), t \in {0} \cup (1..Len(folder)) :
               Removal(event, path, j, t)
  <2>1. s = 0 \/ (s \in 1..Len(folder) /\ TRUE \in found[s])
    BY DEF FirstMatch
  <2>2. s # 0 => freed[s].kind = "freed" \/ TRUE \in SlotMatches(s, path)
    BY <2>1
  <2>3. Removal(event, path, i, s)
    BY <1>2, <1>3, <1>5, <2>2 DEF Removal
  <2> QED
    BY <1>2, <2>1, <2>3
<1> QED
  BY <1>1, <1>4, <1>5

-----------------------------------------------------------------------------
(* The beginning.                                                          *)

\* There are numbers for as many directories as there are.
LEMMA Numbering ==
  ASSUME NEW there \in SUBSET Paths
  PROVE  /\ Cardinality(there) \in Nat
         /\ \E d \in [Paths -> 0..Cardinality(there)] :
              /\ \A p \in Paths : d[p] # NoDir <=> p \in there
              /\ \A p, q \in there : d[p] = d[q] => p = q
<1>1. IsFiniteSet(there)
  BY PathsAssumption, FS_Subset
<1>2. Cardinality(there) \in Nat /\ ExistsBijection(there, 1..Cardinality(there))
  BY <1>1, FS_CardinalityType, Fun_ExistsBijSymmetric
<1>3. PICK f \in Bijection(there, 1..Cardinality(there)) : TRUE
  BY <1>2 DEF ExistsBijection
<1>4. f \in [there -> 1..Cardinality(there)] /\ \A p, q \in there : f[p] = f[q] => p = q
  BY <1>3 DEF Bijection, Injection, IsInjective
<1> DEFINE d == [p \in Paths |-> IF p \in there THEN f[p] ELSE 0]
<1>5. d \in [Paths -> 0..Cardinality(there)]
  BY <1>2, <1>4
<1>6. \A p \in Paths : d[p] # NoDir <=> p \in there
  BY <1>2, <1>4 DEF NoDir
<1>7. \A p, q \in there : d[p] = d[q] => p = q
  BY <1>4
<1> QED
  BY <1>2, <1>5, <1>6, <1>7

LEMMA InitDirInv == DirInit => DirInv
<1> SUFFICES ASSUME DirInit PROVE DirInv
  OBVIOUS
<1>1. PICK there \in SUBSET Paths :
        /\ Root \in there
        /\ \A p \in there : p # Root => Front(p) \in there
        /\ made = Cardinality(there)
        /\ made <= MaxMade
        /\ dir = CHOOSE d \in [Paths -> 0..made] :
                   /\ \A p \in Paths : d[p] # NoDir <=> p \in there
                   /\ \A p, q \in there : d[p] = d[q] => p = q
  BY DEF DirInit
<1>2. /\ dir \in [Paths -> 0..made]
      /\ \A p \in Paths : dir[p] # NoDir <=> p \in there
      /\ \A p, q \in there : dir[p] = dir[q] => p = q
  BY <1>1, Numbering
<1>3. made \in 0..MaxMade /\ MaxMade \in Nat /\ made \in Nat
  BY <1>1, Numbering, SlotsAssumption
<1>4. /\ stage = "walk" /\ tree = <<>> /\ folder = <<>> /\ wd = <<>> /\ walked = 0 /\ abspath = Elsewhere
      /\ watch = <<>> /\ events = <<>> /\ accidents = {}
  BY DEF DirInit
<1>5. Len(<<>>) = 0
  BY EmptySeq
<1>6. DirTypeOK
  BY <1>2, <1>3, <1>4, <1>5, EmptySeq, SlotsAssumption DEF DirTypeOK, DirPaths
<1>7. FolderSound
  <2>1. dir[Root] # NoDir /\ \A p \in Paths \ {Root} : dir[p] # NoDir => dir[Front(p)] # NoDir
    BY <1>1, <1>2, PathsAssumption
  <2>2. \A p, q \in Paths : dir[p] = dir[q] /\ dir[p] # NoDir => p = q
    BY <1>2
  <2>3. \A p \in Paths : dir[p] <= made
    BY <1>2, <1>3
  <2> QED
    BY <1>4, <1>5, <2>1, <2>2, <2>3 DEF FolderSound
<1>8. HeadFirst
  BY <1>4 DEF HeadFirst
<1>9. Attributed
  BY <1>4, <1>5 DEF Attributed, InStep, SlotsWatch, EventsPlaced
<1>10. Reported
  BY <1>4, <1>5, PathsAssumption DEF Reported, Orderly, Started, LostIsOver, RemovalIsLast,
                    MadeIsNew, NodesSlots
<1> QED
  BY <1>6, <1>7, <1>8, <1>9, <1>10 DEF DirInv

-----------------------------------------------------------------------------
(* What the user does.                                                     *)

\* A slot with a path has the path of the directory that its descriptor watches.
LEMMA SlotOfWatched ==
  ASSUME FolderSound, SlotsWatch, NEW in \in Paths, dir[in] # NoDir,
         NEW w \in 1..Len(watch), watch[w] = dir[in],
         w <= Len(folder), Len(folder) \in Nat, Len(watch) \in Nat, folder[w].kind = "node"
  PROVE  folder[w].path = in
<1>1. w \in 1..Len(folder)
  OBVIOUS
<1>2. folder[w].path \in Paths /\ watch[w] \in {NoDir, dir[folder[w].path]}
  BY <1>1 DEF SlotsWatch
<1>3. dir[folder[w].path] = dir[in]
  BY <1>2
<1> QED
  BY <1>2, <1>3 DEF FolderSound

LEMMA EventArrives ==
  ASSUME DirTypeOK, FolderSound, HeadFirst,
         NEW what \in {"mkdir", "rmdir", "file"}, NEW in \in Paths, NEW name \in Names,
         NEW path, path = Known(Append(in, name)),
         what # "file" => Append(in, name) \in Paths,
         dir[in] # NoDir, Emit(what, in, name),
         UNCHANGED monitor, Len(watch') = Len(watch),
         \A w \in 1..Len(watch) : watch'[w] \in {NoDir, watch[w]},
         what = "rmdir" => \A w \in 1..Len(watch) : watch[w] = dir[path] => watch'[w] = NoDir
  PROVE  /\ events' \in Seq(Events)
         /\ stage = "walk" => events' = <<>>
         /\ \A i \in 1..Len(events') : \/ i \in 1..Len(events) /\ events'[i] = events[i]
                                       \/ events'[i].what = what /\ Proper(events'[i]) = path
         /\ SlotsWatch /\ EventsPlaced => EventsPlaced'
         /\ LostIsOver /\ Started => LostIsOver'
         /\ SlotsWatch /\ RemovalIsLast => RemovalIsLast'
<1>1. events \in Seq(Events) /\ Len(events) \in Nat /\ Len(watch) \in Nat /\ Len(folder) \in Nat
      /\ folder' = folder /\ tree' = tree /\ walked' = walked /\ walked \in Nat
  BY DEF DirTypeOK, monitor
<1>2. CASE events' = events
  <2>1. \A i \in 1..Len(events') : i \in 1..Len(events) /\ events'[i] = events[i]
    BY <1>2
  <2>2. EventsPlaced => EventsPlaced'
    BY <1>1, <1>2 DEF EventsPlaced
  <2>3. ASSUME LostIsOver, Started PROVE LostIsOver'
    <3>1. \A k \in 1..Len(folder) : k <= walked => k \in 1..Len(watch)
      BY <2>3 DEF Started
    <3>2. \A k \in 1..Len(folder) : k <= walked /\ folder[k].kind # "node" => watch'[k] = NoDir
      BY <2>3, <3>1 DEF LostIsOver
    <3> QED
      BY <1>1, <1>2, <2>3, <3>2 DEF LostIsOver
  <2>4. ASSUME SlotsWatch, RemovalIsLast PROVE RemovalIsLast'
    <3>1. \A k \in 1..Len(folder) : folder[k].kind = "node" => k \in 1..Len(watch)
      BY <2>4 DEF SlotsWatch
    <3> QED
      BY <1>1, <1>2, <2>4, <3>1 DEF RemovalIsLast
  <2> QED
    BY <1>1, <1>2, <2>1, <2>2, <2>3, <2>4 DEF HeadFirst
<1>3. ASSUME NEW w \in 1..Len(watch), watch[w] = dir[in],
             events' = Append(events, Event(what, w, in, name)),
             Event(what, w, in, name) \in Events
      PROVE  /\ events' \in Seq(Events)
             /\ stage = "walk" => events' = <<>>
             /\ \A i \in 1..Len(events') : \/ i \in 1..Len(events) /\ events'[i] = events[i]
                                           \/ events'[i].what = what /\ Proper(events'[i]) = path
             /\ SlotsWatch /\ EventsPlaced => EventsPlaced'
             /\ LostIsOver /\ Started => LostIsOver'
             /\ SlotsWatch /\ RemovalIsLast => RemovalIsLast'
  <2> DEFINE e == Event(what, w, in, name)
             n == Len(events)
  <2>1. /\ e.what = what /\ e.wd = w /\ e.in = in /\ Proper(e) = path
        /\ what # "file" => path # Root /\ in = Front(path)
    <3>1. e.what = what /\ e.wd = w /\ e.in = in /\ Proper(e) = path
      BY DEF Event, Proper
    <3>2. e \in Events
      BY <1>3
    <3> HIDE DEF e
    <3> QED
      BY <3>1, <3>2, EventParts
  <2>2. /\ events' \in Seq(Events) /\ Len(events') = n + 1 /\ n \in Nat
        /\ \A i \in 1..n : events'[i] = events[i]
        /\ events'[n + 1] = e
    BY <1>1, <1>3, QueueGrows
  <2> HIDE DEF e, n
  <2>3. \A i \in 1..Len(events') : (i \in 1..n /\ events'[i] = events[i])
                                  \/ (i = n + 1 /\ events'[i] = e)
    BY <2>2
  <2>4. stage # "walk"
    <3>1. SUFFICES ASSUME stage = "walk" PROVE FALSE
      OBVIOUS
    <3>2. watch = <<>> /\ Len(<<>>) = 0
      BY <3>1, EmptySeq DEF HeadFirst
    <3> QED
      BY <3>2
  <2>5. ASSUME SlotsWatch, EventsPlaced PROVE EventsPlaced'
    <3>1. w <= Len(folder) /\ folder[w].kind = "node" => folder[w].path = in
      BY <1>1, <1>3, <2>5, SlotOfWatched
    <3> SUFFICES ASSUME NEW i \in 1..Len(events')
                 PROVE  /\ events'[i].wd \in 1..Len(watch)
                        /\ events'[i].wd <= Len(folder) /\ folder[events'[i].wd].kind = "node"
                             => folder[events'[i].wd].path = events'[i].in
                        /\ events'[i].what # "file"
                             => Proper(events'[i]) # Root /\ events'[i].in = Front(Proper(events'[i]))
      BY <1>1 DEF EventsPlaced
    <3>2. CASE i \in 1..n /\ events'[i] = events[i]
      BY <2>5, <3>2 DEF EventsPlaced, n
    <3>3. CASE i = n + 1 /\ events'[i] = e
      BY <2>1, <3>1, <3>3
    <3> QED
      BY <2>3, <3>2, <3>3
  <2>6. ASSUME LostIsOver, Started PROVE LostIsOver'
    <3> SUFFICES ASSUME NEW k \in 1..Len(folder), k <= walked, folder[k].kind # "node"
                 PROVE  watch'[k] = NoDir /\ \A i \in 1..Len(events') : events'[i].wd # k
      BY <1>1 DEF LostIsOver
    <3>1. watch[k] = NoDir /\ (\A i \in 1..n : events[i].wd # k) /\ k \in 1..Len(watch)
      BY <2>6 DEF LostIsOver, Started, n
    <3>2. w # k
      BY <1>3, <3>1
    <3> QED
      BY <2>1, <2>3, <3>1, <3>2
  <2>7. ASSUME SlotsWatch, RemovalIsLast PROVE RemovalIsLast'
    <3> SUFFICES ASSUME NEW i \in 1..Len(events'), NEW k \in 1..Len(folder),
                        events'[i].what = "rmdir", folder[k].kind = "node",
                        folder[k].path = Proper(events'[i])
                 PROVE  watch'[k] = NoDir /\ \A j \in (i + 1)..Len(events') : events'[j].wd # k
      BY <1>1 DEF RemovalIsLast
    <3>1. k \in 1..Len(watch) /\ watch[k] \in {NoDir, dir[folder[k].path]}
      BY <2>7 DEF SlotsWatch
    <3>2. CASE i \in 1..n /\ events'[i] = events[i]
      <4>1. watch[k] = NoDir /\ \A j \in (i + 1)..n : events[j].wd # k
        BY <2>7, <3>2 DEF RemovalIsLast, n
      <4>2. w # k
        BY <1>3, <4>1
      <4>3. ASSUME NEW j \in (i + 1)..Len(events') PROVE events'[j].wd # k
        <5>1. j \in (i + 1)..n \/ j = n + 1
          BY <2>2, <3>2
        <5>2. j \in (i + 1)..n => j \in 1..n
          BY <3>2
        <5> QED
          BY <2>1, <2>2, <4>1, <4>2, <5>1, <5>2
      <4> QED
        BY <3>1, <4>1, <4>3
    <3>3. CASE i = n + 1 /\ events'[i] = e
      <4>1. watch'[k] = NoDir
        BY <2>1, <3>1, <3>3
      <4>2. \A j \in (i + 1)..Len(events') : FALSE
        BY <2>2, <3>3
      <4> QED
        BY <4>1, <4>2
    <3> QED
      BY <2>3, <3>2, <3>3
  <2> QED
    BY <2>1, <2>2, <2>3, <2>4, <2>5, <2>6, <2>7 DEF n
<1> QED
  BY <1>2, <1>3, Emitted

LEMMA UserTouchesKeeps ==
  ASSUME DirInv, NEW p \in Paths, NEW name \in FileNames, UserTouches(p, name)
  PROVE  DirInv'
<1>1. /\ dir[p] # NoDir /\ Emit("file", p, name)
      /\ dir' = dir /\ made' = made /\ watch' = watch /\ accidents' = accidents
      /\ UNCHANGED monitor
  BY DEF UserTouches, Exists, user
<1>2. DirTypeOK /\ FolderSound /\ HeadFirst /\ Attributed /\ Reported
  BY DEF DirInv
<1>3. stage' = stage /\ tree' = tree /\ folder' = folder /\ wd' = wd /\ walked' = walked
      /\ abspath' = abspath
  BY <1>1 DEF monitor
<1>4. /\ events' \in Seq(Events)
      /\ stage = "walk" => events' = <<>>
      /\ \A i \in 1..Len(events') : \/ i \in 1..Len(events) /\ events'[i] = events[i]
                                    \/ events'[i].what = "file"
      /\ SlotsWatch /\ EventsPlaced => EventsPlaced'
      /\ LostIsOver /\ Started => LostIsOver'
      /\ SlotsWatch /\ RemovalIsLast => RemovalIsLast'
  <2>1. /\ "file" \in {"mkdir", "rmdir", "file"} /\ name \in Names
        /\ \A w \in 1..Len(watch) : watch'[w] \in {NoDir, watch[w]}
    BY <1>1 DEF Names
  <2> QED
    BY <1>1, <1>2, <2>1, EventArrives
<1>5. DirTypeOK'
  BY <1>1, <1>2, <1>3, <1>4 DEF DirTypeOK
<1>6. FolderSound'
  BY <1>1, <1>2 DEF FolderSound
<1>7. HeadFirst'
  BY <1>1, <1>2, <1>3, <1>4 DEF HeadFirst
<1>8. Attributed'
  BY <1>1, <1>2, <1>3, <1>4 DEF Attributed, Accident, InStep, SlotsWatch
<1>9. ASSUME ~Accident({"early", "moved", "confused", "astray"})'
      PROVE  /\ Orderly' /\ Started' /\ LostIsOver' /\ RemovalIsLast'
             /\ MadeIsNew' /\ NodesSlots'
  <2>1. /\ Orderly /\ Started /\ LostIsOver /\ RemovalIsLast /\ MadeIsNew /\ NodesSlots
        /\ ~Accident({"shifted", "moved"})
    BY <1>1, <1>2, <1>9 DEF Reported, Accident, Orderly
  <2>2. SlotsWatch
    BY <1>2, <2>1 DEF Attributed
  <2>3. Orderly'
    BY <1>1, <1>3, <1>4, <2>1 DEF Orderly, Exists
  <2>4. Started' /\ NodesSlots'
    BY <1>1, <1>3, <2>1 DEF Started, NodesSlots
  <2>5. MadeIsNew'
    BY <1>1, <1>3, <1>4, <2>1 DEF MadeIsNew
  <2> QED
    BY <1>4, <2>1, <2>2, <2>3, <2>4, <2>5
<1> QED
  BY <1>5, <1>6, <1>7, <1>8, <1>9 DEF DirInv, Reported

LEMMA UserMkdirKeeps ==
  ASSUME DirInv, NEW p \in Paths, UserMkdir(p)
  PROVE  DirInv'
<1> DEFINE up == Front(p)
<1>1. /\ made < MaxMade /\ p # Root /\ dir[p] = NoDir /\ dir[up] # NoDir
      /\ made' = made + 1 /\ dir' = [dir EXCEPT ![p] = made + 1]
      /\ Emit("mkdir", up, Last(p))
      /\ watch' = watch /\ UNCHANGED monitor
      /\ accidents' = accidents \cup Early \cup
           IF stage = "notify" /\ Young(up) THEN {"nested"} ELSE {}
  BY PathsAssumption DEF UserMkdir, Exists
<1>2. DirTypeOK /\ FolderSound /\ HeadFirst /\ Attributed /\ Reported
  BY DEF DirInv
<1>3. stage' = stage /\ tree' = tree /\ folder' = folder /\ wd' = wd /\ walked' = walked
      /\ abspath' = abspath
  BY <1>1 DEF monitor
<1>4. up \in Paths /\ p # Root /\ Last(p) \in Names /\ p = Append(up, Last(p))
  BY <1>1, PathParts, NamesOfPaths
<1> HIDE DEF up
<1>5. /\ events' \in Seq(Events)
      /\ stage = "walk" => events' = <<>>
      /\ \A i \in 1..Len(events') : \/ i \in 1..Len(events) /\ events'[i] = events[i]
                                    \/ events'[i].what = "mkdir" /\ Proper(events'[i]) = p
      /\ SlotsWatch /\ EventsPlaced => EventsPlaced'
      /\ LostIsOver /\ Started => LostIsOver'
      /\ SlotsWatch /\ RemovalIsLast => RemovalIsLast'
  <2>1. p = Known(Append(up, Last(p))) /\ Append(up, Last(p)) \in Paths
    BY <1>4 DEF Known
  <2>2. \A w \in 1..Len(watch) : watch'[w] \in {NoDir, watch[w]}
    BY <1>1
  <2>3. "mkdir" \in {"mkdir", "rmdir", "file"} /\ "mkdir" # "rmdir"
    OBVIOUS
  <2> QED
    BY <1>1, <1>2, <1>4, <2>1, <2>2, <2>3, EventArrives DEF up
<1>6. /\ dir \in [Paths -> 0..MaxMade] /\ made \in 0..MaxMade /\ MaxMade \in Nat
      /\ dir' \in [Paths -> 0..MaxMade] /\ made' \in 0..MaxMade
      /\ dir'[p] = made + 1 /\ \A q \in Paths \ {p} : dir'[q] = dir[q]
      /\ made \in Nat
  BY <1>1, <1>2, SlotsAssumption DEF DirTypeOK
<1>7. accidents \subseteq accidents' /\ accidents' \subseteq accidents \cup {"early", "nested"}
      /\ (stage = "watch" => "early" \in accidents')
  BY <1>1 DEF Early
<1>8. DirTypeOK'
  BY <1>1, <1>2, <1>3, <1>5, <1>6, <1>7 DEF DirTypeOK
<1>9. FolderSound'
  <2>1. dir'[Root] # NoDir
    BY <1>1, <1>2, <1>6, PathsAssumption DEF FolderSound
  <2>2. ASSUME NEW q \in Paths \ {Root}, dir'[q] # NoDir
        PROVE  dir'[Front(q)] # NoDir
    <3>1. Front(q) \in Paths
      BY PathsAssumption
    <3>2. dir[Front(q)] # NoDir
      BY <1>1, <1>2, <1>6, <2>2 DEF FolderSound, up
    <3> QED
      BY <1>6, <3>1, <3>2 DEF NoDir
  <2>3. \A q \in Paths : dir[q] <= made
    BY <1>2 DEF FolderSound
  <2>4. ASSUME NEW q \in Paths, NEW r \in Paths, dir'[q] = dir'[r], dir'[q] # NoDir
        PROVE  q = r
    <3>1. CASE q # p /\ r # p
      BY <1>2, <1>6, <2>4, <3>1 DEF FolderSound
    <3>2. \A t \in Paths : dir[t] # made + 1
      BY <1>6, <2>3
    <3> QED
      BY <1>6, <2>4, <3>1, <3>2
  <2>5. \A q \in Paths : dir'[q] <= made'
    BY <1>1, <1>6, <2>3
  <2>6. \A w \in 1..Len(watch) : watch[w] \in 0..MaxMade /\ watch[w] <= made'
    BY <1>1, <1>2, <1>6 DEF FolderSound, DirTypeOK
  <2> QED
    BY <1>1, <2>1, <2>2, <2>4, <2>5, <2>6 DEF FolderSound
<1>10. HeadFirst'
  BY <1>1, <1>2, <1>3, <1>5 DEF HeadFirst
<1>11. ASSUME SlotsWatch PROVE SlotsWatch'
  <2> SUFFICES ASSUME NEW k \in 1..Len(folder), folder[k].kind = "node"
               PROVE  /\ k \in 1..Len(watch) /\ folder[k].path \in Paths
                      /\ watch[k] \in {NoDir, dir'[folder[k].path]}
    BY <1>1, <1>3 DEF SlotsWatch
  <2>1. /\ k \in 1..Len(watch) /\ folder[k].path \in Paths
        /\ watch[k] \in {NoDir, dir[folder[k].path]}
    BY <1>11 DEF SlotsWatch
  <2> QED
    BY <1>1, <1>6, <2>1
<1>12. Attributed'
  BY <1>1, <1>2, <1>3, <1>5, <1>7, <1>11 DEF Attributed, Accident, InStep
<1>13. ASSUME ~Accident({"early", "moved", "confused", "astray"})'
       PROVE  /\ Orderly' /\ Started' /\ LostIsOver' /\ RemovalIsLast'
              /\ MadeIsNew' /\ NodesSlots'
  <2>1. /\ Orderly /\ Started /\ LostIsOver /\ RemovalIsLast /\ MadeIsNew /\ NodesSlots
        /\ ~Accident({"shifted", "moved"}) /\ stage # "watch"
    BY <1>2, <1>7, <1>13 DEF Reported, Accident, Orderly
  <2>2. SlotsWatch
    BY <1>2, <2>1 DEF Attributed
  <2>3. Orderly'
    BY <1>1, <1>3, <1>7, <2>1 DEF Orderly
  <2>4. Started' /\ NodesSlots'
    BY <1>1, <1>3, <2>1 DEF Started, NodesSlots
  <2>5. \A w \in 1..Len(watch) : watch[w] \in 0..MaxMade /\ watch[w] # made + 1
    <3>1. \A w \in 1..Len(watch) : watch[w] \in 0..MaxMade
      BY <1>2, ElementOfSeq DEF DirTypeOK
    <3>2. \A w \in 1..Len(watch) : watch[w] <= made
      BY <1>2 DEF FolderSound
    <3> QED
      BY <1>6, <3>1, <3>2
  <2>6. MadeIsNew'
    <3> SUFFICES ASSUME NEW i \in 1..Len(events'), events'[i].what = "mkdir",
                        NEW w \in 1..Len(watch), w <= walked, watch[w] # NoDir
                 PROVE  watch[w] # dir'[Proper(events'[i])]
      BY <1>1, <1>3 DEF MadeIsNew
    <3>1. CASE Proper(events'[i]) = p
      BY <1>6, <2>5, <3>1
    <3>2. CASE i \in 1..Len(events) /\ events'[i] = events[i] /\ Proper(events'[i]) # p
      <4>1. watch[w] # dir[Proper(events[i])]
        BY <2>1, <3>2 DEF MadeIsNew
      <4>2. events'[i] \in Events
        BY <1>5
      <4>3. Proper(events'[i]) \in Paths
        BY <4>2, EventParts
      <4> QED
        BY <1>6, <3>2, <4>1, <4>3
    <3> QED
      BY <1>5, <3>1, <3>2
  <2> QED
    BY <1>5, <2>1, <2>2, <2>3, <2>4, <2>6
<1> QED
  BY <1>8, <1>9, <1>10, <1>12, <1>13 DEF DirInv, Reported

LEMMA UserRmdirKeeps ==
  ASSUME DirInv, NEW p \in Paths, UserRmdir(p)
  PROVE  DirInv'
<1> DEFINE up == Front(p)
<1>1. /\ p # Root /\ dir[p] # NoDir
      /\ dir' = [dir EXCEPT ![p] = NoDir] /\ made' = made
      /\ watch' = [w \in 1..Len(watch) |-> IF watch[w] = dir[p] THEN NoDir ELSE watch[w]]
      /\ Emit("rmdir", up, Last(p))
      /\ UNCHANGED monitor
      /\ accidents' = accidents \cup Early
      /\ \A q \in Paths \ {Root} : Front(q) = p => dir[q] = NoDir
  BY PathsAssumption DEF UserRmdir, Exists, Empty
<1>2. DirTypeOK /\ FolderSound /\ HeadFirst /\ Attributed /\ Reported
  BY DEF DirInv
<1>3. stage' = stage /\ tree' = tree /\ folder' = folder /\ wd' = wd /\ walked' = walked
      /\ abspath' = abspath
  BY <1>1 DEF monitor
<1>4. up \in Paths /\ dir[up] # NoDir /\ Last(p) \in Names /\ p = Append(up, Last(p))
  BY <1>1, <1>2, PathParts, NamesOfPaths DEF FolderSound
<1> HIDE DEF up
<1>5. /\ watch \in Seq(0..MaxMade) /\ Len(watch) \in Nat
      /\ \A w \in 1..Len(watch) : watch[w] \in 0..MaxMade /\ MaxMade \in Nat
  BY <1>2, ElementOfSeq, SlotsAssumption DEF DirTypeOK
<1>6. /\ watch' \in Seq(0..MaxMade) /\ Len(watch') = Len(watch)
      /\ \A w \in 1..Len(watch) : watch'[w] = IF watch[w] = dir[p] THEN NoDir ELSE watch[w]
  <2>1. watch' \in [1..Len(watch) -> 0..MaxMade]
    BY <1>1, <1>5 DEF NoDir
  <2>2. watch' \in Seq(0..MaxMade) /\ Len(watch') = Len(watch)
    BY <1>5, <2>1
  <2> QED
    BY <1>1, <2>2
<1>7. /\ events' \in Seq(Events)
      /\ stage = "walk" => events' = <<>>
      /\ \A i \in 1..Len(events') : \/ i \in 1..Len(events) /\ events'[i] = events[i]
                                    \/ events'[i].what = "rmdir" /\ Proper(events'[i]) = p
      /\ SlotsWatch /\ EventsPlaced => EventsPlaced'
      /\ LostIsOver /\ Started => LostIsOver'
      /\ SlotsWatch /\ RemovalIsLast => RemovalIsLast'
  <2>1. \A w \in 1..Len(watch) : /\ watch'[w] \in {NoDir, watch[w]}
                                 /\ watch[w] = dir[p] => watch'[w] = NoDir
    BY <1>6
  <2>2. p = Known(Append(up, Last(p))) /\ Append(up, Last(p)) \in Paths
    BY <1>4 DEF Known
  <2> QED
    BY <1>1, <1>2, <1>4, <1>6, <2>1, <2>2, EventArrives DEF up
<1>8. /\ dir \in [Paths -> 0..MaxMade] /\ dir' \in [Paths -> 0..MaxMade]
      /\ dir'[p] = NoDir /\ \A q \in Paths \ {p} : dir'[q] = dir[q]
      /\ made \in 0..MaxMade /\ made \in Nat
  BY <1>1, <1>2, SlotsAssumption DEF DirTypeOK, NoDir
<1>9. accidents \subseteq accidents' /\ accidents' \subseteq accidents \cup {"early"}
      /\ (stage = "watch" => "early" \in accidents')
  BY <1>1 DEF Early
<1>10. DirTypeOK'
  BY <1>1, <1>2, <1>3, <1>6, <1>7, <1>8, <1>9 DEF DirTypeOK
<1>11. FolderSound'
  <2>1. dir'[Root] # NoDir
    BY <1>1, <1>2, <1>8, PathsAssumption DEF FolderSound
  <2>2. ASSUME NEW q \in Paths \ {Root}, dir'[q] # NoDir
        PROVE  dir'[Front(q)] # NoDir
    <3>1. Front(q) \in Paths /\ dir[q] # NoDir
      BY <1>8, <2>2, PathsAssumption
    <3>2. dir[Front(q)] # NoDir /\ Front(q) # p
      BY <1>1, <1>2, <3>1 DEF FolderSound
    <3> QED
      BY <1>8, <3>1, <3>2
  <2>3. \A q, r \in Paths : dir'[q] = dir'[r] /\ dir'[q] # NoDir => q = r
    BY <1>2, <1>8 DEF FolderSound
  <2>4. \A q \in Paths : dir'[q] <= made'
    BY <1>1, <1>2, <1>8 DEF FolderSound, NoDir
  <2>5. \A w \in 1..Len(watch') : watch'[w] <= made'
    BY <1>1, <1>2, <1>6, <1>8 DEF FolderSound, NoDir
  <2> QED
    BY <2>1, <2>2, <2>3, <2>4, <2>5 DEF FolderSound
<1>12. HeadFirst'
  <2>1. stage = "walk" => watch' = <<>>
    <3>1. stage = "walk" => Len(watch') = 0
      BY <1>2, <1>6, EmptySeq DEF HeadFirst
    <3> QED
      BY <1>6, <3>1, EmptySeq
  <2> QED
    BY <1>2, <1>3, <1>7, <2>1 DEF HeadFirst
<1>13. ASSUME SlotsWatch PROVE SlotsWatch'
  <2> SUFFICES ASSUME NEW k \in 1..Len(folder), folder[k].kind = "node"
               PROVE  /\ k \in 1..Len(watch) /\ folder[k].path \in Paths
                      /\ watch'[k] \in {NoDir, dir'[folder[k].path]}
    BY <1>3, <1>6 DEF SlotsWatch
  <2>1. /\ k \in 1..Len(watch) /\ folder[k].path \in Paths
        /\ watch[k] \in {NoDir, dir[folder[k].path]}
    BY <1>13 DEF SlotsWatch
  <2> QED
    BY <1>6, <1>8, <2>1
<1>14. Attributed'
  BY <1>2, <1>3, <1>6, <1>7, <1>9, <1>13 DEF Attributed, Accident, InStep
<1>15. ASSUME ~Accident({"early", "moved", "confused", "astray"})'
       PROVE  /\ Orderly' /\ Started' /\ LostIsOver' /\ RemovalIsLast'
              /\ MadeIsNew' /\ NodesSlots'
  <2>1. /\ Orderly /\ Started /\ LostIsOver /\ RemovalIsLast /\ MadeIsNew /\ NodesSlots
        /\ ~Accident({"shifted", "moved"}) /\ stage # "watch"
    BY <1>2, <1>9, <1>15 DEF Reported, Accident, Orderly
  <2>2. SlotsWatch
    BY <1>2, <2>1 DEF Attributed
  <2>3. Orderly'
    BY <1>3, <1>6, <1>9, <2>1 DEF Orderly
  <2>4. Started' /\ NodesSlots'
    BY <1>3, <1>6, <2>1 DEF Started, NodesSlots
  <2>5. MadeIsNew'
    <3> SUFFICES ASSUME NEW i \in 1..Len(events'), events'[i].what = "mkdir",
                        NEW w \in 1..Len(watch), w <= walked, watch'[w] # NoDir
                 PROVE  watch'[w] # dir'[Proper(events'[i])]
      BY <1>3, <1>6 DEF MadeIsNew
    <3>1. i \in 1..Len(events) /\ events'[i] = events[i] /\ watch'[w] = watch[w]
      BY <1>6, <1>7
    <3>2. watch[w] # dir[Proper(events[i])]
      BY <2>1, <3>1 DEF MadeIsNew
    <3>3. events'[i] \in Events
      BY <1>7
    <3>4. Proper(events'[i]) \in Paths
      BY <3>3, EventParts
    <3> QED
      BY <1>8, <3>1, <3>2, <3>4
  <2> QED
    BY <1>7, <2>1, <2>2, <2>3, <2>4, <2>5
<1> QED
  BY <1>10, <1>11, <1>12, <1>14, <1>15 DEF DirInv, Reported

LEMMA UserMovesKeeps ==
  ASSUME DirInv, NEW p \in Paths, NEW q \in Paths, UserMoves(p, q)
  PROVE  DirInv'
<1>1. /\ p # Root /\ q # Root /\ dir[p] # NoDir /\ dir[q] = NoDir
      /\ dir[Front(q)] # NoDir /\ Front(q) # p /\ p # q
      /\ \A r \in Paths \ {Root} : Front(r) = p => dir[r] = NoDir
      /\ dir' = [dir EXCEPT ![p] = NoDir, ![q] = dir[p]]
      /\ accidents' = accidents \cup {"moved"}
      /\ made' = made /\ watch' = watch /\ events' = events /\ UNCHANGED monitor
  BY PathsAssumption DEF UserMoves, Exists, Empty
<1>2. DirTypeOK /\ FolderSound /\ HeadFirst
  BY DEF DirInv
<1>3. stage' = stage /\ tree' = tree /\ folder' = folder /\ wd' = wd /\ walked' = walked
      /\ abspath' = abspath
  BY <1>1 DEF monitor
<1>4. /\ dir \in [Paths -> 0..MaxMade] /\ dir' \in [Paths -> 0..MaxMade]
      /\ dir'[p] = NoDir /\ dir'[q] = dir[p]
      /\ \A r \in Paths \ {p, q} : dir'[r] = dir[r]
  BY <1>1, <1>2, SlotsAssumption DEF DirTypeOK, NoDir
<1>5. DirTypeOK'
  BY <1>1, <1>2, <1>3, <1>4 DEF DirTypeOK
<1>6. FolderSound'
  <2>1. dir'[Root] # NoDir
    BY <1>1, <1>2, <1>4, PathsAssumption DEF FolderSound
  <2>2. ASSUME NEW r \in Paths \ {Root}, dir'[r] # NoDir
        PROVE  dir'[Front(r)] # NoDir
    <3>1. Front(r) \in Paths /\ r # p
      BY <1>4, <2>2, PathsAssumption
    <3>2. dir[Front(r)] # NoDir /\ Front(r) # p
      <4>1. CASE r = q
        BY <1>1, <4>1
      <4>2. CASE r # q
        <5>1. dir[r] # NoDir
          BY <1>4, <2>2, <3>1, <4>2
        <5> QED
          BY <1>1, <1>2, <5>1 DEF FolderSound
      <4> QED
        BY <4>1, <4>2
    <3> QED
      BY <1>1, <1>4, <3>1, <3>2
  <2>3. \A r, t \in Paths : dir'[r] = dir'[t] /\ dir'[r] # NoDir => r = t
    BY <1>1, <1>2, <1>4 DEF FolderSound
  <2>4. \A r \in Paths : dir[r] <= made /\ \A w \in 1..Len(watch) : watch[w] <= made
    BY <1>2 DEF FolderSound
  <2>5. \A r \in Paths : dir'[r] <= made'
    <3>1. made \in Nat
      BY <1>2, SlotsAssumption DEF DirTypeOK
    <3> QED
      BY <1>1, <1>4, <2>4, <3>1 DEF NoDir
  <2> QED
    BY <1>1, <2>1, <2>2, <2>3, <2>4, <2>5 DEF FolderSound
<1>7. HeadFirst'
  BY <1>1, <1>2, <1>3 DEF HeadFirst
<1>8. Attributed' /\ Reported'
  BY <1>1 DEF Attributed, Reported, Accident
<1> QED
  BY <1>5, <1>6, <1>7, <1>8 DEF DirInv

-----------------------------------------------------------------------------
(* The start of the monitor.                                               *)

\* The walk meets the sync folder first, since all others are beneath it.
LEMMA WalkBegins ==
  ASSUME NEW there \in SUBSET Paths, Root \in there, NEW order \in WalkOrders(there)
  PROVE  /\ Cardinality(there) \in Nat \ {0}
         /\ order \in [1..Cardinality(there) -> there]
         /\ \A i, j \in 1..Cardinality(there) : order[i] = order[j] => i = j
         /\ \A p \in there : \E k \in 1..Cardinality(there) : order[k] = p
         /\ order[1] = Root
<1> DEFINE n == Cardinality(there)
<1>1. IsFiniteSet(there) /\ n \in Nat
  BY PathsAssumption, FS_Subset, FS_CardinalityType
<1>2. /\ order \in [1..n -> there]
      /\ \A i, j \in 1..n : order[i] = order[j] => i = j
      /\ \A i, j \in 1..n : Beneath(order[j], order[i]) => i <= j
  BY DEF WalkOrders
<1>3. order \in Injection(1..n, there)
  BY <1>2 DEF Injection, IsInjective
<1>4. IsFiniteSet(1..n) /\ Cardinality(1..n) = n
  BY <1>1, FS_Interval
<1>5. order \in Surjection(1..n, there)
  BY <1>1, <1>3, <1>4, FS_Injection
<1>6. \A p \in there : \E k \in 1..n : order[k] = p
  BY <1>5 DEF Surjection
<1>7. PICK k \in 1..n : order[k] = Root
  BY <1>6
<1>8. n \in Nat \ {0} /\ 1 \in 1..n
  BY <1>1, <1>7
<1>9. Beneath(order[1], order[k])
  <2>1. order[1] \in Paths
    BY <1>2, <1>8
  <2>2. Len(order[1]) \in Nat
    BY <2>1, PathParts
  <2>3. Len(Root) = 0 /\ SubSeq(order[1], 1, 0) = Root
    BY SubSeqEmpty, EmptySeq DEF Root
  <2> QED
    BY <1>7, <2>2, <2>3 DEF Beneath
<1>10. k <= 1
  BY <1>2, <1>8, <1>9, 1 \in 1..n
<1>11. k = 1
  BY <1>1, <1>10
<1> QED
  BY <1>2, <1>7, <1>8, <1>11, <1>6

LEMMA WalkKeeps ==
  ASSUME DirInv, Walk
  PROVE  DirInv'
<1> DEFINE there == {p \in Paths : Exists(p)}
           n == Cardinality(there)
<1>1. PICK order \in WalkOrders(there) :
        tree' = [i \in DOMAIN order |-> [path |-> order[i], slot |-> i]]
  BY DEF Walk
<1>2. /\ stage = "walk" /\ stage' = "watch" /\ walked' = Len(tree')
      /\ folder' = folder /\ wd' = wd /\ watch' = watch /\ events' = events
      /\ abspath' = abspath
      /\ dir' = dir /\ made' = made /\ accidents' = accidents
  BY DEF Walk, user
<1>3. DirTypeOK /\ FolderSound /\ HeadFirst /\ Attributed /\ Reported
  BY DEF DirInv
<1>4. /\ folder = <<>> /\ watch = <<>> /\ events = <<>>
      /\ Len(folder) = 0 /\ Len(watch) = 0 /\ Len(events) = 0
  BY <1>2, <1>3, EmptySeq DEF HeadFirst
<1>5. there \in SUBSET Paths /\ Root \in there
  BY <1>3, PathsAssumption DEF FolderSound, Exists
<1>6. \A p \in there : p \in Paths /\ Exists(p)
  OBVIOUS
<1>7. /\ n \in Nat \ {0} /\ order \in [1..n -> there] /\ order[1] = Root
      /\ \A i, j \in 1..n : order[i] = order[j] => i = j
  BY <1>5, WalkBegins
<1> HIDE DEF there, n
<1>8. tree' = [i \in 1..n |-> [path |-> order[i], slot |-> i]]
  BY <1>1, <1>7
<1>9. \A i \in 1..n : /\ order[i] \in Paths /\ Exists(order[i])
                      /\ [path |-> order[i], slot |-> i] \in Nodes
                      /\ tree'[i].path = order[i] /\ tree'[i].slot = i
  BY <1>6, <1>7, <1>8 DEF Nodes, DirPaths
<1>10. tree' \in [1..n -> Nodes]
  BY <1>8, <1>9
<1>11. tree' \in Seq(Nodes) /\ Len(tree') = n
  BY <1>7, <1>10
<1>12. DirTypeOK'
  BY <1>2, <1>3, <1>7, <1>11 DEF DirTypeOK
<1>13. FolderSound'
  BY <1>2, <1>3 DEF FolderSound
<1>14. HeadFirst'
  <2>1. tree' # <<>>
    BY <1>7, <1>11, EmptySeq
  <2>2. tree'[1].path = Root
    <3>1. 1 \in 1..n
      BY <1>7
    <3>2. tree'[1].path = order[1]
      BY <1>9, <3>1
    <3> QED
      BY <1>7, <3>2
  <2> QED
    BY <1>2, <2>1, <2>2 DEF HeadFirst
<1>15. InStep'
  <2>1. Len(folder) <= n
    BY <1>4, <1>7
  <2>2. \A i \in 1..n : tree'[i].path \in Paths
    BY <1>9
  <2>3. ASSUME NEW i \in 1..n, NEW j \in 1..n, tree'[i].path = tree'[j].path PROVE i = j
    <3>1. tree'[i].path = order[i] /\ tree'[j].path = order[j]
      BY <1>9
    <3> QED
      BY <1>7, <2>3, <3>1
  <2> QED
    BY <1>2, <1>4, <1>11, <2>1, <2>2, <2>3 DEF InStep
<1>16. SlotsWatch' /\ EventsPlaced'
  BY <1>2, <1>4 DEF SlotsWatch, EventsPlaced
<1>17. ASSUME ~Accident({"early", "moved", "confused", "astray"})'
       PROVE  /\ Orderly' /\ Started' /\ LostIsOver' /\ RemovalIsLast'
              /\ MadeIsNew' /\ NodesSlots'
  <2>1. Orderly
    BY <1>2, <1>3, <1>17 DEF Reported, Accident
  <2>2. Orderly'
    <3>1. \A i \in 1..n : /\ tree'[i].slot = i
                          /\ tree'[i].path \in Paths /\ dir'[tree'[i].path] # NoDir
      BY <1>2, <1>9 DEF Exists
    <3>2. "shifted" \notin accidents' /\ abspath' # Garbled
      BY <1>2, <2>1 DEF Orderly
    <3> QED
      BY <1>2, <1>4, <1>11, <3>1, <3>2 DEF Orderly, Exists
  <2>3. Started' /\ LostIsOver' /\ RemovalIsLast' /\ MadeIsNew'
    BY <1>2, <1>4 DEF Started, LostIsOver, RemovalIsLast, MadeIsNew
  <2>4. NodesSlots'
    <3>1. ASSUME NEW i \in 1..n
          PROVE  tree'[i].slot <= n /\ tree'[i].path # Elsewhere /\ ~(tree'[i].slot <= Len(folder))
      <4>1. i <= n /\ ~(i <= Len(folder))
        BY <1>4, <1>7
      <4>2. tree'[i].slot = i /\ tree'[i].path \in Paths
        BY <1>9
      <4> QED
        BY <4>1, <4>2, PathsAssumption
    <3> QED
      BY <1>2, <1>11, <3>1 DEF NodesSlots
  <2> QED
    BY <2>2, <2>3, <2>4
<1> QED
  BY <1>12, <1>13, <1>14, <1>15, <1>16, <1>17 DEF DirInv, Attributed, Reported

LEMMA OverrunKeeps ==
  ASSUME DirInv, Overrun
  PROVE  DirInv'
<1>1. /\ dir' = dir /\ made' = made /\ watch' = watch /\ events' = events
      /\ stage' = stage /\ tree' = tree /\ folder' = folder /\ wd' = wd /\ walked' = walked
      /\ abspath' = abspath /\ accidents' = accidents \cup {"overrun"}
  BY DEF Overrun, user, monitor
<1>2. DirTypeOK' /\ FolderSound' /\ HeadFirst'
  BY <1>1 DEF DirInv, DirTypeOK, FolderSound, HeadFirst
<1>3. Attributed'
  BY <1>1 DEF DirInv, Attributed, Accident, InStep, SlotsWatch, EventsPlaced
<1>4. ASSUME ~Accident({"early", "moved", "confused", "astray"})'
      PROVE  /\ Orderly' /\ Started' /\ LostIsOver' /\ RemovalIsLast'
             /\ MadeIsNew' /\ NodesSlots'
  <2>1. Orderly /\ Started /\ LostIsOver /\ RemovalIsLast /\ MadeIsNew /\ NodesSlots
    BY <1>1, <1>4 DEF DirInv, Reported, Accident
  <2>2. Orderly'
    BY <1>1, <2>1 DEF Orderly, Exists
  <2> QED
    BY <1>1, <2>1, <2>2 DEF Started, LostIsOver, RemovalIsLast, MadeIsNew, NodesSlots
<1> QED
  BY <1>2, <1>3, <1>4 DEF DirInv, Reported

LEMMA StartNotifyKeeps ==
  ASSUME DirInv, StartNotify
  PROVE  DirInv'
<1>1. /\ dir' = dir /\ made' = made /\ watch' = watch /\ events' = events
      /\ tree' = tree /\ folder' = folder /\ wd' = wd /\ walked' = walked
      /\ abspath' = abspath /\ accidents' = accidents
      /\ stage = "watch" /\ stage' = "notify" /\ Len(folder) = Len(tree)
  BY DEF StartNotify, user
<1>2. DirTypeOK' /\ FolderSound' /\ HeadFirst'
  BY <1>1 DEF DirInv, DirTypeOK, FolderSound, HeadFirst
<1>3. Attributed'
  BY <1>1 DEF DirInv, Attributed, Accident, InStep, SlotsWatch, EventsPlaced
<1>4. ASSUME ~Accident({"early", "moved", "confused", "astray"})'
      PROVE  /\ Orderly' /\ Started' /\ LostIsOver' /\ RemovalIsLast'
             /\ MadeIsNew' /\ NodesSlots'
  <2>1. Orderly /\ Started /\ LostIsOver /\ RemovalIsLast /\ MadeIsNew /\ NodesSlots
    BY <1>1, <1>4 DEF DirInv, Reported, Accident
  <2>2. InStep
    BY <1>1, <1>4, <2>1 DEF DirInv, Attributed, Accident, Orderly
  <2>3. walked <= Len(folder) /\ walked <= Len(watch)
    BY <1>1, <2>1, <2>2 DEF Orderly, InStep, DirInv, DirTypeOK
  <2>4. Orderly'
    BY <1>1, <2>1, <2>3 DEF Orderly
  <2> QED
    BY <1>1, <2>1, <2>4 DEF Started, LostIsOver, RemovalIsLast, MadeIsNew, NodesSlots
<1> QED
  BY <1>2, <1>3, <1>4 DEF DirInv, Reported

\* The types after a directory was added to the watches and to the slots.
LEMMA AddTypes ==
  ASSUME DirTypeOK, NEW p \in DirPaths, AddWatch(p), NEW slot \in Slots,
         folder' = Append(folder, slot), Len(folder) < MAX_SUBDIR_NUM
  PROVE  /\ folder' \in Seq(Slots) /\ Len(folder') = Len(folder) + 1
         /\ \A k \in 1..Len(folder) : folder'[k] = folder[k]
         /\ folder'[Len(folder) + 1] = slot
         /\ wd' \in Seq(Nat \cup {Failed}) /\ Len(wd') = Len(folder')
         /\ \A k \in 1..Len(folder) : wd'[k] = wd[k]
         /\ Len(folder') <= MAX_SUBDIR_NUM
         /\ watch' \in Seq(0..MaxMade) /\ Len(watch') >= Len(watch)
         /\ \A w \in 1..Len(watch) : watch'[w] = watch[w]
<1>1. /\ folder \in Seq(Slots) /\ wd \in Seq(Nat \cup {Failed}) /\ Len(wd) = Len(folder)
      /\ watch \in Seq(0..MaxMade) /\ Len(folder) \in Nat /\ Len(watch) \in Nat
      /\ MAX_SUBDIR_NUM \in Nat
  BY SlotsAssumption DEF DirTypeOK
<1>2. /\ folder' \in Seq(Slots) /\ Len(folder') = Len(folder) + 1
      /\ \A k \in 1..Len(folder) : folder'[k] = folder[k]
      /\ folder'[Len(folder) + 1] = slot
      /\ Len(folder') <= MAX_SUBDIR_NUM
  BY <1>1, AppendProperties
<1>3. ASSUME NEW w \in Nat \cup {Failed}, wd' = Append(wd, w)
      PROVE  /\ wd' \in Seq(Nat \cup {Failed}) /\ Len(wd') = Len(folder')
             /\ \A k \in 1..Len(folder) : wd'[k] = wd[k]
  BY <1>1, <1>2, <1>3, AppendProperties
<1> DEFINE Added == /\ wd' \in Seq(Nat \cup {Failed}) /\ Len(wd') = Len(folder')
                    /\ \A k \in 1..Len(folder) : wd'[k] = wd[k]
           Kept == /\ watch' \in Seq(0..MaxMade) /\ Len(watch') >= Len(watch)
                   /\ \A w \in 1..Len(watch) : watch'[w] = watch[w]
<1>4. watch' = watch => Kept
  BY <1>1
<1>5. ASSUME ~Exists(p) /\ wd' = Append(wd, Failed) /\ watch' = watch
      PROVE  Added /\ Kept
  <2>1. Added
    BY <1>3, <1>5 DEF Failed
  <2> QED
    BY <1>4, <1>5, <2>1
<1>6. ASSUME NEW w \in 1..Len(watch),
             Exists(p) /\ watch[w] = dir[p] /\ wd' = Append(wd, w) /\ watch' = watch
      PROVE  Added /\ Kept
  <2>1. w \in Nat \cup {Failed}
    BY <1>1
  <2>2. Added
    BY <1>3, <1>6, <2>1
  <2> QED
    BY <1>4, <1>6, <2>2
<1>7. ASSUME Exists(p) /\ ~Watched(dir[p]),
             wd' = Append(wd, Len(watch) + 1) /\ watch' = Append(watch, dir[p])
      PROVE  Added /\ Kept
  <2>1. dir[p] \in 0..MaxMade
    BY <1>7 DEF Exists, DirPaths, DirTypeOK
  <2>2. /\ watch' \in Seq(0..MaxMade) /\ Len(watch') >= Len(watch)
        /\ \A w \in 1..Len(watch) : watch'[w] = watch[w]
    BY <1>1, <1>7, <2>1, AppendProperties
  <2>3. Len(watch) + 1 \in Nat \cup {Failed}
    BY <1>1
  <2>4. Added
    BY <1>3, <1>7, <2>3
  <2> QED
    BY <2>2, <2>4
<1>8. Added /\ Kept
  <2> HIDE DEF Added, Kept
  <2> QED
    BY <1>5, <1>6, <1>7, AddsWatch
<1> QED
  BY <1>2, <1>8

LEMMA AddBounded ==
  ASSUME DirTypeOK, FolderSound, NEW p \in DirPaths, AddWatch(p)
  PROVE  \A w \in 1..Len(watch') : watch'[w] <= made
<1>1. \A w \in 1..Len(watch) : watch[w] <= made
  BY DEF FolderSound
<1>2. CASE watch' = watch
  BY <1>1, <1>2
<1>3. CASE Exists(p) /\ watch' = Append(watch, dir[p])
  <2>1. p \in Paths /\ dir[p] \in 0..MaxMade /\ dir[p] <= made
    BY <1>3 DEF Exists, DirPaths, FolderSound, DirTypeOK
  <2>2. /\ Len(watch') = Len(watch) + 1 /\ watch'[Len(watch) + 1] = dir[p]
        /\ \A w \in 1..Len(watch) : watch'[w] = watch[w]
        /\ Len(watch) \in Nat
    BY <1>3, <2>1, AppendProperties DEF DirTypeOK
  <2> QED
    BY <1>1, <2>1, <2>2
<1> QED
  BY <1>2, <1>3, AddsWatch

\* While directories are watched in the order of the list, each is a new one.
LEMMA WatchNextAdds ==
  ASSUME DirInv, WatchNext, ~Accident({"shifted", "moved"})'
  PROVE  /\ wd' = Append(wd, Len(folder) + 1)
         /\ watch' = Append(watch, dir[tree[Len(folder) + 1].path])
<1> DEFINE n == Len(folder)
           p == tree[n + 1].path
<1>1. /\ stage = "watch" /\ n < Len(tree) /\ AddWatch(p)
      /\ accidents' = accidents \cup IF Exists(p) THEN {} ELSE {"shifted"}
  BY DEF WatchNext
<1>2. Exists(p) /\ ~Accident({"shifted", "moved"})
  BY <1>1 DEF Accident
<1>3. DirTypeOK /\ FolderSound /\ InStep /\ SlotsWatch
  BY <1>2 DEF DirInv, Attributed
<1>4. n \in Nat /\ Len(tree) \in Nat /\ n + 1 \in 1..Len(tree) /\ Len(watch) = n
  BY <1>1, <1>3 DEF DirTypeOK, InStep
<1>5. p \in Paths
  BY <1>1, <1>3, <1>4 DEF InStep
<1>6. ASSUME NEW w \in 1..Len(watch), watch[w] = dir[p]
      PROVE  FALSE
  <2>1. w \in 1..n /\ w \in 1..Len(tree) /\ folder[w] = [kind |-> "node", path |-> tree[w].path]
    BY <1>1, <1>3, <1>4 DEF InStep
  <2>2. tree[w].path \in Paths /\ watch[w] \in {NoDir, dir[tree[w].path]}
    BY <1>3, <2>1 DEF SlotsWatch
  <2>3. dir[p] # NoDir
    BY <1>2 DEF Exists
  <2>4. tree[w].path = p
    BY <1>3, <1>5, <1>6, <2>2, <2>3 DEF FolderSound
  <2>5. w = n + 1
    BY <1>1, <1>3, <1>4, <2>1, <2>4 DEF InStep
  <2> QED
    BY <1>4, <2>1, <2>5
<1>7. p \in DirPaths
  BY <1>5 DEF DirPaths
<1> HIDE DEF p
<1>8. wd' = Append(wd, Len(watch) + 1) /\ watch' = Append(watch, dir[p])
  BY <1>1, <1>2, <1>3, <1>6, <1>7, AddsWatch
<1> QED
  BY <1>4, <1>8 DEF p

LEMMA WatchNextKeeps ==
  ASSUME DirInv, WatchNext
  PROVE  DirInv'
<1> DEFINE n == Len(folder)
           p == tree[n + 1].path
           slot == [kind |-> "node", path |-> p]
<1>1. /\ stage = "watch" /\ n < Len(tree) /\ n < MAX_SUBDIR_NUM /\ AddWatch(p)
      /\ folder' = Append(folder, slot)
      /\ accidents' = accidents \cup IF Exists(p) THEN {} ELSE {"shifted"}
      /\ dir' = dir /\ made' = made /\ stage' = stage /\ tree' = tree
      /\ walked' = walked /\ abspath' = abspath /\ events' = events
  BY DEF WatchNext, user
<1>2. DirTypeOK /\ FolderSound /\ HeadFirst /\ Attributed /\ Reported
  BY DEF DirInv
<1>3. /\ n \in Nat /\ Len(tree) \in Nat /\ n + 1 \in 1..Len(tree)
      /\ Len(watch) \in Nat /\ Len(events) \in Nat
  BY <1>1, <1>2 DEF DirTypeOK
<1>4. p \in DirPaths /\ slot \in Slots
  <2>1. tree[n + 1] \in Nodes
    BY <1>2, <1>3 DEF DirTypeOK
  <2> QED
    BY <2>1 DEF Nodes, Slots
<1>5. /\ folder' \in Seq(Slots) /\ Len(folder') = n + 1
      /\ \A k \in 1..n : folder'[k] = folder[k]
      /\ folder'[n + 1] = slot
      /\ wd' \in Seq(Nat \cup {Failed}) /\ Len(wd') = Len(folder')
      /\ \A k \in 1..n : wd'[k] = wd[k]
      /\ Len(folder') <= MAX_SUBDIR_NUM
      /\ watch' \in Seq(0..MaxMade) /\ Len(watch') >= Len(watch)
      /\ \A w \in 1..Len(watch) : watch'[w] = watch[w]
  BY <1>1, <1>2, <1>4, AddTypes
<1>6. slot.kind = "node" /\ slot.path = p
  OBVIOUS
<1> HIDE DEF slot, p
<1>7. DirTypeOK'
  BY <1>1, <1>2, <1>5 DEF DirTypeOK
<1>8. FolderSound'
  <2>1. \A w \in 1..Len(watch') : watch'[w] <= made
    BY <1>1, <1>2, <1>4, AddBounded
  <2> QED
    BY <1>1, <1>2, <2>1 DEF FolderSound
<1>9. HeadFirst'
  BY <1>1, <1>2 DEF HeadFirst
<1>10. ASSUME ~Accident({"shifted", "moved"})'
       PROVE  /\ Exists(p) /\ Len(watch) = n /\ Len(watch') = n + 1
              /\ wd'[n + 1] = n + 1 /\ watch'[n + 1] = dir[p]
              /\ InStep' /\ SlotsWatch' /\ EventsPlaced'
  <2>1. Exists(p) /\ ~Accident({"shifted", "moved"})
    BY <1>1, <1>10 DEF Accident
  <2>2. InStep /\ SlotsWatch /\ EventsPlaced
    BY <1>2, <2>1 DEF Attributed
  <2>3. Len(watch) = n
    BY <1>1, <2>2 DEF InStep
  <2>4. wd' = Append(wd, n + 1) /\ watch' = Append(watch, dir[p])
    BY <1>10, WatchNextAdds DEF p
  <2>5. p \in Paths /\ dir[p] \in 0..MaxMade
    BY <1>1, <1>2, <1>3, <2>2 DEF InStep, p, DirTypeOK
  <2>6. Len(watch') = n + 1 /\ watch'[n + 1] = dir[p]
    BY <1>2, <2>3, <2>4, <2>5, AppendProperties DEF DirTypeOK
  <2>7. wd'[n + 1] = n + 1
    <3>1. wd \in Seq(Nat \cup {Failed}) /\ Len(wd) = n /\ n + 1 \in Nat \cup {Failed}
      BY <1>2, <1>3 DEF DirTypeOK
    <3> QED
      BY <2>4, <3>1, AppendProperties
  <2>8. InStep'
    <3>1. ASSUME NEW i \in 1..(n + 1)
          PROVE  folder'[i] = [kind |-> "node", path |-> tree[i].path]
      <4>1. CASE i \in 1..n
        BY <1>1, <1>5, <2>2, <4>1 DEF InStep
      <4>2. CASE i = n + 1
        BY <1>5, <4>2 DEF slot, p
      <4> QED
        BY <1>3, <4>1, <4>2
    <3>2. n + 1 <= Len(tree)
      BY <1>3
    <3> QED
      BY <1>1, <1>5, <2>2, <2>6, <3>1, <3>2 DEF InStep
  <2>9. SlotsWatch'
    <3> SUFFICES ASSUME NEW k \in 1..(n + 1), folder'[k].kind = "node"
                 PROVE  /\ k \in 1..Len(watch') /\ folder'[k].path \in Paths
                        /\ watch'[k] \in {NoDir, dir[folder'[k].path]}
      BY <1>1, <1>5 DEF SlotsWatch
    <3>1. CASE k \in 1..n
      <4>1. folder'[k] = folder[k] /\ k \in 1..Len(watch) /\ watch'[k] = watch[k]
        BY <1>5, <2>3, <3>1
      <4>2. folder[k].path \in Paths /\ watch[k] \in {NoDir, dir[folder[k].path]}
        BY <2>2, <3>1, <4>1 DEF SlotsWatch
      <4> QED
        BY <1>3, <2>6, <3>1, <4>1, <4>2
    <3>2. CASE k = n + 1
      BY <1>3, <1>5, <1>6, <2>5, <2>6, <3>2
    <3> QED
      BY <1>3, <3>1, <3>2
  <2>10. EventsPlaced'
    <3> SUFFICES ASSUME NEW i \in 1..Len(events)
                 PROVE  /\ events[i].wd \in 1..Len(watch')
                        /\ events[i].wd <= Len(folder') /\ folder'[events[i].wd].kind = "node"
                             => folder'[events[i].wd].path = events[i].in
                        /\ events[i].what # "file"
                             => Proper(events[i]) # Root /\ events[i].in = Front(Proper(events[i]))
      BY <1>1 DEF EventsPlaced
    <3>1. events[i].wd \in 1..n
      BY <2>2, <2>3 DEF EventsPlaced
    <3>2. folder'[events[i].wd] = folder[events[i].wd] /\ events[i].wd <= n
      BY <1>3, <1>5, <3>1
    <3>3. events[i].wd \in 1..Len(watch')
      BY <1>3, <2>6, <3>1
    <3> QED
      BY <2>2, <3>2, <3>3 DEF EventsPlaced
  <2> QED
    BY <2>1, <2>3, <2>6, <2>7, <2>8, <2>9, <2>10
<1>11. ASSUME ~Accident({"early", "moved", "confused", "astray"})'
       PROVE  /\ Orderly' /\ Started' /\ LostIsOver' /\ RemovalIsLast'
              /\ MadeIsNew' /\ NodesSlots'
  <2>1. Orderly /\ Started /\ LostIsOver
    BY <1>1, <1>2, <1>11 DEF Reported, Accident
  <2>2. Exists(p) /\ accidents' = accidents
    BY <1>1, <1>3, <2>1 DEF Orderly, p
  <2>3. ~Accident({"shifted", "moved"})'
    BY <1>11, <2>1, <2>2 DEF Accident, Orderly
  <2>4. /\ Len(watch) = n /\ Len(watch') = n + 1 /\ wd'[n + 1] = n + 1 /\ InStep'
    BY <1>10, <2>3
  <2>5. walked = Len(tree) /\ \A i \in 1..Len(events) : events[i].what = "file"
    BY <1>1, <2>1 DEF Orderly
  <2>6. Orderly'
    BY <1>1, <2>1, <2>2 DEF Orderly, Exists
  <2>7. Started'
    <3> SUFFICES ASSUME NEW k \in 1..(n + 1)
                 PROVE  /\ k <= walked /\ wd'[k] = k /\ k \in 1..Len(watch')
                        /\ folder'[k].kind \in {"node", "freed", "null"}
      BY <1>1, <1>3, <1>5, <2>5 DEF Started
    <3>1. k <= walked /\ k \in 1..Len(watch')
      BY <1>3, <2>4, <2>5
    <3>2. CASE k \in 1..n
      BY <1>5, <2>1, <3>1, <3>2 DEF Started
    <3>3. CASE k = n + 1
      BY <1>5, <1>6, <2>4, <3>1, <3>3
    <3> QED
      BY <1>3, <3>2, <3>3
  <2>8. LostIsOver'
    <3> SUFFICES ASSUME NEW k \in 1..(n + 1), k <= walked, folder'[k].kind # "node"
                 PROVE  watch'[k] = NoDir /\ \A i \in 1..Len(events) : events[i].wd # k
      BY <1>1, <1>5 DEF LostIsOver
    <3>1. k \in 1..n
      BY <1>3, <1>5, <1>6
    <3> QED
      BY <1>5, <2>1, <2>4, <3>1 DEF LostIsOver
  <2>9. RemovalIsLast' /\ MadeIsNew'
    BY <1>1, <2>5 DEF RemovalIsLast, MadeIsNew
  <2>10. NodesSlots'
    <3> SUFFICES ASSUME NEW i \in 1..Len(tree)
                 PROVE  /\ tree[i].slot <= walked /\ tree[i].path # Elsewhere
                        /\ tree[i].slot <= n + 1 => folder'[tree[i].slot].path = tree[i].path
      BY <1>1, <1>5 DEF NodesSlots
    <3>1. tree[i].slot = i /\ tree[i].path # Elsewhere
      BY <1>1, <2>1, PathsAssumption DEF Orderly, Exists
    <3>2. i <= n + 1 => i \in 1..(n + 1)
      BY <1>3
    <3>3. i <= n + 1 => folder'[i] = [kind |-> "node", path |-> tree[i].path]
      BY <1>1, <1>5, <2>4, <3>2 DEF InStep
    <3>4. i <= walked
      BY <1>3, <2>5
    <3> QED
      BY <3>1, <3>3, <3>4
  <2> QED
    BY <2>6, <2>7, <2>8, <2>9, <2>10
<1> QED
  BY <1>7, <1>8, <1>9, <1>10, <1>11 DEF DirInv, Attributed, Reported

-----------------------------------------------------------------------------
(* The loop.                                                               *)

\* As long as a slot has its path, the next event is looked for at its own path.
LEMMA AbsPathTrue ==
  ASSUME DirTypeOK, EventsPlaced, events # <<>>, Slot(Head(events).wd).kind = "node"
  PROVE  AbsPaths(Head(events)) = {Proper(Head(events))}
<1> DEFINE event == Head(events)
<1>1. 1 \in 1..Len(events) /\ event = events[1] /\ event \in Events
  BY QueueShrinks DEF DirTypeOK
<1>2. /\ event.wd \in 1..Len(watch)
      /\ event.wd <= Len(folder) /\ folder[event.wd].kind = "node"
           => folder[event.wd].path = event.in
  BY <1>1 DEF EventsPlaced
<1>3. event.in \in Paths
  BY <1>1, EventParts
<1> HIDE DEF event
<1>4. event.wd <= Len(folder) /\ Slot(event.wd) = folder[event.wd]
  <2>1. Slot(event.wd).kind = "node"
    BY DEF event
  <2> QED
    BY <2>1 DEF Slot, Null
<1>5. Slot(event.wd).kind = "node" /\ Slot(event.wd).path = event.in
  BY <1>2, <1>4 DEF event
<1>6. AbsPaths(event) = {Below(event.in, event.name)}
  BY <1>5 DEF AbsPaths
<1>7. Below(event.in, event.name) = Proper(event)
  BY <1>3 DEF Below, Proper
<1> QED
  BY <1>6, <1>7 DEF event

\* The string of a freed node is never looked for in good order: the events of
\* its directory are over.
LEMMA NotGarbled ==
  ASSUME DirTypeOK, EventsPlaced, Orderly, Started, LostIsOver,
         events # <<>>, NEW path \in AbsPaths(Head(events))
  PROVE  path # Garbled
<1> DEFINE event == Head(events)
           slot == Slot(event.wd)
<1>1. 1 \in 1..Len(events) /\ event = events[1] /\ event \in Events
  BY QueueShrinks DEF DirTypeOK
<1>2. event.wd \in Nat \ {0} /\ event.name \in Names
  BY <1>1, EventParts
<1>3. /\ Elsewhere # Garbled /\ Garbled \notin Paths /\ Len(folder) \in Nat /\ walked \in Nat
      /\ abspath # Garbled
  BY PathsAssumption DEF DirTypeOK, Orderly
<1>4. slot \in Slots
  BY <1>2, SlotParts
<1>5. slot.kind \in {"null", "node", "freed", "buffer"}
  BY <1>4 DEF Slots
<1>6. CASE slot.kind = "node"
  <2>1. path = Proper(event)
    BY <1>6, AbsPathTrue
  <2> QED
    BY <1>1, <1>3, <2>1, EventParts
<1>7. CASE slot.kind = "null"
  <2>1. path = Elsewhere
    BY <1>7 DEF AbsPaths
  <2> QED
    BY <1>3, <2>1
<1>8. CASE slot.kind = "buffer"
  <2>1. path \in Behind(abspath, event.name)
    BY <1>8 DEF AbsPaths
  <2>2. path \in Paths \cup {Elsewhere}
    BY <1>3, <2>1 DEF Behind, Together
  <2> QED
    BY <1>3, <2>2
<1>9. slot.kind # "freed"
  <2> SUFFICES ASSUME slot.kind = "freed" PROVE FALSE
    OBVIOUS
  <2>1. event.wd <= Len(folder) /\ slot = folder[event.wd]
    BY DEF Slot, Null
  <2>2. event.wd \in 1..Len(folder) /\ folder[event.wd].kind = "freed"
    BY <1>2, <1>3, <2>1
  <2>3. CASE event.wd <= walked
    BY <1>1, <2>2, <2>3 DEF LostIsOver
  <2>4. CASE event.wd > walked
    BY <2>2, <2>4 DEF Started
  <2> QED
    BY <1>2, <1>3, <2>3, <2>4
<1> QED
  BY <1>5, <1>6, <1>7, <1>8, <1>9

\* An event is taken from the queue.
LEMMA QueueMoves ==
  ASSUME DirTypeOK, events # <<>>, events' = Tail(events)
  PROVE  /\ events' \in Seq(Events) /\ Len(events') = Len(events) - 1
         /\ Len(events) \in Nat \ {0} /\ Head(events) = events[1] /\ Head(events) \in Events
         /\ \A i \in 1..Len(events') : i + 1 \in 1..Len(events) /\ events'[i] = events[i + 1]
<1>1. events \in Seq(Events)
  BY DEF DirTypeOK
<1>2. /\ Tail(events) \in Seq(Events) /\ Len(Tail(events)) = Len(events) - 1
      /\ Len(events) \in Nat \ {0}
      /\ \A i \in 1..(Len(events) - 1) : Tail(events)[i] = events[i + 1]
      /\ Head(events) = events[1] /\ Head(events) \in Events
  BY <1>1, QueueShrinks
<1>3. \A i \in 1..(Len(events) - 1) : i + 1 \in 1..Len(events)
  BY <1>2
<1> QED
  BY <1>2, <1>3

\* What holds of the queue holds of its rest, if the watches and slots that it is
\* about are the same or have lost what they stood for.
LEMMA RestOfQueue ==
  ASSUME DirTypeOK, events # <<>>, events' = Tail(events),
         dir' = dir, walked' = walked,
         Len(watch') \in Nat, Len(watch') >= Len(watch),
         \A w \in 1..Len(watch) : watch'[w] \in {NoDir, watch[w]},
         Len(folder') \in Nat, Len(folder') >= Len(folder),
         \A k \in 1..Len(folder') :
           folder'[k].kind = "node" => k <= Len(folder) /\ folder'[k] = folder[k]
  PROVE  /\ SlotsWatch => SlotsWatch'
         /\ EventsPlaced => EventsPlaced'
         /\ SlotsWatch /\ RemovalIsLast => RemovalIsLast'
         /\ MadeIsNew /\ walked <= Len(watch) => MadeIsNew'
<1>1. /\ events' \in Seq(Events) /\ Len(events') = Len(events) - 1
      /\ Len(events) \in Nat \ {0}
      /\ \A i \in 1..Len(events') : i + 1 \in 1..Len(events) /\ events'[i] = events[i + 1]
  BY QueueMoves
<1>2. Len(folder) \in Nat /\ Len(watch) \in Nat /\ walked \in Nat
  BY DEF DirTypeOK
<1>3. ASSUME NEW k \in 1..Len(folder'), folder'[k].kind = "node"
      PROVE  k \in 1..Len(folder) /\ folder'[k] = folder[k] /\ folder[k].kind = "node"
  BY <1>2, <1>3
<1>4. ASSUME SlotsWatch PROVE SlotsWatch'
  <2> SUFFICES ASSUME NEW k \in 1..Len(folder'), folder'[k].kind = "node"
               PROVE  /\ k \in 1..Len(watch') /\ folder'[k].path \in Paths
                      /\ watch'[k] \in {NoDir, dir[folder'[k].path]}
    BY DEF SlotsWatch
  <2>1. k \in 1..Len(folder) /\ folder'[k] = folder[k] /\ folder[k].kind = "node"
    BY <1>3
  <2>2. /\ k \in 1..Len(watch) /\ folder[k].path \in Paths
        /\ watch[k] \in {NoDir, dir[folder[k].path]}
    BY <1>4, <2>1 DEF SlotsWatch
  <2> QED
    BY <1>2, <2>1, <2>2
<1>5. ASSUME EventsPlaced PROVE EventsPlaced'
  <2> SUFFICES ASSUME NEW i \in 1..Len(events')
               PROVE  /\ events'[i].wd \in 1..Len(watch')
                      /\ events'[i].wd <= Len(folder') /\ folder'[events'[i].wd].kind = "node"
                           => folder'[events'[i].wd].path = events'[i].in
                      /\ events'[i].what # "file"
                           => Proper(events'[i]) # Root /\ events'[i].in = Front(Proper(events'[i]))
    BY DEF EventsPlaced
  <2> DEFINE e == events[i + 1]
  <2>1. i + 1 \in 1..Len(events) /\ events'[i] = e
    BY <1>1
  <2>2. /\ e.wd \in 1..Len(watch)
        /\ e.wd <= Len(folder) /\ folder[e.wd].kind = "node" => folder[e.wd].path = e.in
        /\ e.what # "file" => Proper(e) # Root /\ e.in = Front(Proper(e))
    BY <1>5, <2>1 DEF EventsPlaced
  <2> HIDE DEF e
  <2>3. e.wd \in 1..Len(watch')
    BY <1>2, <2>2
  <2>4. ASSUME e.wd <= Len(folder'), folder'[e.wd].kind = "node"
        PROVE  folder'[e.wd].path = e.in
    <3>1. e.wd \in 1..Len(folder')
      BY <1>2, <2>2, <2>4
    <3>2. e.wd \in 1..Len(folder) /\ folder'[e.wd] = folder[e.wd] /\ folder[e.wd].kind = "node"
      BY <1>3, <2>4, <3>1
    <3> QED
      BY <1>2, <2>2, <3>2
  <2> QED
    BY <2>1, <2>2, <2>3, <2>4
<1>6. ASSUME SlotsWatch, RemovalIsLast PROVE RemovalIsLast'
  <2> SUFFICES ASSUME NEW i \in 1..Len(events'), NEW k \in 1..Len(folder'),
                      events'[i].what = "rmdir", folder'[k].kind = "node",
                      folder'[k].path = Proper(events'[i])
               PROVE  watch'[k] = NoDir /\ \A j \in (i + 1)..Len(events') : events'[j].wd # k
    BY DEF RemovalIsLast
  <2>1. k \in 1..Len(folder) /\ folder'[k] = folder[k] /\ folder[k].kind = "node"
    BY <1>3
  <2>2. i + 1 \in 1..Len(events) /\ events'[i] = events[i + 1]
    BY <1>1
  <2>3. watch[k] = NoDir /\ \A j \in (i + 1 + 1)..Len(events) : events[j].wd # k
    BY <1>6, <2>1, <2>2 DEF RemovalIsLast
  <2>4. k \in 1..Len(watch)
    BY <1>6, <2>1 DEF SlotsWatch
  <2>5. ASSUME NEW j \in (i + 1)..Len(events') PROVE events'[j].wd # k
    <3>1. j \in 1..Len(events') /\ j + 1 \in (i + 1 + 1)..Len(events)
      BY <1>1
    <3> QED
      BY <1>1, <2>3, <3>1
  <2> QED
    BY <2>3, <2>4, <2>5
<1>7. ASSUME MadeIsNew, walked <= Len(watch) PROVE MadeIsNew'
  <2> SUFFICES ASSUME NEW i \in 1..Len(events'), events'[i].what = "mkdir",
                      NEW w \in 1..Len(watch'), w <= walked, watch'[w] # NoDir
               PROVE  watch'[w] # dir[Proper(events'[i])]
    BY DEF MadeIsNew
  <2>1. w \in 1..Len(watch)
    BY <1>2, <1>7
  <2>2. watch'[w] = watch[w]
    BY <2>1
  <2>3. i + 1 \in 1..Len(events) /\ events'[i] = events[i + 1]
    BY <1>1
  <2> QED
    BY <1>7, <2>1, <2>2, <2>3 DEF MadeIsNew
<1> QED
  BY <1>4, <1>5, <1>6, <1>7

\* What every turn of the loop has in common.
Turn ==
  /\ stage = "notify" /\ events # <<>> /\ events' = Tail(events)
  /\ abspath' \in AbsPaths(Head(events))
  /\ dir' = dir /\ made' = made /\ walked' = walked

\* In good order the path is neither that of the sync folder nor garbled.
LEMMA TurnPath ==
  ASSUME DirInv, Turn
  PROVE  /\ abspath' \in DirPaths /\ abspath' # Root
         /\ ~Accident({"early", "moved", "confused", "astray"}) => abspath' # Garbled
<1>1. DirTypeOK
  BY DEF DirInv
<1>2. Head(events) \in Events
  BY <1>1, QueueMoves DEF Turn
<1>3. ASSUME ~Accident({"early", "moved", "confused", "astray"})
      PROVE  abspath' # Garbled
  <2>1. Orderly /\ Started /\ LostIsOver
    BY <1>3 DEF DirInv, Reported
  <2>2. ~Accident({"shifted", "moved"})
    BY <1>3, <2>1 DEF Accident, Orderly
  <2>3. EventsPlaced
    BY <2>2 DEF DirInv, Attributed
  <2> QED
    BY <1>1, <2>1, <2>3, NotGarbled DEF Turn
<1> QED
  BY <1>1, <1>2, <1>3, AbsPathParts DEF Turn

LEMMA FileEventKeeps ==
  ASSUME DirInv, Turn, stage' = stage, tree' = tree, folder' = folder, wd' = wd,
         watch' = watch, accidents' = accidents
  PROVE  DirInv'
<1>1. DirTypeOK /\ FolderSound /\ HeadFirst /\ Attributed /\ Reported
  BY DEF DirInv
<1>2. /\ events' \in Seq(Events) /\ Len(events') = Len(events) - 1
      /\ Len(events) \in Nat \ {0}
      /\ \A i \in 1..Len(events') : i + 1 \in 1..Len(events) /\ events'[i] = events[i + 1]
  BY <1>1, QueueMoves DEF Turn
<1>3. DirTypeOK' /\ FolderSound' /\ HeadFirst'
  BY <1>1, <1>2, TurnPath DEF DirTypeOK, FolderSound, HeadFirst, Turn
<1>4. /\ SlotsWatch => SlotsWatch'
      /\ EventsPlaced => EventsPlaced'
      /\ SlotsWatch /\ RemovalIsLast => RemovalIsLast'
      /\ MadeIsNew /\ walked <= Len(watch) => MadeIsNew'
  <2>1. Len(watch) \in Nat /\ Len(folder) \in Nat
    BY <1>1 DEF DirTypeOK
  <2>2. \A k \in 1..Len(folder) : k <= Len(folder)
    BY <2>1
  <2>3. Len(watch) >= Len(watch) /\ Len(folder) >= Len(folder)
    BY <2>1
  <2> QED
    BY <1>1, <2>1, <2>2, <2>3, RestOfQueue DEF Turn
<1>5. Attributed'
  BY <1>1, <1>4 DEF Attributed, Accident, InStep, Turn
<1>6. ASSUME ~Accident({"early", "moved", "confused", "astray"})'
      PROVE  /\ Orderly' /\ Started' /\ LostIsOver' /\ RemovalIsLast'
             /\ MadeIsNew' /\ NodesSlots'
  <2>1. Orderly /\ Started /\ LostIsOver /\ RemovalIsLast /\ MadeIsNew /\ NodesSlots
        /\ ~Accident({"shifted", "moved"})
    BY <1>1, <1>6 DEF Reported, Accident, Orderly
  <2>0. abspath' # Garbled
    BY <1>6, TurnPath DEF Accident
  <2>2. SlotsWatch
    BY <1>1, <2>1 DEF Attributed
  <2>3. Orderly' /\ walked <= Len(watch)
    BY <2>0, <2>1 DEF Orderly, Turn
  <2>4. Started' /\ NodesSlots'
    BY <2>1 DEF Started, NodesSlots, Turn
  <2>5. LostIsOver'
    BY <1>2, <2>1 DEF LostIsOver, Turn
  <2> QED
    BY <1>4, <2>1, <2>2, <2>3, <2>4, <2>5
<1> QED
  BY <1>3, <1>5, <1>6 DEF DirInv, Reported

LEMMA DirMadeKeeps ==
  ASSUME DirInv, Turn, Head(events).what = "mkdir", Len(folder) < MAX_SUBDIR_NUM,
         NEW path, path = abspath', DirMade(path)
  PROVE  DirInv'
<1> DEFINE event == Head(events)
           n == Len(folder)
           slot == Buffer
           leaf == [path |-> path, slot |-> 0]
<1>1. /\ AddWatch(path) /\ folder' = Append(folder, slot)
      /\ tree' = Append(tree, leaf) /\ accidents' = accidents /\ stage' = stage
  BY DEF DirMade
<1>2. DirTypeOK /\ FolderSound /\ HeadFirst /\ Attributed /\ Reported
  BY DEF DirInv
<1>3. /\ n \in Nat /\ Len(tree) \in Nat /\ Len(watch) \in Nat /\ walked \in Nat
      /\ wd \in Seq(Nat \cup {Failed}) /\ Len(wd) = n /\ tree \in Seq(Nodes)
  BY <1>2 DEF DirTypeOK
<1>4. path \in DirPaths /\ slot \in Slots /\ slot.kind = "buffer" /\ leaf \in Nodes /\ leaf.slot = 0
  BY TurnPath DEF DirPaths, Slots, Nodes, Buffer
<1>5. /\ folder' \in Seq(Slots) /\ Len(folder') = n + 1
      /\ \A k \in 1..n : folder'[k] = folder[k]
      /\ folder'[n + 1] = slot
      /\ wd' \in Seq(Nat \cup {Failed}) /\ Len(wd') = Len(folder')
      /\ \A k \in 1..n : wd'[k] = wd[k]
      /\ Len(folder') <= MAX_SUBDIR_NUM
      /\ watch' \in Seq(0..MaxMade) /\ Len(watch') >= Len(watch)
      /\ \A w \in 1..Len(watch) : watch'[w] = watch[w]
  BY <1>1, <1>2, <1>4, AddTypes
<1>6. /\ tree' \in Seq(Nodes) /\ Len(tree') = Len(tree) + 1
      /\ \A i \in 1..Len(tree) : tree'[i] = tree[i]
      /\ tree'[Len(tree) + 1] = leaf
  BY <1>1, <1>3, <1>4, AppendProperties
<1>7. /\ events' \in Seq(Events) /\ Len(events') = Len(events) - 1
      /\ Len(events) \in Nat \ {0} /\ event = events[1] /\ event \in Events
      /\ \A i \in 1..Len(events') : i + 1 \in 1..Len(events) /\ events'[i] = events[i + 1]
  BY <1>2, QueueMoves DEF Turn
<1> HIDE DEF slot, leaf
<1>8. DirTypeOK'
  BY <1>1, <1>2, <1>4, <1>5, <1>6, <1>7 DEF DirTypeOK, Turn
<1>9. FolderSound'
  <2>1. \A w \in 1..Len(watch') : watch'[w] <= made
    BY <1>1, <1>2, <1>4, AddBounded
  <2> QED
    BY <1>2, <2>1 DEF FolderSound, Turn
<1>10. HeadFirst'
  <2>1. tree # <<>> /\ tree[1].path = Root
    BY <1>2 DEF HeadFirst, Turn
  <2>2. 1 \in 1..Len(tree)
    BY <1>3, <2>1, EmptySeq
  <2>3. tree' # <<>> /\ tree'[1].path = Root
    BY <1>3, <1>6, <2>1, <2>2, EmptySeq
  <2> QED
    BY <1>1, <2>3 DEF HeadFirst, Turn
<1>11. /\ SlotsWatch => SlotsWatch'
       /\ EventsPlaced => EventsPlaced'
       /\ SlotsWatch /\ RemovalIsLast => RemovalIsLast'
       /\ MadeIsNew /\ walked <= Len(watch) => MadeIsNew'
  <2>1. Len(watch') \in Nat /\ Len(folder') \in Nat /\ Len(folder') >= Len(folder)
    BY <1>3, <1>5
  <2>2. \A k \in 1..Len(folder') :
          folder'[k].kind = "node" => k <= Len(folder) /\ folder'[k] = folder[k]
    <3>1. \A k \in 1..(n + 1) : k \in 1..n \/ k = n + 1
      BY <1>3
    <3>2. folder'[n + 1].kind # "node"
      BY <1>4, <1>5
    <3> QED
      BY <1>3, <1>5, <3>1, <3>2
  <2>3. \A w \in 1..Len(watch) : watch'[w] \in {NoDir, watch[w]}
    BY <1>5
  <2> QED
    BY <1>2, <1>5, <2>1, <2>2, <2>3, RestOfQueue DEF Turn
<1>12. Attributed'
  BY <1>1, <1>2, <1>11 DEF Attributed, Accident, InStep, Turn
<1>13. ASSUME ~Accident({"early", "moved", "confused", "astray"})'
       PROVE  /\ Orderly' /\ Started' /\ LostIsOver' /\ RemovalIsLast'
              /\ MadeIsNew' /\ NodesSlots'
  <2>1. Orderly /\ Started /\ LostIsOver /\ RemovalIsLast /\ MadeIsNew /\ NodesSlots
        /\ ~Accident({"shifted", "moved"})
    BY <1>1, <1>2, <1>13 DEF Reported, Accident, Orderly
  <2>2. SlotsWatch /\ EventsPlaced
    BY <1>2, <2>1 DEF Attributed
  <2>3. walked <= n /\ walked <= Len(watch)
    BY <2>1 DEF Orderly, Turn
  <2>4. Orderly'
    <3>1. walked <= Len(folder') /\ walked <= Len(watch')
      BY <1>3, <1>5, <2>3
    <3>2. abspath' # Garbled
      BY <1>1, <1>13, TurnPath DEF Accident
    <3> QED
      BY <1>1, <2>1, <3>1, <3>2 DEF Orderly, Turn
  <2>6. \A k \in 1..(n + 1) : (k \in 1..n /\ folder'[k] = folder[k] /\ wd'[k] = wd[k])
                            \/ (k = n + 1 /\ ~(k <= walked))
    BY <1>3, <1>5, <2>3
  <2>7. Started'
    <3> SUFFICES ASSUME NEW k \in 1..(n + 1)
                 PROVE  /\ k <= walked => /\ folder'[k].kind \in {"node", "freed", "null"}
                                          /\ wd'[k] = k /\ k \in 1..Len(watch')
                        /\ k > walked => folder'[k].kind \in {"buffer", "null"}
      BY <1>5 DEF Started, Turn
    <3>1. CASE k \in 1..n /\ folder'[k] = folder[k] /\ wd'[k] = wd[k]
      <4>1. k \in 1..Len(watch) => k \in 1..Len(watch')
        BY <1>3, <1>5
      <4> QED
        BY <2>1, <3>1, <4>1 DEF Started
    <3>2. CASE k = n + 1 /\ ~(k <= walked)
      BY <1>4, <1>5, <3>2
    <3> QED
      BY <2>6, <3>1, <3>2
  <2>8. LostIsOver'
    <3> SUFFICES ASSUME NEW k \in 1..(n + 1), k <= walked, folder'[k].kind # "node"
                 PROVE  watch'[k] = NoDir /\ \A i \in 1..Len(events') : events'[i].wd # k
      BY <1>5 DEF LostIsOver, Turn
    <3>1. k \in 1..n /\ folder'[k] = folder[k]
      BY <2>6
    <3>2. watch[k] = NoDir /\ \A i \in 1..Len(events) : events[i].wd # k
      BY <2>1, <3>1 DEF LostIsOver
    <3>3. k \in 1..Len(watch)
      BY <2>1, <3>1 DEF Started
    <3>4. watch'[k] = NoDir
      BY <1>5, <3>2, <3>3
    <3>5. \A i \in 1..Len(events') : events'[i].wd # k
      BY <1>7, <3>2
    <3> QED
      BY <3>4, <3>5
  <2>9. NodesSlots'
    <3> SUFFICES ASSUME NEW i \in 1..Len(tree'), tree'[i].slot # 0
                 PROVE  /\ tree'[i].slot <= walked /\ tree'[i].path # Elsewhere
                        /\ tree'[i].slot <= Len(folder') /\ folder'[tree'[i].slot].kind = "node"
                             => folder'[tree'[i].slot].path = tree'[i].path
      BY DEF NodesSlots, Turn
    <3>1. i \in 1..Len(tree) /\ tree'[i] = tree[i]
      BY <1>3, <1>4, <1>6
    <3> DEFINE t == tree[i].slot
    <3>2. t \in Nat /\ t # 0 /\ t <= walked /\ tree[i].path # Elsewhere
          /\ (t <= Len(folder) /\ folder[t].kind = "node" => folder[t].path = tree[i].path)
      <4>1. tree[i] \in Nodes
        BY <1>3, <3>1
      <4>2. t \in Nat
        BY <4>1 DEF Nodes
      <4> QED
        BY <2>1, <3>1, <4>2 DEF NodesSlots
    <3> HIDE DEF t
    <3>3. t \in 1..n
      BY <1>3, <2>3, <3>2
    <3>4. folder'[t] = folder[t] /\ t <= Len(folder)
      BY <1>3, <1>5, <3>3
    <3> QED
      BY <3>1, <3>2, <3>4 DEF t
  <2> QED
    BY <1>11, <2>1, <2>2, <2>3, <2>4, <2>7, <2>8, <2>9
<1> QED
  BY <1>8, <1>9, <1>10, <1>12, <1>13 DEF DirInv, Reported

\* The string of a node that is taken out is freed, if a slot points to it.
LEMMA FreedSlots ==
  ASSUME DirTypeOK, NEW i \in {0} \cup (1..Len(tree))
  PROVE  /\ FreeNode(i, folder) \in Seq(Slots) /\ Len(FreeNode(i, folder)) = Len(folder)
         /\ \A k \in 1..Len(folder) :
              \/ FreeNode(i, folder)[k] = folder[k]
              \/ /\ i # 0 /\ k = tree[i].slot /\ folder[k].kind = "node"
                 /\ FreeNode(i, folder)[k].kind = "freed"
<1>1. folder \in Seq(Slots) /\ Len(folder) \in Nat
  BY DEF DirTypeOK
<1>2. CASE i # 0 /\ tree[i].slot # 0 /\ folder[tree[i].slot].kind = "node"
  <2> DEFINE k == tree[i].slot
             freed == [folder EXCEPT ![k].kind = "freed"]
  <2>1. FreeNode(i, folder) = freed
    BY <1>2 DEF FreeNode
  <2>2. CASE k \in 1..Len(folder)
    <3>1. folder[k] \in Slots
      BY <1>1, <2>2
    <3>2. [folder[k] EXCEPT !.kind = "freed"] \in Slots
          /\ [folder[k] EXCEPT !.kind = "freed"].kind = "freed"
      BY <3>1 DEF Slots
    <3>3. freed = [folder EXCEPT ![k] = [folder[k] EXCEPT !.kind = "freed"]]
      BY <1>1, <2>2
    <3>4. /\ freed \in Seq(Slots) /\ Len(freed) = Len(folder)
          /\ freed[k].kind = "freed"
          /\ \A j \in 1..Len(folder) : j # k => freed[j] = folder[j]
      BY <1>1, <2>2, <3>2, <3>3, ExceptSeq
    <3> QED
      BY <1>2, <2>1, <3>4
  <2>3. CASE k \notin 1..Len(folder)
    <3>1. DOMAIN folder = 1..Len(folder) /\ folder = [j \in 1..Len(folder) |-> folder[j]]
      BY <1>1
    <3>2. freed = folder
      BY <2>3, <3>1
    <3> QED
      BY <1>1, <2>1, <3>2
  <2> QED
    BY <2>2, <2>3
<1>3. CASE ~(i # 0 /\ tree[i].slot # 0 /\ folder[tree[i].slot].kind = "node")
  BY <1>1, <1>3 DEF FreeNode
<1> QED
  BY <1>2, <1>3

\* A function on 1..n is a sequence of length n.
LEMMA FunctionIsSeq ==
  ASSUME NEW S, NEW n \in Nat, NEW f \in [1..n -> S]
  PROVE  f \in Seq(S) /\ Len(f) = n
OBVIOUS

\* A removal takes nodes, paths of slots and watches away; it adds none.
LEMMA RemovalTakes ==
  ASSUME DirTypeOK, NEW event, NEW path, NEW i \in {0} \cup (1..Len(tree)),
         NEW s \in {0} \cup (1..Len(folder)), Removal(event, path, i, s)
  PROVE  /\ tree' \in Seq(Nodes)
         /\ \A j \in 1..Len(tree') : \E t \in 1..Len(tree) : tree'[j] = tree[t]
         /\ folder' \in Seq(Slots) /\ Len(folder') = Len(folder)
         /\ \A k \in 1..Len(folder) :
              \/ folder'[k] = folder[k]
              \/ /\ k = s \/ (i # 0 /\ k = tree[i].slot)
                 /\ folder'[k].kind \in {"freed", "null"}
         /\ watch' \in Seq(0..MaxMade) /\ Len(watch') = Len(watch)
         /\ \A w \in 1..Len(watch) : watch'[w] \in {NoDir, watch[w]}
         /\ accidents' \subseteq accidents \cup {"confused", "astray"} /\ accidents \subseteq accidents'
<1> DEFINE freed == FreeNode(i, folder)
<1>1. /\ tree \in Seq(Nodes) /\ folder \in Seq(Slots) /\ watch \in Seq(0..MaxMade)
      /\ Len(folder) \in Nat /\ Len(watch) \in Nat /\ Len(tree) \in Nat /\ MaxMade \in Nat
  BY SlotsAssumption DEF DirTypeOK
<1>2. /\ freed \in Seq(Slots) /\ Len(freed) = Len(folder)
      /\ \A k \in 1..Len(folder) :
           \/ freed[k] = folder[k]
           \/ /\ i # 0 /\ k = tree[i].slot /\ folder[k].kind = "node"
              /\ freed[k].kind = "freed"
  BY FreedSlots
<1>3. /\ tree' = IF i = 0 THEN tree ELSE RemoveAt(tree, i)
      /\ folder' = IF s = 0 THEN freed ELSE [freed EXCEPT ![s] = Null]
      /\ watch' = IF s = 0 THEN watch
                  ELSE [w \in 1..Len(watch) |-> IF w = wd[s] THEN NoDir ELSE watch[w]]
      /\ accidents' \subseteq accidents \cup {"confused", "astray"} /\ accidents \subseteq accidents'
  BY DEF Removal
<1> HIDE DEF freed
<1>4. tree' \in Seq(Nodes) /\ \A j \in 1..Len(tree') : \E t \in 1..Len(tree) : tree'[j] = tree[t]
  <2>1. CASE i = 0
    BY <1>1, <1>3, <2>1
  <2>2. CASE i # 0
    <3>1. i \in 1..Len(tree) /\ tree' = RemoveAt(tree, i)
      BY <1>3, <2>2
    <3>2. /\ tree' \in Seq(Nodes) /\ Len(tree') = Len(tree) - 1
          /\ \A j \in 1..(Len(tree) - 1) : tree'[j] = IF j < i THEN tree[j] ELSE tree[j + 1]
      BY <1>1, <3>1, RemoveAtParts
    <3>3. \A j \in 1..(Len(tree) - 1) : j \in 1..Len(tree) /\ j + 1 \in 1..Len(tree)
      BY <1>1
    <3> QED
      BY <3>2, <3>3
  <2> QED
    BY <2>1, <2>2
<1>5. Null \in Slots /\ Null.kind = "null"
  BY DEF Null, Slots, DirPaths
<1>6. /\ folder' \in Seq(Slots) /\ Len(folder') = Len(folder)
      /\ \A k \in 1..Len(folder) :
           \/ folder'[k] = folder[k]
           \/ /\ k = s \/ (i # 0 /\ k = tree[i].slot)
              /\ folder'[k].kind \in {"freed", "null"}
  <2>1. CASE s = 0
    BY <1>2, <1>3, <2>1
  <2>2. CASE s # 0
    <3>1. /\ folder' \in Seq(Slots) /\ Len(folder') = Len(folder)
          /\ \A k \in 1..Len(folder) : folder'[k] = IF k = s THEN Null ELSE freed[k]
      BY <1>2, <1>3, <1>5, <2>2, ExceptSeq
    <3> QED
      BY <1>2, <1>5, <3>1
  <2> QED
    BY <2>1, <2>2
<1>7. /\ watch' \in Seq(0..MaxMade) /\ Len(watch') = Len(watch)
      /\ \A w \in 1..Len(watch) : watch'[w] \in {NoDir, watch[w]}
  <2>1. CASE s = 0
    BY <1>1, <1>3, <2>1
  <2>2. CASE s # 0
    <3>1. watch' = [w \in 1..Len(watch) |-> IF w = wd[s] THEN NoDir ELSE watch[w]]
      BY <1>3, <2>2
    <3>2. \A w \in 1..Len(watch) : watch[w] \in 0..MaxMade
      BY <1>1, ElementOfSeq
    <3>3. watch' \in [1..Len(watch) -> 0..MaxMade]
      BY <1>1, <3>1, <3>2 DEF NoDir
    <3>4. watch' \in Seq(0..MaxMade) /\ Len(watch') = Len(watch)
      BY <1>1, <3>3, FunctionIsSeq
    <3> QED
      BY <3>1, <3>4
  <2> QED
    BY <2>1, <2>2
<1> QED
  BY <1>3, <1>4, <1>6, <1>7

\* Only the string of a node is freed.
LEMMA FreedStays ==
  ASSUME DirTypeOK, NEW event, NEW path, NEW i \in {0} \cup (1..Len(tree)),
         NEW s \in {0} \cup (1..Len(folder)), Removal(event, path, i, s),
         NEW k \in 1..Len(folder), folder'[k].kind = "freed"
  PROVE  folder[k].kind \in {"freed", "node"}
<1> DEFINE freed == FreeNode(i, folder)
<1>1. /\ freed \in Seq(Slots) /\ Len(freed) = Len(folder)
      /\ freed[k] = folder[k] \/ folder[k].kind = "node"
  BY FreedSlots
<1>2. folder' = IF s = 0 THEN freed ELSE [freed EXCEPT ![s] = Null]
  BY DEF Removal
<1> HIDE DEF freed
<1>3. Null \in Slots /\ Null.kind = "null"
  BY DEF Null, Slots, DirPaths
<1>4. CASE s = 0
  BY <1>1, <1>2, <1>4
<1>5. CASE s # 0
  <2>1. folder'[k] = IF k = s THEN Null ELSE freed[k]
    BY <1>1, <1>2, <1>3, <1>5, ExceptSeq
  <2> QED
    BY <1>1, <1>3, <2>1
<1> QED
  BY <1>4, <1>5

\* The path that a slot loses to a removal is that of the removed directory.
LEMMA LosesPath ==
  ASSUME DirTypeOK, SlotsWatch, NodesSlots, NEW event, NEW path,
         NEW i \in {0} \cup (1..Len(tree)), NEW s \in {0} \cup (1..Len(folder)),
         Removal(event, path, i, s), {"confused", "astray"} \cap accidents' = {},
         NEW k \in 1..Len(folder), folder[k].kind = "node", folder'[k].kind # "node"
  PROVE  folder[k].path = Proper(event)
<1> DEFINE freed == FreeNode(i, folder)
<1>1. path = Proper(event)
  BY DEF Removal
<1>2. /\ i # 0 => tree[i].path = path
      /\ s # 0 /\ freed[s].kind = "node" => freed[s].path = path
  BY DEF Removal
<1>3. /\ freed \in Seq(Slots) /\ Len(freed) = Len(folder)
      /\ \A j \in 1..Len(folder) :
           \/ freed[j] = folder[j]
           \/ /\ i # 0 /\ j = tree[i].slot /\ folder[j].kind = "node"
              /\ freed[j].kind = "freed"
  BY FreedSlots
<1>4. folder' = IF s = 0 THEN freed ELSE [freed EXCEPT ![s] = Null]
  BY DEF Removal
<1> HIDE DEF freed
<1>5. Null \in Slots
  BY DEF Null, Slots, DirPaths
<1>6. CASE freed[k] # folder[k]
  <2>1. i # 0 /\ k = tree[i].slot /\ i \in 1..Len(tree) /\ k # 0
    <3>1. i # 0 /\ k = tree[i].slot
      BY <1>3, <1>6
    <3>2. i \in 1..Len(tree)
      BY <3>1
    <3> QED
      BY <3>1, <3>2
  <2>2. k <= Len(folder)
    BY DEF DirTypeOK
  <2>3. tree[i].path # Elsewhere /\ folder[k].path = tree[i].path
    BY <2>1, <2>2 DEF NodesSlots
  <2> QED
    BY <1>1, <1>2, <2>1, <2>3
<1>7. CASE freed[k] = folder[k]
  <2>1. s # 0 /\ s \in 1..Len(folder)
    BY <1>4, <1>7
  <2>2. \A j \in 1..Len(folder) : folder'[j] = IF j = s THEN Null ELSE freed[j]
    BY <1>3, <1>4, <1>5, <2>1, ExceptSeq
  <2>3. k = s
    BY <1>7, <2>2
  <2>4. folder[k].path = path
    BY <1>2, <1>7, <2>1, <2>3
  <2> QED
    BY <1>1, <2>4
<1> QED
  BY <1>6, <1>7

\* The first node is not found, unless freed memory is looked for.
LEMMA HeadNotMatched ==
  ASSUME NEW path \in DirPaths, path # Root, path # Garbled, tree[1].path = Root
  PROVE  TRUE \notin NodeMatches(1, path)
<1>1. Root # Elsewhere /\ Root \in Paths
  BY PathsAssumption
<1>2. CASE path = Elsewhere
  BY <1>1, <1>2, PathsAssumption DEF NodeMatches, PathMatches
<1>3. CASE path \in Paths
  <2>1. Len(path) \in Nat /\ Len(path) > 0
    BY <1>3, PathParts
  <2>2. Len(Root) = 0
    BY EmptySeq DEF Root
  <2>3. ~(Len(path) <= Len(Root))
    BY <2>1, <2>2
  <2>4. ~Mentions(Root, path)
    BY <2>3 DEF Mentions
  <2> QED
    BY <1>1, <1>3, <2>4 DEF NodeMatches, PathMatches
<1> QED
  BY <1>2, <1>3 DEF DirPaths

LEMMA RemovalKeeps ==
  ASSUME DirInv, Turn, Head(events).what = "rmdir", wd' = wd, stage' = stage,
         NEW path, path = abspath',
         NEW i \in {0} \cup (1..Len(tree)), NEW s \in {0} \cup (1..Len(folder)),
         Removal(Head(events), path, i, s)
  PROVE  DirInv'
<1> DEFINE event == Head(events)
<1>1. Removal(event, path, i, s)
  OBVIOUS
<1>2. DirTypeOK /\ FolderSound /\ HeadFirst /\ Attributed /\ Reported
  BY DEF DirInv
<1>3. /\ tree' \in Seq(Nodes)
      /\ \A j \in 1..Len(tree') : \E t \in 1..Len(tree) : tree'[j] = tree[t]
      /\ folder' \in Seq(Slots) /\ Len(folder') = Len(folder)
      /\ \A k \in 1..Len(folder) :
           \/ folder'[k] = folder[k]
           \/ /\ k = s \/ (i # 0 /\ k = tree[i].slot)
              /\ folder'[k].kind \in {"freed", "null"}
      /\ watch' \in Seq(0..MaxMade) /\ Len(watch') = Len(watch)
      /\ \A w \in 1..Len(watch) : watch'[w] \in {NoDir, watch[w]}
      /\ accidents' \subseteq accidents \cup {"confused", "astray"} /\ accidents \subseteq accidents'
  BY <1>1, <1>2, RemovalTakes
<1>4. /\ events' \in Seq(Events) /\ Len(events') = Len(events) - 1
      /\ Len(events) \in Nat \ {0} /\ event = events[1] /\ event \in Events
      /\ \A j \in 1..Len(events') : j + 1 \in 1..Len(events) /\ events'[j] = events[j + 1]
  BY <1>2, QueueMoves DEF Turn
<1>5. /\ Len(folder) \in Nat /\ Len(watch) \in Nat /\ walked \in Nat /\ Len(tree) \in Nat
      /\ made \in Nat
  BY <1>2, SlotsAssumption DEF DirTypeOK
<1>6. DirTypeOK'
  BY <1>2, <1>3, <1>4, TurnPath DEF DirTypeOK, Turn
<1>7. FolderSound'
  <2>1. \A w \in 1..Len(watch') : watch'[w] <= made
    <3> SUFFICES ASSUME NEW w \in 1..Len(watch') PROVE watch'[w] <= made
      OBVIOUS
    <3>1. w \in 1..Len(watch)
      BY <1>3
    <3>2. watch[w] <= made /\ NoDir <= made
      BY <1>2, <1>5, <3>1 DEF FolderSound, NoDir
    <3>3. watch'[w] = NoDir \/ watch'[w] = watch[w]
      BY <1>3, <3>1
    <3> QED
      BY <3>2, <3>3
  <2> QED
    BY <1>2, <2>1 DEF FolderSound, Turn
<1>8. HeadFirst'
  <2>1. tree # <<>> /\ tree[1].path = Root /\ tree \in Seq(Nodes)
    BY <1>2 DEF HeadFirst, Turn, DirTypeOK
  <2>2. i # 1
    BY DEF Removal
  <2>3. CASE i = 0
    <3>1. tree' = tree
      BY <1>1, <2>3 DEF Removal
    <3> QED
      BY <2>1, <3>1 DEF HeadFirst, Turn
  <2>4. CASE i # 0
    <3>1. i \in 1..Len(tree) /\ i > 1 /\ tree' = RemoveAt(tree, i)
      BY <1>1, <1>5, <2>2, <2>4 DEF Removal
    <3>2. /\ Len(tree') = Len(tree) - 1
          /\ \A j \in 1..(Len(tree) - 1) : tree'[j] = IF j < i THEN tree[j] ELSE tree[j + 1]
      BY <2>1, <3>1, RemoveAtParts
    <3>3. 1 \in 1..(Len(tree) - 1)
      BY <1>5, <3>1
    <3>4. tree'[1] = tree[1] /\ Len(tree') # 0
      BY <1>5, <3>1, <3>2, <3>3
    <3> QED
      BY <1>3, <2>1, <3>4, EmptySeq DEF HeadFirst, Turn
  <2> QED
    BY <2>3, <2>4
<1>9. /\ SlotsWatch => SlotsWatch'
      /\ EventsPlaced => EventsPlaced'
      /\ SlotsWatch /\ RemovalIsLast => RemovalIsLast'
      /\ MadeIsNew /\ walked <= Len(watch) => MadeIsNew'
  <2>1. ASSUME NEW k \in 1..Len(folder'), folder'[k].kind = "node"
        PROVE  k <= Len(folder) /\ folder'[k] = folder[k]
    <3>1. k \in 1..Len(folder)
      BY <1>3
    <3>2. folder'[k].kind \notin {"freed", "null"}
      BY <2>1
    <3> QED
      BY <1>3, <1>5, <3>1, <3>2
  <2>2. /\ Len(watch') \in Nat /\ Len(watch') >= Len(watch)
        /\ Len(folder') \in Nat /\ Len(folder') >= Len(folder)
    BY <1>3, <1>5
  <2> QED
    BY <1>2, <1>3, <2>1, <2>2, RestOfQueue DEF Turn
<1>10. Attributed'
  BY <1>2, <1>3, <1>9 DEF Attributed, Accident, InStep, Turn
<1>11. ASSUME ~Accident({"early", "moved", "confused", "astray"})'
       PROVE  /\ Orderly' /\ Started' /\ LostIsOver' /\ RemovalIsLast'
              /\ MadeIsNew' /\ NodesSlots'
  <2>1. /\ Orderly /\ Started /\ LostIsOver /\ RemovalIsLast /\ MadeIsNew /\ NodesSlots
        /\ ~Accident({"shifted", "moved"}) /\ {"confused", "astray"} \cap accidents' = {}
    BY <1>2, <1>3, <1>11 DEF Reported, Accident, Orderly
  <2>2. SlotsWatch /\ EventsPlaced
    BY <1>2, <2>1 DEF Attributed
  <2>3. Orderly' /\ walked <= Len(watch) /\ walked <= Len(folder)
    <3>1. abspath' # Garbled
      BY <1>3, <1>11, TurnPath DEF Accident
    <3>2. "shifted" \notin accidents'
      BY <1>3, <2>1 DEF Orderly
    <3> QED
      BY <1>3, <2>1, <3>1, <3>2 DEF Orderly, Turn
  <2>4. Started'
    <3>1. \A k \in 1..Len(folder) :
            /\ folder[k].kind \in {"node", "freed", "null"}
                 => folder'[k].kind \in {"node", "freed", "null"}
            /\ folder[k].kind = "buffer" /\ k > walked => folder'[k].kind \in {"buffer", "null"}
            /\ folder[k].kind = "null" => folder'[k].kind = "null"
      <4> SUFFICES ASSUME NEW k \in 1..Len(folder), folder'[k] # folder[k]
                   PROVE  /\ folder'[k].kind \in {"node", "freed", "null"}
                          /\ folder[k].kind \in {"buffer", "null"} => folder'[k].kind = "null"
        OBVIOUS
      <4>1. folder'[k].kind \in {"freed", "null"}
        BY <1>3
      <4>2. folder'[k].kind = "freed" => folder[k].kind \in {"freed", "node"}
        BY <1>1, <1>2, FreedStays
      <4> QED
        BY <4>1, <4>2
    <3> QED
      BY <1>3, <2>1, <3>1 DEF Started, Turn
  <2>5. LostIsOver'
    <3> SUFFICES ASSUME NEW k \in 1..Len(folder), k <= walked, folder'[k].kind # "node"
                 PROVE  watch'[k] = NoDir /\ \A j \in 1..Len(events') : events'[j].wd # k
      BY <1>3 DEF LostIsOver, Turn
    <3>1. k \in 1..Len(watch)
      BY <2>1 DEF Started
    <3>2. CASE folder[k].kind # "node"
      <4>1. watch[k] = NoDir /\ \A j \in 1..Len(events) : events[j].wd # k
        BY <2>1, <3>2 DEF LostIsOver
      <4>2. watch'[k] = NoDir
        BY <1>3, <3>1, <4>1
      <4> QED
        BY <1>4, <4>1, <4>2
    <3>3. CASE folder[k].kind = "node"
      <4>1. folder[k].path = Proper(event)
        BY <1>1, <1>2, <2>1, <2>2, <3>3, LosesPath
      <4>2. 1 \in 1..Len(events) /\ events[1].what = "rmdir"
        BY <1>4
      <4>3. watch[k] = NoDir /\ \A j \in (1 + 1)..Len(events) : events[j].wd # k
        BY <1>4, <2>1, <3>3, <4>1, <4>2 DEF RemovalIsLast
      <4>4. \A j \in 1..Len(events') : j + 1 \in (1 + 1)..Len(events)
        BY <1>4
      <4>5. watch'[k] = NoDir
        BY <1>3, <3>1, <4>3
      <4>6. \A j \in 1..Len(events') : events'[j].wd # k
        BY <1>4, <4>3, <4>4
      <4> QED
        BY <4>5, <4>6
    <3> QED
      BY <3>2, <3>3
  <2>6. NodesSlots'
    <3> SUFFICES ASSUME NEW j \in 1..Len(tree'), tree'[j].slot # 0
                 PROVE  /\ tree'[j].slot <= walked /\ tree'[j].path # Elsewhere
                        /\ tree'[j].slot <= Len(folder') /\ folder'[tree'[j].slot].kind = "node"
                             => folder'[tree'[j].slot].path = tree'[j].path
      BY DEF NodesSlots, Turn
    <3>1. PICK t \in 1..Len(tree) : tree'[j] = tree[t]
      BY <1>3
    <3> DEFINE k == tree[t].slot
    <3>2. tree[t] \in Nodes
      BY <1>2, ElementOfSeq DEF DirTypeOK
    <3>3. k \in Nat
      BY <3>2 DEF Nodes
    <3>4. /\ k # 0 /\ k <= walked /\ tree[t].path # Elsewhere
          /\ k <= Len(folder) /\ folder[k].kind = "node" => folder[k].path = tree[t].path
      BY <2>1, <3>1 DEF NodesSlots
    <3> HIDE DEF k
    <3>5. k \in 1..Len(folder)
      BY <1>5, <2>3, <3>3, <3>4
    <3>6. folder'[k].kind = "node" => folder'[k] = folder[k]
      BY <1>3, <3>5
    <3> QED
      BY <1>5, <3>1, <3>4, <3>5, <3>6 DEF k
  <2> QED
    BY <1>9, <2>1, <2>2, <2>3, <2>4, <2>5, <2>6
<1> QED
  BY <1>6, <1>7, <1>8, <1>10, <1>11 DEF DirInv, Reported

LEMMA CrashIsAccident ==
  ASSUME DirInv, Turn, Crash(abspath')
  PROVE  Accident({"early", "moved", "confused", "astray"})
<1> SUFFICES ASSUME ~Accident({"early", "moved", "confused", "astray"})
             PROVE  FALSE
  OBVIOUS
<1>1. tree[1].path = Root
  BY DEF DirInv, HeadFirst, Turn
<1>2. abspath' \in DirPaths /\ abspath' # Root /\ abspath' # Garbled
  BY TurnPath
<1> QED
  BY <1>1, <1>2, HeadNotMatched DEF Crash

\* deleteDirNode writes to a null pointer.
LEMMA CrashKeeps ==
  ASSUME DirInv, Turn, wd' = wd, Crash(abspath')
  PROVE  DirInv'
<1>1. DirTypeOK /\ FolderSound /\ HeadFirst /\ Attributed /\ Reported
  BY DEF DirInv
<1>2. /\ events' \in Seq(Events) /\ Len(events') = Len(events) - 1
      /\ Len(events) \in Nat \ {0}
      /\ \A i \in 1..Len(events') : i + 1 \in 1..Len(events) /\ events'[i] = events[i + 1]
  BY <1>1, QueueMoves DEF Turn
<1>3. /\ stage' = "crashed" /\ tree' = tree /\ folder' = folder /\ watch' = watch
      /\ accidents' = accidents /\ TRUE \in NodeMatches(1, abspath')
  BY DEF Crash
<1>4. DirTypeOK' /\ FolderSound' /\ HeadFirst'
  BY <1>1, <1>2, <1>3, TurnPath DEF DirTypeOK, FolderSound, HeadFirst, Turn
<1>5. /\ SlotsWatch => SlotsWatch'
      /\ EventsPlaced => EventsPlaced'
  <2>1. Len(watch) \in Nat /\ Len(folder) \in Nat
    BY <1>1 DEF DirTypeOK
  <2>2. \A k \in 1..Len(folder) : k <= Len(folder)
    BY <2>1
  <2>3. Len(watch) >= Len(watch) /\ Len(folder) >= Len(folder)
    BY <2>1
  <2> QED
    BY <1>1, <1>3, <2>1, <2>2, <2>3, RestOfQueue DEF Turn
<1>6. Attributed'
  BY <1>1, <1>3, <1>5 DEF Attributed, Accident, InStep, Turn
<1>7. Accident({"early", "moved", "confused", "astray"})
  BY CrashIsAccident
<1>8. Reported'
  BY <1>3, <1>7 DEF Reported, Accident
<1> QED
  BY <1>4, <1>6, <1>8 DEF DirInv

LEMMA DirRemovedKeeps ==
  ASSUME DirInv, Turn, Head(events).what = "rmdir", DirRemoved(Head(events), abspath'),
         wd' = wd
  PROVE  DirInv'
<1>1. DirTypeOK
  BY DEF DirInv
<1>2. CASE Crash(abspath')
  BY <1>2, CrashKeeps
<1>3. ASSUME stage' = stage,
             NEW i \in {0} \cup (1..Len(tree)), NEW s \in {0} \cup (1..Len(folder)),
             Removal(Head(events), abspath', i, s)
      PROVE  DirInv'
  BY <1>3, RemovalKeeps
<1> QED
  BY <1>1, <1>2, <1>3, Removes

\* What every turn of the loop does, and the three things it may do.
LEMMA Turns ==
  ASSUME HandleEvent
  PROVE  /\ Turn
         /\ \/ /\ Head(events).what = "mkdir" /\ Len(folder) < MAX_SUBDIR_NUM
               /\ DirMade(abspath')
            \/ Head(events).what = "rmdir" /\ DirRemoved(Head(events), abspath') /\ wd' = wd
            \/ /\ Head(events).what = "file"
               /\ UNCHANGED <<stage, tree, folder, wd, watch, accidents>>
<1>1. PICK path \in AbsPaths(Head(events)) :
        /\ abspath' = path
        /\ \/ /\ Head(events).what = "mkdir" /\ Len(folder) < MAX_SUBDIR_NUM
              /\ DirMade(path)
           \/ /\ Head(events).what = "rmdir"
              /\ DirRemoved(Head(events), path)
              /\ UNCHANGED wd
           \/ /\ Head(events).what = "file"
              /\ UNCHANGED <<stage, tree, folder, wd, watch, accidents>>
  BY DEF HandleEvent
<1>2. Turn
  BY <1>1 DEF HandleEvent, Turn, user
<1>3. CASE Head(events).what = "mkdir" /\ Len(folder) < MAX_SUBDIR_NUM /\ DirMade(path)
  <2>1. DirMade(abspath')
    BY <1>1, <1>3
  <2> QED
    BY <1>2, <1>3, <2>1
<1>4. CASE Head(events).what = "rmdir" /\ DirRemoved(Head(events), path) /\ UNCHANGED wd
  <2>1. DirRemoved(Head(events), abspath')
    BY <1>1, <1>4
  <2> QED
    BY <1>2, <1>4, <2>1
<1>5. CASE /\ Head(events).what = "file"
           /\ UNCHANGED <<stage, tree, folder, wd, watch, accidents>>
  BY <1>2, <1>5
<1> QED
  BY <1>1, <1>3, <1>4, <1>5

LEMMA HandleEventKeeps ==
  ASSUME DirInv, HandleEvent
  PROVE  DirInv'
<1> DEFINE event == Head(events)
<1>1. Turn
  BY Turns
<1>2. CASE event.what = "mkdir" /\ Len(folder) < MAX_SUBDIR_NUM /\ DirMade(abspath')
  BY <1>1, <1>2, DirMadeKeeps
<1>3. CASE event.what = "rmdir" /\ DirRemoved(event, abspath') /\ wd' = wd
  BY <1>1, <1>3, DirRemovedKeeps
<1>4. CASE event.what = "file" /\ UNCHANGED <<stage, tree, folder, wd, watch, accidents>>
  BY <1>1, <1>4, FileEventKeeps
<1> QED
  BY <1>2, <1>3, <1>4, Turns

-----------------------------------------------------------------------------
(* The theorems.                                                           *)

LEMMA NextDirInv == DirInv /\ [DirNext]_dirVars => DirInv'
<1> SUFFICES ASSUME DirInv, [DirNext]_dirVars
             PROVE  DirInv'
  OBVIOUS
<1>1. ASSUME NEW p \in Paths, UserMkdir(p) PROVE DirInv'
  BY <1>1, UserMkdirKeeps
<1>2. ASSUME NEW p \in Paths, UserRmdir(p) PROVE DirInv'
  BY <1>2, UserRmdirKeeps
<1>3. ASSUME NEW p \in Paths, NEW name \in FileNames, UserTouches(p, name) PROVE DirInv'
  BY <1>3, UserTouchesKeeps
<1>4. ASSUME NEW p \in Paths, NEW q \in Paths, UserMoves(p, q) PROVE DirInv'
  BY <1>4, UserMovesKeeps
<1>5. CASE Walk
  BY <1>5, WalkKeeps
<1>6. CASE WatchNext
  BY <1>6, WatchNextKeeps
<1>7. CASE StartNotify
  BY <1>7, StartNotifyKeeps
<1>8. CASE HandleEvent
  BY <1>8, HandleEventKeeps
<1>9. CASE Overrun
  BY <1>9, OverrunKeeps
<1>10. CASE UNCHANGED dirVars
  BY <1>10 DEF dirVars, user, monitor, DirInv, DirTypeOK, FolderSound, HeadFirst,
              Attributed, Accident, InStep, SlotsWatch, EventsPlaced,
              Reported, Orderly, Started, LostIsOver, RemovalIsLast, MadeIsNew,
              NodesSlots, Exists
<1> QED
  BY <1>1, <1>2, <1>3, <1>4, <1>5, <1>6, <1>7, <1>8, <1>9, <1>10 DEF DirNext

\* The invariant behind the theorems about the directories that a monitor watches.
THEOREM DirInvariance == DirSpec => []DirInv
<1>1. DirInit => DirInv
  BY InitDirInv
<1>2. DirInv /\ [DirNext]_dirVars => DirInv'
  BY NextDirInv
<1> QED
  BY <1>1, <1>2, PTL DEF DirSpec

\* The arrays and the list of the monitor have values of their types, and the arrays
\* never have more than MAX_SUBDIR_NUM slots in use (monitor.c, notify).
THEOREM DirTypeCorrect == DirSpec => []DirTypeOK
<1>1. DirInv => DirTypeOK
  BY DEF DirInv
<1> QED
  BY <1>1, DirInvariance, PTL

\* deleteDirNode never takes out the first node of DirTree, whose predecessor it would
\* write through a null pointer, whatever directories come and go, unless one did
\* before the loop began, one was renamed, or a removal was handled under another
\* path or taken for another one's (monitor.c, deleteDirNode).
THEOREM HeadRemains == DirSpec => []HeadStays
<1>1. DirInv => HeadStays
  BY DEF DirInv, Reported, Orderly, HeadStays
<1> QED
  BY <1>1, DirInvariance, PTL

\* As long as folderArray[wd - 1] is the path of a node, the event is looked for at
\* its own path, whatever is made and removed, and however often, unless an
\* inotify_add_watch of the start failed or a directory was renamed (monitor.c, notify).
THEOREM EventsAttributed == DirSpec => []NeverMisattributed
<1>1. DirInv => NeverMisattributed
  <2> SUFFICES ASSUME DirInv, stage = "notify", events # <<>>,
                      Slot(Head(events).wd).kind = "node", ~Accident({"shifted", "moved"})
               PROVE  AbsPaths(Head(events)) = {Proper(Head(events))}
    BY DEF NeverMisattributed
  <2>1. EventsPlaced /\ DirTypeOK
    BY DEF DirInv, Attributed
  <2> QED
    BY <2>1, AbsPathTrue
<1> QED
  BY <1>1, DirInvariance, PTL

\* Every event of a directory that the walk found is looked for at its own path,
\* however many directories came and went since, unless one did before the loop
\* began, one was renamed, or a removal was handled under another path or taken for
\* another one's (monitor.c, notify and deleteDirNode).
THEOREM StartedReported == DirSpec => []StartedDirsReported
<1>1. DirInv => StartedDirsReported
  <2> SUFFICES ASSUME DirInv, stage = "notify", events # <<>>, Head(events).wd <= walked,
                      ~Accident({"early", "moved", "confused", "astray"})
               PROVE  AbsPaths(Head(events)) = {Proper(Head(events))}
    BY DEF StartedDirsReported
  <2> DEFINE event == Head(events)
  <2>1. Orderly /\ LostIsOver /\ DirTypeOK
    BY DEF DirInv, Reported
  <2>2. EventsPlaced
    BY <2>1 DEF DirInv, Attributed, Accident, Orderly
  <2>3. 1 \in 1..Len(events) /\ event = events[1]
    BY <2>1, QueueShrinks DEF DirTypeOK
  <2>4. event.wd \in 1..Len(watch)
    BY <2>2, <2>3 DEF EventsPlaced
  <2>5. event.wd \in 1..Len(folder)
    BY <2>1, <2>4 DEF Orderly, DirTypeOK
  <2>6. folder[event.wd].kind = "node"
    BY <2>1, <2>3, <2>5 DEF LostIsOver
  <2>7. event.wd <= Len(folder)
    BY <2>1, <2>5 DEF DirTypeOK
  <2>8. Slot(event.wd).kind = "node"
    BY <2>6, <2>7 DEF Slot
  <2> QED
    BY <2>1, <2>2, <2>8, AbsPathTrue
<1> QED
  BY <1>1, DirInvariance, PTL

-----------------------------------------------------------------------------
(* The list of directories and what is in the folder.  In a start and a    *)
(* loop without accident, the queue tells of each directory, in turn, that *)
(* it was made and removed: what is there now is the list with these news  *)
(* done to it (Simulated).  No news is lost, since the directory that each *)
(* directory is in was found by the walk, and is watched for as long as    *)
(* it exists (ParentsWatched).                                             *)

Quiet == ~Accident({"early", "moved", "confused", "nested", "overrun"})

\* The list has directories, each of them once.
ListSound ==
  stage # "walk" =>
    /\ \A i \in 1..Len(tree) : tree[i].path \in Paths
    /\ \A i, j \in 1..Len(tree) : tree[i].path = tree[j].path => i = j

Listed == {tree[i].path : i \in 1..Len(tree)}
Present == {p \in Paths : Exists(p)}

Changes(event, p) == event.what # "file" /\ Proper(event) = p

Settled(p) == \A i \in 1..Len(events) : ~Changes(events[i], p)
Earliest(i) == \A j \in 1..(i - 1) : ~Changes(events[j], Proper(events[i]))
Latest(i) == \A j \in (i + 1)..Len(events) : ~Changes(events[j], Proper(events[i]))
Adjacent(i, j) ==
  /\ Changes(events[j], Proper(events[i]))
  /\ \A k \in (i + 1)..(j - 1) : ~Changes(events[k], Proper(events[i]))

\* The list is what is there, but for the directories that the events in the queue
\* are about.  Of each of these they tell in turn that it was made and removed,
\* beginning with what is news for the list and ending with what is true.
Simulated ==
  stage # "walk" =>
    /\ \A p \in Paths : Settled(p) => (p \in Listed <=> p \in Present)
    /\ \A i \in 1..Len(events) : events[i].what # "file" =>
         /\ Earliest(i) => (events[i].what = "rmdir" <=> Proper(events[i]) \in Listed)
         /\ Latest(i) => (events[i].what = "mkdir" <=> Proper(events[i]) \in Present)
         /\ \A j \in (i + 1)..Len(events) :
              Adjacent(i, j) => events[j].what # events[i].what

\* inotify watches a directory once.
WatchedOnce ==
  \A v, w \in 1..Len(watch) : watch[v] = watch[w] /\ watch[v] # NoDir => v = w

\* The directory of each directory has been watched since the start.
ParentsWatched ==
  /\ stage = "watch" => \A i \in 1..Len(folder) : watch[i] = dir[tree[i].path]
  /\ stage = "notify" => \A p \in Paths \ {Root} : Exists(p) =>
       \E k \in 1..walked : k <= Len(watch) /\ watch[k] = dir[Front(p)]

ChangesOfStarted ==
  \A i \in 1..Len(events) : events[i].what # "file" => events[i].wd <= walked

\* No removal was handled under another path, and none can cost a directory of the
\* walk its watch by a slot that came later.
NoneAstray ==
  /\ "astray" \notin accidents
  /\ \A k \in 1..Len(folder) : k > walked => wd[k] \notin 1..walked

Mirrored ==
  Quiet => NoneAstray /\ ListSound /\ Simulated /\ ParentsWatched /\ ChangesOfStarted

TreeInv == DirInv /\ WatchedOnce /\ Mirrored

\* What is known when there was no accident.
LEMMA QuietFacts ==
  ASSUME TreeInv, Quiet
  PROVE  /\ DirTypeOK /\ FolderSound /\ HeadFirst
         /\ InStep /\ SlotsWatch /\ EventsPlaced
         /\ Orderly /\ Started /\ LostIsOver /\ RemovalIsLast /\ MadeIsNew /\ NodesSlots
         /\ WatchedOnce /\ NoneAstray /\ ListSound /\ Simulated /\ ParentsWatched /\ ChangesOfStarted
<1>1. DirInv /\ WatchedOnce /\ Mirrored
  BY DEF TreeInv
<1>2. ~Accident({"early", "moved", "confused", "astray"})
  BY <1>1 DEF Quiet, Accident, Mirrored, NoneAstray
<1>3. Orderly /\ Started /\ LostIsOver /\ RemovalIsLast /\ MadeIsNew /\ NodesSlots
  BY <1>1, <1>2 DEF DirInv, Reported
<1>4. ~Accident({"shifted", "moved"})
  BY <1>2, <1>3 DEF Accident, Orderly
<1>5. InStep /\ SlotsWatch /\ EventsPlaced
  BY <1>1, <1>4 DEF DirInv, Attributed
<1> QED
  BY <1>1, <1>3, <1>5 DEF DirInv, Mirrored

LEMMA QuietBefore ==
  ASSUME accidents \subseteq accidents', Quiet'
  PROVE  Quiet
BY DEF Quiet, Accident

-----------------------------------------------------------------------------
(* Watches.                                                                *)

LEMMA OnceShrinks ==
  ASSUME WatchedOnce, Len(watch') = Len(watch),
         \A w \in 1..Len(watch) : watch'[w] \in {NoDir, watch[w]}
  PROVE  WatchedOnce'
BY DEF WatchedOnce

LEMMA OnceAdds ==
  ASSUME DirTypeOK, WatchedOnce, NEW p \in DirPaths, AddWatch(p)
  PROVE  WatchedOnce'
<1>1. Len(watch) \in Nat /\ watch \in Seq(0..MaxMade)
  BY DEF DirTypeOK
<1>2. CASE watch' = watch
  BY <1>2 DEF WatchedOnce
<1>3. CASE Exists(p) /\ ~Watched(dir[p]) /\ watch' = Append(watch, dir[p])
  <2>1. dir[p] \in 0..MaxMade
    BY <1>3 DEF Exists, DirPaths, DirTypeOK
  <2>2. /\ Len(watch') = Len(watch) + 1 /\ watch'[Len(watch) + 1] = dir[p]
        /\ \A w \in 1..Len(watch) : watch'[w] = watch[w]
    BY <1>1, <1>3, <2>1, AppendProperties
  <2>3. \A w \in 1..Len(watch) : watch[w] # dir[p]
    BY <1>3 DEF Watched
  <2>4. \A w \in 1..Len(watch') : w \in 1..Len(watch) \/ w = Len(watch) + 1
    BY <1>1, <2>2
  <2> QED
    BY <2>2, <2>3, <2>4 DEF WatchedOnce
<1> QED
  BY <1>2, <1>3, AddsWatch

-----------------------------------------------------------------------------
(* The queue.                                                              *)

\* An event about a file changes nothing.
LEMMA FileArrives ==
  ASSUME DirTypeOK, Simulated, NEW e \in Events, e.what = "file",
         events' = events \/ events' = Append(events, e),
         stage' = stage, tree' = tree, dir' = dir
  PROVE  Simulated'
<1>1. CASE events' = events
  BY <1>1 DEF Simulated, Settled, Earliest, Latest, Adjacent, Listed, Present, Exists
<1>2. CASE events' = Append(events, e)
  <2> SUFFICES ASSUME stage # "walk" PROVE Simulated'
    BY DEF Simulated
  <2>1. /\ Len(events) \in Nat /\ Len(events') = Len(events) + 1
        /\ \A i \in 1..Len(events) : events'[i] = events[i]
        /\ events'[Len(events) + 1] = e
    BY <1>2, QueueGrows DEF DirTypeOK
  <2>2. \A q : ~Changes(e, q)
    BY DEF Changes
  <2>3. ASSUME NEW i \in 1..Len(events'), events'[i].what # "file"
        PROVE  i \in 1..Len(events) /\ events'[i] = events[i]
    BY <2>1, <2>3
  <2>4. ASSUME NEW p \in Paths, Settled(p)'
        PROVE  p \in Listed' <=> p \in Present'
    <3>1. Settled(p)
      BY <2>1, <2>4 DEF Settled
    <3> QED
      BY <3>1 DEF Simulated, Listed, Present, Exists
  <2>5. ASSUME NEW i \in 1..Len(events'), events'[i].what # "file"
        PROVE  /\ Earliest(i)' => (events'[i].what = "rmdir" <=> Proper(events'[i]) \in Listed')
               /\ Latest(i)' => (events'[i].what = "mkdir" <=> Proper(events'[i]) \in Present')
               /\ \A j \in (i + 1)..Len(events') :
                    Adjacent(i, j)' => events'[j].what # events'[i].what
    <3>1. i \in 1..Len(events) /\ events'[i] = events[i] /\ events[i].what # "file"
      BY <2>3, <2>5
    <3>2. Earliest(i)' => Earliest(i)
      <4>1. \A j \in 1..(i - 1) : j \in 1..Len(events)
        BY <2>1, <3>1
      <4> QED
        BY <2>1, <3>1, <4>1 DEF Earliest
    <3>3. Latest(i)' => Latest(i)
      <4>1. \A j \in (i + 1)..Len(events) : j \in 1..Len(events) /\ j \in (i + 1)..Len(events')
        BY <2>1, <3>1
      <4> QED
        BY <2>1, <3>1, <4>1 DEF Latest
    <3>4. ASSUME NEW j \in (i + 1)..Len(events'), Adjacent(i, j)'
          PROVE  events'[j].what # events'[i].what
      <4>1. j \in 1..Len(events')
        BY <2>1, <3>1
      <4>2. j \in 1..Len(events) /\ events'[j] = events[j]
        BY <2>3, <3>4, <4>1 DEF Adjacent, Changes
      <4>3. j \in (i + 1)..Len(events) /\ \A k \in (i + 1)..(j - 1) : k \in 1..Len(events)
        BY <2>1, <3>1, <4>2
      <4>4. Adjacent(i, j)
        BY <2>1, <3>1, <3>4, <4>2, <4>3 DEF Adjacent
      <4> QED
        BY <3>1, <4>2, <4>3, <4>4 DEF Simulated
    <3> QED
      BY <3>1, <3>2, <3>3, <3>4 DEF Simulated, Listed, Present, Exists
  <2>6. \A i \in 1..Len(events') : events'[i].what # "file" => Proper(events'[i]) = Proper(events[i])
    BY <2>3
  <2> QED
    BY <2>4, <2>5, <2>6 DEF Simulated, Listed, Present, Exists
<1> QED
  BY <1>1, <1>2

\* The news of a directory is true, and other than the news of it before.
LEMMA ChangeArrives ==
  ASSUME DirTypeOK, Simulated, stage = "notify", stage' = stage, tree' = tree,
         NEW e \in Events, e.what \in {"mkdir", "rmdir"}, events' = Append(events, e),
         Proper(e) \in Present <=> e.what = "rmdir",
         Proper(e) \in Present' <=> e.what = "mkdir",
         \A q \in Paths \ {Proper(e)} : q \in Present' <=> q \in Present
  PROVE  Simulated'
<1>0. PICK n \in Nat : n = Len(events)
  BY DEF DirTypeOK
<1>1. /\ n \in Nat /\ Len(events') = n + 1
      /\ \A i \in 1..n : events'[i] = events[i] /\ events[i] \in Events
      /\ events'[n + 1] = e
  BY <1>0, QueueGrows, ElementOfSeq DEF DirTypeOK
<1>2. /\ Proper(e) \in Paths /\ e.what # "file"
      /\ \A i \in 1..n : events[i].what # "file" => Proper(events[i]) \in Paths
  BY <1>1, EventParts
<1>3. \A p : p \in Listed' <=> p \in Listed
  BY DEF Listed
<1>4. n + 1 \in 1..Len(events') /\ \A i \in 1..Len(events') : i \in 1..n \/ i = n + 1
  BY <1>1
<1>5. ASSUME NEW p \in Paths, Settled(p)'
      PROVE  p \in Listed' <=> p \in Present'
  <2>1. Settled(p)
    <3>1. \A i \in 1..n : i \in 1..Len(events')
      BY <1>1
    <3> QED
      BY <1>0, <1>1, <1>5, <3>1 DEF Settled
  <2>2. p # Proper(e)
    BY <1>1, <1>2, <1>4, <1>5 DEF Settled, Changes
  <2> QED
    BY <1>3, <2>1, <2>2 DEF Simulated
<1>6. ASSUME NEW i \in 1..n, events[i].what # "file"
      PROVE  /\ Earliest(i)' => (events[i].what = "rmdir" <=> Proper(events'[i]) \in Listed')
             /\ Latest(i)' => (events[i].what = "mkdir" <=> Proper(events'[i]) \in Present')
             /\ \A j \in (i + 1)..Len(events') :
                  Adjacent(i, j)' => events'[j].what # events[i].what
  <2>1. Earliest(i)' => Earliest(i)
    <3>1. \A j \in 1..(i - 1) : j \in 1..n
      BY <1>1
    <3> QED
      BY <1>1, <3>1 DEF Earliest
  <2>2. ASSUME Latest(i)'
        PROVE  events[i].what = "mkdir" <=> Proper(events'[i]) \in Present'
    <3>1. \A j \in (i + 1)..n : j \in 1..n /\ j \in (i + 1)..Len(events')
      BY <1>1
    <3>2. Latest(i)
      BY <1>0, <1>1, <2>2, <3>1 DEF Latest
    <3>3. n + 1 \in (i + 1)..Len(events')
      BY <1>1
    <3>4. Proper(events[i]) # Proper(e)
      BY <1>1, <1>2, <2>2, <3>3 DEF Latest, Changes
    <3>5. i \in 1..Len(events)
      BY <1>0
    <3>6. events[i].what = "mkdir" <=> Proper(events[i]) \in Present
      BY <1>6, <3>2, <3>5 DEF Simulated
    <3>7. Proper(events[i]) \in Paths \ {Proper(e)}
      BY <1>2, <1>6, <3>4
    <3> QED
      BY <1>1, <3>6, <3>7
  <2>3. ASSUME NEW j \in (i + 1)..Len(events'), Adjacent(i, j)'
        PROVE  events'[j].what # events[i].what
    <3>1. CASE j \in 1..n
      <4>1. j \in (i + 1)..n /\ \A k \in (i + 1)..(j - 1) : k \in 1..n
        BY <1>1, <3>1
      <4>2. Adjacent(i, j)
        BY <1>1, <2>3, <3>1, <4>1 DEF Adjacent
      <4> QED
        BY <1>0, <1>1, <1>6, <4>1, <4>2 DEF Simulated
    <3>2. CASE j = n + 1
      <4>1. events'[j] = e /\ Proper(e) = Proper(events[i])
        BY <1>1, <2>3, <3>2 DEF Adjacent, Changes
      <4>2. \A k \in (i + 1)..n : k \in (i + 1)..(j - 1) /\ k \in 1..n
        BY <1>1, <3>2
      <4>3. Latest(i)
        BY <1>0, <1>1, <2>3, <4>2 DEF Adjacent, Latest
      <4>4. events[i].what = "mkdir" <=> Proper(events[i]) \in Present
        BY <1>0, <1>6, <4>3 DEF Simulated
      <4> QED
        BY <4>1, <4>4
    <3> QED
      BY <1>1, <3>1, <3>2
  <2> QED
    BY <1>0, <1>1, <1>3, <1>6, <2>1, <2>2, <2>3 DEF Simulated
<1>7. /\ Earliest(n + 1)' => (e.what = "rmdir" <=> Proper(e) \in Listed')
      /\ e.what = "mkdir" <=> Proper(e) \in Present'
      /\ \A j \in (n + 1 + 1)..Len(events') : FALSE
  <2>1. ASSUME Earliest(n + 1)' PROVE Settled(Proper(e))
    <3>1. \A i \in 1..n : i \in 1..(n + 1 - 1)
      BY <1>1
    <3> QED
      BY <1>0, <1>1, <2>1, <3>1 DEF Earliest, Settled
  <2>2. Settled(Proper(e)) => (Proper(e) \in Listed <=> Proper(e) \in Present)
    BY <1>2 DEF Simulated
  <2> QED
    BY <1>1, <1>3, <2>1, <2>2
<1> QED
  <2> SUFFICES ASSUME NEW i \in 1..Len(events'), events'[i].what # "file"
               PROVE  /\ Earliest(i)' => (events'[i].what = "rmdir" <=> Proper(events'[i]) \in Listed')
                      /\ Latest(i)' => (events'[i].what = "mkdir" <=> Proper(events'[i]) \in Present')
                      /\ \A j \in (i + 1)..Len(events') :
                           Adjacent(i, j)' => events'[j].what # events'[i].what
    BY <1>5 DEF Simulated
  <2>1. CASE i \in 1..n
    BY <1>1, <1>6, <2>1
  <2>2. CASE i = n + 1
    BY <1>1, <1>7, <2>2
  <2> QED
    BY <1>4, <2>1, <2>2

\* An event that is handled is done to the list.
LEMMA EventTaken ==
  ASSUME DirTypeOK, Simulated, Turn,
         \A q \in Paths : q \in Listed' <=> IF Changes(Head(events), q)
                                         THEN Head(events).what = "mkdir"
                                         ELSE q \in Listed
  PROVE  Simulated'
<1> DEFINE e == Head(events)
<1>1. /\ events' \in Seq(Events) /\ Len(events') = Len(events) - 1
      /\ Len(events) \in Nat \ {0} /\ e = events[1] /\ e \in Events
      /\ \A i \in 1..Len(events') : i + 1 \in 1..Len(events) /\ events'[i] = events[i + 1]
  BY QueueMoves DEF Turn
<1>2. \A p : p \in Present' <=> p \in Present
  BY DEF Present, Exists, Turn
<1>3. /\ \A p \in Paths : Settled(p) => (p \in Listed <=> p \in Present)
      /\ \A i \in 1..Len(events) : events[i].what # "file" =>
           /\ Earliest(i) => (events[i].what = "rmdir" <=> Proper(events[i]) \in Listed)
           /\ Latest(i) => (events[i].what = "mkdir" <=> Proper(events[i]) \in Present)
           /\ \A j \in (i + 1)..Len(events) :
                Adjacent(i, j) => events[j].what # events[i].what
  BY DEF Simulated, Turn
<1>4. (e.what # "file" => Proper(e) \in Paths) /\ e.what \in {"mkdir", "rmdir", "file"}
  BY <1>1, EventParts
<1> HIDE DEF e
<1>5. ASSUME NEW p \in Paths, Settled(p)'
      PROVE  p \in Listed' <=> p \in Present'
  <2>1. \A i \in 1..Len(events) : i = 1 \/ i - 1 \in 1..Len(events')
    BY <1>1
  <2>2. \A i \in 1..Len(events) : i # 1 => ~Changes(events[i], p)
    <3> SUFFICES ASSUME NEW i \in 1..Len(events), i # 1
                 PROVE  ~Changes(events[i], p)
      OBVIOUS
    <3>1. i - 1 \in 1..Len(events') /\ i - 1 + 1 = i
      BY <1>1
    <3>2. events'[i - 1] = events[i]
      BY <1>1, <3>1
    <3> QED
      BY <1>5, <3>1, <3>2 DEF Settled
  <2>3. CASE ~Changes(e, p)
    <3>1. Settled(p)
      BY <1>1, <2>2, <2>3 DEF Settled
    <3> QED
      BY <1>2, <1>3, <2>3, <3>1 DEF e
  <2>4. CASE Changes(e, p)
    <3>1. 1 \in 1..Len(events) /\ \A j \in (1 + 1)..Len(events) : j \in 1..Len(events) /\ j # 1
      BY <1>1
    <3>2. Proper(events[1]) = p /\ events[1].what # "file"
      BY <1>1, <2>4 DEF Changes
    <3>3. Latest(1)
      BY <2>2, <3>1, <3>2 DEF Latest
    <3>4. events[1].what = "mkdir" <=> p \in Present
      BY <1>3, <3>1, <3>2, <3>3
    <3> QED
      BY <1>1, <1>2, <2>4, <3>4 DEF e
  <2> QED
    BY <2>3, <2>4
<1>6. ASSUME NEW i \in 1..Len(events'), events'[i].what # "file"
      PROVE  /\ Earliest(i)' => (events'[i].what = "rmdir" <=> Proper(events'[i]) \in Listed')
             /\ Latest(i)' => (events'[i].what = "mkdir" <=> Proper(events'[i]) \in Present')
             /\ \A j \in (i + 1)..Len(events') :
                  Adjacent(i, j)' => events'[j].what # events'[i].what
  <2> DEFINE p == Proper(events[i + 1])
  <2>1. /\ i + 1 \in 1..Len(events) /\ events'[i] = events[i + 1]
        /\ events[i + 1].what # "file" /\ events[i + 1] \in Events
    BY <1>1, <1>6, ElementOfSeq DEF DirTypeOK
  <2>2. p \in Paths /\ events[i + 1].what \in {"mkdir", "rmdir"}
    BY <2>1, EventParts
  <2>3. Proper(events'[i]) = p
    BY <2>1
  <2> HIDE DEF p
  <2>4. ASSUME Earliest(i)'
        PROVE  events'[i].what = "rmdir" <=> p \in Listed'
    <3>1. ASSUME NEW j \in 1..i, j # 1
          PROVE  ~Changes(events[j], p)
      <4>1. j - 1 \in 1..(i - 1) /\ j - 1 \in 1..Len(events') /\ j - 1 + 1 = j
        <5>1. i \in Nat /\ i <= Len(events') /\ Len(events') \in Nat
          BY <1>1
        <5>2. j \in Nat /\ j <= i /\ j > 1
          BY <3>1
        <5> QED
          BY <5>1, <5>2
      <4>2. events'[j - 1] = events[j]
        BY <1>1, <4>1
      <4> QED
        BY <2>3, <2>4, <4>1, <4>2 DEF Earliest
    <3>2. CASE ~Changes(e, p)
      <4>1. \A j \in 1..(i + 1 - 1) : j \in 1..i
        BY <1>1
      <4>2. Earliest(i + 1)
        BY <1>1, <3>1, <3>2, <4>1 DEF Earliest, p
      <4>3. events[i + 1].what = "rmdir" <=> p \in Listed
        BY <1>3, <2>1, <4>2 DEF p
      <4> QED
        BY <2>1, <2>2, <3>2, <4>3 DEF e
    <3>3. CASE Changes(e, p)
      <4>1. 1 \in 1..Len(events) /\ i + 1 \in (1 + 1)..Len(events)
            /\ \A k \in (1 + 1)..(i + 1 - 1) : k \in 1..i /\ k # 1
        BY <1>1
      <4>2. Proper(events[1]) = p /\ events[1].what # "file"
        BY <1>1, <3>3 DEF Changes
      <4>3. Adjacent(1, i + 1)
        BY <2>1, <3>1, <4>1, <4>2 DEF Adjacent, Changes, p
      <4>4. events[i + 1].what # events[1].what
        BY <1>3, <4>1, <4>2, <4>3
      <4>5. p \in Listed' <=> events[1].what = "mkdir"
        BY <1>1, <2>2, <3>3 DEF e
      <4>6. events[1].what \in {"mkdir", "rmdir"}
        BY <1>1, <1>4, <4>2
      <4> QED
        BY <2>1, <2>2, <4>4, <4>5, <4>6
    <3> QED
      BY <3>2, <3>3
  <2>5. ASSUME Latest(i)'
        PROVE  events'[i].what = "mkdir" <=> p \in Present'
    <3>1. ASSUME NEW j \in (i + 1 + 1)..Len(events)
          PROVE  ~Changes(events[j], p)
      <4>1. j - 1 \in (i + 1)..Len(events') /\ j - 1 \in 1..Len(events') /\ j - 1 + 1 = j
        BY <1>1
      <4>2. events'[j - 1] = events[j]
        BY <1>1, <4>1
      <4> QED
        BY <2>3, <2>5, <4>1, <4>2 DEF Latest
    <3>2. Latest(i + 1)
      BY <3>1 DEF Latest, p
    <3>3. events[i + 1].what = "mkdir" <=> p \in Present
      BY <1>3, <2>1, <3>2 DEF p
    <3> QED
      BY <1>2, <2>1, <3>3
  <2>6. ASSUME NEW j \in (i + 1)..Len(events'), Adjacent(i, j)'
        PROVE  events'[j].what # events'[i].what
    <3>1. j \in 1..Len(events') /\ j + 1 \in (i + 1 + 1)..Len(events)
      BY <1>1
    <3>2. events'[j] = events[j + 1]
      BY <1>1, <3>1
    <3>3. ASSUME NEW k \in (i + 1 + 1)..(j + 1 - 1)
          PROVE  ~Changes(events[k], p)
      <4>1. k - 1 \in (i + 1)..(j - 1) /\ k - 1 \in 1..Len(events') /\ k - 1 + 1 = k
        BY <1>1
      <4>2. events'[k - 1] = events[k]
        BY <1>1, <4>1
      <4> QED
        BY <2>3, <2>6, <4>1, <4>2 DEF Adjacent
    <3>4. Adjacent(i + 1, j + 1)
      BY <2>3, <2>6, <3>2, <3>3 DEF Adjacent, p
    <3> QED
      BY <1>3, <2>1, <3>1, <3>2, <3>4
  <2> QED
    BY <2>3, <2>4, <2>5, <2>6
<1> QED
  BY <1>5, <1>6 DEF Simulated

-----------------------------------------------------------------------------
(* What the user does, and the list.                                       *)

LEMMA TouchesMirrored ==
  ASSUME TreeInv, NEW p \in Paths, NEW name \in FileNames, UserTouches(p, name)
  PROVE  WatchedOnce' /\ Mirrored'
<1>1. /\ Emit("file", p, name) /\ UNCHANGED user /\ UNCHANGED monitor
      /\ watch' = watch /\ accidents' = accidents
  BY DEF UserTouches
<1>2. /\ dir' = dir /\ stage' = stage /\ tree' = tree /\ folder' = folder /\ wd' = wd
      /\ walked' = walked
  BY <1>1 DEF user, monitor
<1>3. WatchedOnce'
  BY <1>1 DEF TreeInv, WatchedOnce
<1>4. ASSUME Quiet'
      PROVE  NoneAstray' /\ ListSound' /\ Simulated' /\ ParentsWatched' /\ ChangesOfStarted'
  <2>1. Quiet
    BY <1>1, <1>4, QuietBefore
  <2>2. DirTypeOK /\ NoneAstray /\ ListSound /\ Simulated /\ ParentsWatched /\ ChangesOfStarted
    BY <2>1, QuietFacts
  <2>3. NoneAstray' /\ ListSound' /\ ParentsWatched'
    BY <1>1, <1>2, <2>2 DEF NoneAstray, ListSound, ParentsWatched, Exists
  <2>4. CASE events' = events
    <3>1. Simulated'
      BY <1>2, <2>2, <2>4 DEF Simulated, Settled, Earliest, Latest, Adjacent, Listed,
                              Present, Exists
    <3>2. ChangesOfStarted'
      BY <1>2, <2>2, <2>4 DEF ChangesOfStarted
    <3> QED
      BY <2>3, <3>1, <3>2
  <2>5. ASSUME NEW w \in 1..Len(watch), events' = Append(events, Event("file", w, p, name)),
               Event("file", w, p, name) \in Events
        PROVE  NoneAstray' /\ ListSound' /\ Simulated' /\ ParentsWatched' /\ ChangesOfStarted'
    <3> DEFINE e == Event("file", w, p, name)
    <3>1. e \in Events /\ e.what = "file" /\ events' = Append(events, e)
      BY <2>5 DEF Event
    <3> HIDE DEF e
    <3>2. Simulated'
      BY <1>2, <2>2, <3>1, FileArrives
    <3>3. /\ Len(events) \in Nat /\ Len(events') = Len(events) + 1
          /\ \A i \in 1..Len(events) : events'[i] = events[i]
          /\ events'[Len(events) + 1] = e
      BY <2>2, <3>1, QueueGrows DEF DirTypeOK
    <3>4. \A i \in 1..Len(events') : events'[i].what # "file" => i \in 1..Len(events)
      BY <3>1, <3>3
    <3>5. ChangesOfStarted'
      BY <1>2, <2>2, <3>3, <3>4 DEF ChangesOfStarted
    <3> QED
      BY <2>3, <3>2, <3>5
  <2>6. "file" \in {"mkdir", "rmdir", "file"} /\ name \in Names
    BY DEF Names
  <2> QED
    BY <1>1, <2>2, <2>4, <2>5, <2>6, Emitted
<1> QED
  BY <1>3, <1>4 DEF Mirrored

\* The news of a directory reaches the queue by a descriptor of the start.
LEMMA NewsArrives ==
  ASSUME DirTypeOK, ChangesOfStarted, NEW what \in {"mkdir", "rmdir"}, NEW p \in Paths,
         p # Root, NEW in, in = Front(p), NEW k \in 1..Len(watch), k <= walked,
         watch[k] = dir[in], WdOf(dir[in]) <= walked, Emit(what, in, Last(p)),
         walked' = walked
  PROVE  /\ \E e \in Events : /\ e.what = what /\ Proper(e) = p
                              /\ events' = Append(events, e)
         /\ ChangesOfStarted'
<1> DEFINE w == WdOf(dir[in])
           e == Event(what, w, in, Last(p))
<1>1. Watched(dir[in])
  BY DEF Watched
<1>2. w \in 1..Len(watch) /\ w <= walked
  BY <1>1, WdOfWatched
<1>3. events' = Append(events, e)
  BY <1>1 DEF Emit, Event
<1>4. e \in Events /\ e.what = what /\ Proper(e) = p /\ e.wd <= walked
  <2>1. w \in Nat \ {0}
    BY <1>2 DEF DirTypeOK
  <2>2. in \in Paths /\ Last(p) \in Names /\ p = Append(in, Last(p))
    BY PathParts, NamesOfPaths
  <2> HIDE DEF w
  <2>3. e.what = what /\ e.wd = w /\ Proper(e) = Known(p)
    BY <2>2 DEF Event, Proper
  <2>4. e \in Events
    BY <2>1, <2>2 DEF Event, Events
  <2> QED
    BY <1>2, <2>3, <2>4 DEF Known
<1> HIDE DEF e
<1>5. /\ Len(events) \in Nat /\ Len(events') = Len(events) + 1
      /\ \A i \in 1..Len(events) : events'[i] = events[i]
      /\ events'[Len(events) + 1] = e
  BY <1>3, <1>4, QueueGrows DEF DirTypeOK
<1>6. \A i \in 1..Len(events') : i \in 1..Len(events) \/ i = Len(events) + 1
  BY <1>5
<1>7. ChangesOfStarted'
  BY <1>4, <1>5, <1>6 DEF ChangesOfStarted
<1> QED
  BY <1>3, <1>4, <1>7

LEMMA MkdirMirrored ==
  ASSUME TreeInv, NEW p \in Paths, UserMkdir(p), DirInv'
  PROVE  WatchedOnce' /\ Mirrored'
<1> DEFINE up == Front(p)
<1>1. /\ p # Root /\ dir[p] = NoDir /\ dir[up] # NoDir
      /\ dir' = [dir EXCEPT ![p] = made'] /\ made' = made + 1
      /\ Emit("mkdir", up, Last(p))
      /\ watch' = watch /\ UNCHANGED monitor
      /\ accidents' = accidents \cup Early \cup
           IF stage = "notify" /\ Young(up) THEN {"nested"} ELSE {}
  BY PathsAssumption DEF UserMkdir, Exists
<1>2. stage' = stage /\ tree' = tree /\ folder' = folder /\ walked' = walked
      /\ wd' = wd
  BY <1>1 DEF monitor
<1>3. WatchedOnce'
  BY <1>1 DEF TreeInv, WatchedOnce
<1>4. ASSUME Quiet'
      PROVE  NoneAstray' /\ ListSound' /\ Simulated' /\ ParentsWatched' /\ ChangesOfStarted'
  <2>1. accidents \subseteq accidents'
    BY <1>1
  <2>2. Quiet
    BY <1>4, <2>1, QuietBefore
  <2>3. /\ DirTypeOK /\ FolderSound /\ NoneAstray /\ ListSound /\ Simulated /\ ParentsWatched
        /\ ChangesOfStarted
    BY <2>2, QuietFacts
  <2>0. NoneAstray'
    BY <1>1, <1>2, <2>3 DEF NoneAstray, Early
  <2>4. CASE stage = "walk"
    <3>1. events' = <<>>
      BY <1>2, <2>4 DEF DirInv, HeadFirst
    <3>2. Len(events') = 0
      BY <3>1, EmptySeq
    <3> QED
      BY <1>2, <2>0, <2>4, <3>2 DEF ListSound, Simulated, ParentsWatched, ChangesOfStarted
  <2>5. CASE stage = "watch"
    BY <1>1, <1>4, <2>5 DEF Early, Quiet, Accident
  <2>6. CASE stage = "notify"
    <3>1. ~Young(up)
      BY <1>1, <1>4, <2>6 DEF Quiet, Accident
    <3>2. Watched(dir[up]) /\ WdOf(dir[up]) <= walked
      <4>1. Watched(dir[up]) /\ ~(WdOf(dir[up]) > walked)
        BY <3>1 DEF Young
      <4>2. WdOf(dir[up]) \in 1..Len(watch)
        BY <4>1, WdOfWatched
      <4>3. WdOf(dir[up]) \in Nat /\ walked \in Nat
        BY <2>3, <4>2 DEF DirTypeOK
      <4> QED
        BY <4>1, <4>3
    <3>3. up \in Paths
      BY <1>1, PathsAssumption
    <3>4. PICK k \in 1..Len(watch) : k <= walked /\ watch[k] = dir[up]
      BY <3>2, WdOfWatched
    <3>20. PICK in : in = up /\ in = Front(p)
      OBVIOUS
    <3>21. ChangesOfStarted /\ p # Root /\ Emit("mkdir", in, Last(p)) /\ DirTypeOK
          /\ watch[k] = dir[in] /\ WdOf(dir[in]) <= walked /\ walked' = walked /\ k <= walked
      BY <1>1, <1>2, <2>3, <3>2, <3>4, <3>20
    <3> HIDE DEF up
    <3>5. PICK e \in Events : e.what = "mkdir" /\ Proper(e) = p /\ events' = Append(events, e)
      BY <3>20, <3>21, NewsArrives
    <3>6. ChangesOfStarted'
      BY <3>20, <3>21, NewsArrives
    <3>7. made' \in Nat /\ made' # NoDir /\ dir'[p] = made'
          /\ \A q \in Paths \ {p} : dir'[q] = dir[q]
      BY <1>1, <2>3, SlotsAssumption DEF DirTypeOK, NoDir
    <3>8. /\ p \notin Present /\ p \in Present'
          /\ \A q \in Paths \ {p} : q \in Present' <=> q \in Present
      BY <1>1, <3>7, PathsAssumption DEF Present, Exists
    <3>9. Simulated'
      BY <1>2, <2>3, <2>6, <3>5, <3>8, ChangeArrives
    <3>10. ListSound'
      BY <1>2, <2>3 DEF ListSound
    <3>11. ParentsWatched'
      <4> SUFFICES ASSUME NEW q \in Paths \ {Root}, Exists(q)'
                   PROVE  \E j \in 1..walked : j <= Len(watch) /\ watch[j] = dir'[Front(q)]
        BY <1>1, <1>2, <2>6 DEF ParentsWatched
      <4>1. Front(q) \in Paths
        BY PathsAssumption
      <4>2. CASE q = p
        <5>1. dir'[up] = dir[up]
          BY <1>1, <3>3, <3>7
        <5>2. k \in 1..walked /\ k <= Len(watch)
          BY <2>3, <3>4 DEF DirTypeOK
        <5> QED
          BY <3>4, <4>2, <5>1, <5>2 DEF up
      <4>3. CASE q # p
        <5>1. Exists(q)
          BY <3>7, <4>3 DEF Exists
        <5>2. dir[Front(q)] # NoDir
          BY <2>3, <5>1 DEF FolderSound, Exists
        <5>3. dir'[Front(q)] = dir[Front(q)]
          BY <1>1, <3>7, <4>1, <5>2
        <5> QED
          BY <2>3, <2>6, <5>1, <5>3 DEF ParentsWatched
      <4> QED
        BY <4>2, <4>3
    <3> QED
      BY <2>0, <3>6, <3>9, <3>10, <3>11
  <2>7. stage # "crashed"
    BY DEF UserMkdir, Room
  <2> QED
    BY <2>3, <2>4, <2>5, <2>6, <2>7 DEF DirTypeOK
<1> QED
  BY <1>3, <1>4 DEF Mirrored

LEMMA RmdirMirrored ==
  ASSUME TreeInv, NEW p \in Paths, UserRmdir(p), DirInv'
  PROVE  WatchedOnce' /\ Mirrored'
<1> DEFINE up == Front(p)
<1>1. /\ p # Root /\ dir[p] # NoDir /\ Empty(p)
      /\ dir' = [dir EXCEPT ![p] = NoDir]
      /\ watch' = [w \in 1..Len(watch) |-> IF watch[w] = dir[p] THEN NoDir ELSE watch[w]]
      /\ Emit("rmdir", up, Last(p))
      /\ UNCHANGED monitor
      /\ accidents' = accidents \cup Early
  BY PathsAssumption DEF UserRmdir, Exists
<1>2. stage' = stage /\ tree' = tree /\ folder' = folder /\ walked' = walked
      /\ wd' = wd
  BY <1>1 DEF monitor
<1>3. DirTypeOK /\ DirTypeOK' /\ WatchedOnce
  BY DEF TreeInv, DirInv
<1>4. Len(watch') = Len(watch) /\ Len(watch) \in Nat
  BY <1>1, <1>3 DEF DirTypeOK
<1>5. WatchedOnce'
  BY <1>1, <1>3, <1>4, OnceShrinks
<1>6. ASSUME Quiet'
      PROVE  NoneAstray' /\ ListSound' /\ Simulated' /\ ParentsWatched' /\ ChangesOfStarted'
  <2>1. accidents \subseteq accidents'
    BY <1>1
  <2>2. Quiet
    BY <1>6, <2>1, QuietBefore
  <2>3. /\ FolderSound /\ NoneAstray /\ ListSound /\ Simulated /\ ParentsWatched
        /\ ChangesOfStarted
    BY <2>2, QuietFacts
  <2>0. NoneAstray'
    BY <1>1, <1>2, <2>3 DEF NoneAstray, Early
  <2>4. CASE stage = "walk"
    <3>1. events' = <<>>
      BY <1>2, <2>4 DEF DirInv, HeadFirst
    <3>2. Len(events') = 0
      BY <3>1, EmptySeq
    <3> QED
      BY <1>2, <2>0, <2>4, <3>2 DEF ListSound, Simulated, ParentsWatched, ChangesOfStarted
  <2>5. CASE stage = "watch"
    BY <1>1, <1>6, <2>5 DEF Early, Quiet, Accident
  <2>6. CASE stage = "notify"
    <3>1. up \in Paths
      BY <1>1, PathsAssumption
    <3>2. PICK k \in 1..walked : k <= Len(watch) /\ watch[k] = dir[up]
      BY <1>1, <2>3, <2>6, PathsAssumption DEF ParentsWatched, Exists
    <3>3. k \in 1..Len(watch) /\ k <= walked
      BY <1>3, <1>4, <3>2 DEF DirTypeOK
    <3>4. dir[up] # NoDir
      BY <1>1, <2>3 DEF FolderSound
    <3>5. WdOf(dir[up]) <= walked
      <4>1. Watched(dir[up])
        BY <3>2, <3>3 DEF Watched
      <4>2. WdOf(dir[up]) \in 1..Len(watch) /\ watch[WdOf(dir[up])] = dir[up]
        BY <4>1, WdOfWatched
      <4>3. WdOf(dir[up]) = k
        BY <1>3, <3>2, <3>3, <3>4, <4>2 DEF WatchedOnce
      <4> QED
        BY <3>3, <4>3
    <3>20. PICK in : in = up /\ in = Front(p)
      OBVIOUS
    <3>21. ChangesOfStarted /\ p # Root /\ Emit("rmdir", in, Last(p)) /\ DirTypeOK
           /\ watch[k] = dir[in] /\ WdOf(dir[in]) <= walked /\ walked' = walked /\ k <= walked
      BY <1>1, <1>2, <1>3, <2>3, <3>2, <3>3, <3>5, <3>20
    <3> HIDE DEF up
    <3>6. PICK e \in Events : e.what = "rmdir" /\ Proper(e) = p /\ events' = Append(events, e)
      BY <3>3, <3>20, <3>21, NewsArrives
    <3>7. ChangesOfStarted'
      BY <3>3, <3>20, <3>21, NewsArrives
    <3>8. dir'[p] = NoDir /\ \A q \in Paths \ {p} : dir'[q] = dir[q]
      BY <1>1, <1>3 DEF DirTypeOK
    <3>9. /\ p \in Present /\ p \notin Present'
          /\ \A q \in Paths \ {p} : q \in Present' <=> q \in Present
      BY <1>1, <3>8, PathsAssumption DEF Present, Exists
    <3>10. Simulated'
      BY <1>2, <1>3, <2>3, <2>6, <3>6, <3>9, ChangeArrives
    <3>11. ListSound'
      BY <1>2, <2>3 DEF ListSound
    <3>12. ParentsWatched'
      <4> SUFFICES ASSUME NEW q \in Paths \ {Root}, Exists(q)'
                   PROVE  \E j \in 1..walked : j <= Len(watch) /\ watch'[j] = dir'[Front(q)]
        BY <1>2, <1>4, <2>6 DEF ParentsWatched
      <4>1. Front(q) \in Paths
        BY PathsAssumption
      <4>2. q # p /\ Exists(q)
        BY <3>8 DEF Exists
      <4>3. Front(q) # p
        BY <1>1, <4>2 DEF Empty
      <4>4. dir'[Front(q)] = dir[Front(q)] /\ dir[Front(q)] # dir[p]
        BY <1>1, <2>3, <3>8, <4>1, <4>3 DEF FolderSound
      <4>5. PICK j \in 1..walked : j <= Len(watch) /\ watch[j] = dir[Front(q)]
        BY <2>3, <2>6, <4>2 DEF ParentsWatched
      <4>6. j \in 1..Len(watch)
        BY <1>3, <1>4, <4>5 DEF DirTypeOK
      <4>7. watch'[j] = watch[j]
        BY <1>1, <4>4, <4>5, <4>6
      <4> QED
        BY <4>4, <4>5, <4>7
    <3> QED
      BY <2>0, <3>7, <3>10, <3>11, <3>12
  <2>7. stage # "crashed"
    BY DEF UserRmdir, Room
  <2> QED
    BY <1>3, <2>4, <2>5, <2>6, <2>7 DEF DirTypeOK
<1> QED
  BY <1>5, <1>6 DEF Mirrored

LEMMA MovesMirrored ==
  ASSUME TreeInv, NEW p \in Paths, NEW q \in Paths, UserMoves(p, q)
  PROVE  WatchedOnce' /\ Mirrored'
<1>1. watch' = watch /\ "moved" \in accidents'
  BY DEF UserMoves
<1>2. WatchedOnce'
  BY <1>1 DEF TreeInv, WatchedOnce
<1>3. ~Quiet'
  BY <1>1 DEF Quiet, Accident
<1> QED
  BY <1>2, <1>3 DEF Mirrored

LEMMA OverrunMirrored ==
  ASSUME TreeInv, Overrun
  PROVE  WatchedOnce' /\ Mirrored'
<1>1. watch' = watch /\ "overrun" \in accidents'
  BY DEF Overrun
<1>2. WatchedOnce'
  BY <1>1 DEF TreeInv, WatchedOnce
<1>3. ~Quiet'
  BY <1>1 DEF Quiet, Accident
<1> QED
  BY <1>2, <1>3 DEF Mirrored

-----------------------------------------------------------------------------
(* The start, and the list.                                                *)

LEMMA WalkMirrored ==
  ASSUME TreeInv, Walk
  PROVE  WatchedOnce' /\ Mirrored'
<1> DEFINE there == {p \in Paths : Exists(p)}
           n == Cardinality(there)
<1>1. PICK order \in WalkOrders(there) :
        tree' = [i \in DOMAIN order |-> [path |-> order[i], slot |-> i]]
  BY DEF Walk
<1>2. /\ stage = "walk" /\ stage' = "watch"
      /\ folder' = folder /\ watch' = watch /\ events' = events /\ dir' = dir
      /\ accidents' = accidents
  BY DEF Walk, user
<1>3. DirTypeOK /\ FolderSound /\ HeadFirst /\ WatchedOnce
  BY DEF TreeInv, DirInv
<1>4. Len(folder) = 0 /\ Len(events) = 0
  BY <1>2, <1>3, EmptySeq DEF HeadFirst
<1>5. there \in SUBSET Paths /\ Root \in there
  BY <1>3, PathsAssumption DEF FolderSound, Exists
<1>6. \A p : p \in Present' <=> p \in there
  BY <1>2 DEF Present, Exists
<1>7. /\ n \in Nat \ {0} /\ order \in [1..n -> there]
      /\ \A i, j \in 1..n : order[i] = order[j] => i = j
      /\ \A p \in there : \E k \in 1..n : order[k] = p
  BY <1>5, WalkBegins
<1> HIDE DEF there, n
<1>8. tree' = [i \in 1..n |-> [path |-> order[i], slot |-> i]]
  BY <1>1, <1>7
<1>9. Len(tree') = n /\ \A i \in 1..n : tree'[i].path = order[i]
  BY <1>7, <1>8
<1>10. WatchedOnce'
  BY <1>2, <1>3 DEF WatchedOnce
<1>11. ListSound'
  <2>1. \A i \in 1..n : order[i] \in Paths
    BY <1>5, <1>7
  <2> QED
    BY <1>7, <1>9, <2>1 DEF ListSound
<1>12. Simulated'
  <2>1. \A p : p \in Listed' <=> p \in there
    BY <1>7, <1>9 DEF Listed
  <2>2. 1..Len(events') = {}
    BY <1>2, <1>4
  <2> QED
    BY <1>6, <2>1, <2>2 DEF Simulated
<1>13. ParentsWatched' /\ ChangesOfStarted'
  BY <1>2, <1>4 DEF ParentsWatched, ChangesOfStarted
<1>14. ASSUME Quiet' PROVE NoneAstray'
  <2>1. "astray" \notin accidents
    BY <1>2, <1>14 DEF TreeInv, Mirrored, NoneAstray, Quiet, Accident
  <2> QED
    BY <1>2, <1>4, <2>1 DEF NoneAstray
<1> QED
  BY <1>10, <1>11, <1>12, <1>13, <1>14 DEF Mirrored

LEMMA WatchNextMirrored ==
  ASSUME TreeInv, WatchNext, DirInv'
  PROVE  WatchedOnce' /\ Mirrored'
<1> DEFINE n == Len(folder)
           p == tree[n + 1].path
<1>1. /\ stage = "watch" /\ stage' = stage /\ n < Len(tree) /\ AddWatch(p)
      /\ folder' = Append(folder, [kind |-> "node", path |-> p])
      /\ accidents \subseteq accidents' /\ accidents' \subseteq accidents \cup {"shifted"}
      /\ dir' = dir /\ tree' = tree /\ events' = events /\ walked' = walked
  BY DEF WatchNext, user
<1>2. DirInv /\ DirTypeOK /\ DirTypeOK' /\ WatchedOnce
  BY DEF TreeInv, DirInv
<1>3. n \in Nat /\ Len(tree) \in Nat /\ n + 1 \in 1..Len(tree)
  BY <1>1, <1>2 DEF DirTypeOK
<1>4. tree[n + 1] \in Nodes
  BY <1>2, <1>3, ElementOfSeq DEF DirTypeOK
<1>5. p \in DirPaths
  BY <1>4 DEF Nodes
<1> HIDE DEF p
<1>6. WatchedOnce'
  BY <1>1, <1>2, <1>5, OnceAdds
<1>7. ASSUME Quiet'
      PROVE  NoneAstray' /\ ListSound' /\ Simulated' /\ ParentsWatched' /\ ChangesOfStarted'
  <2>1. Quiet
    BY <1>1, <1>7, QuietBefore
  <2>2. InStep /\ Orderly /\ NoneAstray /\ ListSound /\ Simulated /\ ParentsWatched /\ ChangesOfStarted
    BY <2>1, QuietFacts
  <2>3. Orderly'
    <3>1. ~Accident({"early", "moved", "confused", "astray"})'
      BY <1>1, <1>7, <2>2 DEF Quiet, Accident, NoneAstray
    <3> QED
      BY <3>1 DEF DirInv, Reported
  <2>4. ~Accident({"shifted", "moved"})'
    BY <1>7, <2>3 DEF Quiet, Accident, Orderly
  <2>5. watch' = Append(watch, dir[p])
    BY <1>2, <2>4, WatchNextAdds DEF p
  <2>6. Len(watch) = n
    BY <1>1, <2>2 DEF InStep
  <2>7. dir[p] \in 0..MaxMade
    <3>1. p \in Paths
      BY <1>1, <1>3, <2>2 DEF InStep, p
    <3> QED
      BY <1>2, <3>1 DEF DirTypeOK
  <2>8. \A w \in 1..n : watch'[w] = watch[w]
    BY <1>2, <2>5, <2>6, <2>7, AppendProperties DEF DirTypeOK
  <2>9. watch'[n + 1] = dir[p]
    BY <1>2, <2>5, <2>6, <2>7, AppendProperties DEF DirTypeOK
  <2>10. Len(folder') = n + 1
    <3>1. [kind |-> "node", path |-> p] \in Slots
      BY <1>5 DEF Slots
    <3> QED
      BY <1>1, <1>2, <3>1, AppendProperties DEF DirTypeOK
  <2>11. ParentsWatched'
    <3>1. \A i \in 1..n : watch[i] = dir[tree[i].path]
      BY <1>1, <2>2 DEF ParentsWatched
    <3>2. \A i \in 1..(n + 1) : i \in 1..n \/ i = n + 1
      BY <1>3
    <3>3. \A i \in 1..(n + 1) : watch'[i] = dir[tree[i].path]
      BY <2>8, <2>9, <3>1, <3>2 DEF p
    <3> QED
      BY <1>1, <2>10, <3>3 DEF ParentsWatched
  <2>12. ListSound' /\ ChangesOfStarted'
    BY <1>1, <2>2 DEF ListSound, ChangesOfStarted
  <2>13. Simulated'
    BY <1>1, <2>2 DEF Simulated, Settled, Earliest, Latest, Adjacent, Listed,
                      Present, Exists
  <2>14. NoneAstray'
    <3>1. \A k \in 1..(n + 1) : ~(k > walked)
      BY <1>1, <1>3, <2>2 DEF Orderly
    <3> QED
      BY <1>1, <2>2, <2>10, <3>1 DEF NoneAstray
  <2> QED
    BY <2>11, <2>12, <2>13, <2>14
<1> QED
  BY <1>6, <1>7 DEF Mirrored

LEMMA StartMirrored ==
  ASSUME TreeInv, StartNotify
  PROVE  WatchedOnce' /\ Mirrored'
<1>1. /\ dir' = dir /\ watch' = watch /\ events' = events
      /\ tree' = tree /\ folder' = folder /\ wd' = wd /\ walked' = walked
      /\ accidents' = accidents
      /\ stage = "watch" /\ stage' = "notify" /\ Len(folder) = Len(tree)
  BY DEF StartNotify, user
<1>2. WatchedOnce'
  BY <1>1 DEF TreeInv, WatchedOnce
<1>3. ASSUME Quiet'
      PROVE  NoneAstray' /\ ListSound' /\ Simulated' /\ ParentsWatched' /\ ChangesOfStarted'
  <2>1. Quiet
    BY <1>1, <1>3, QuietBefore
  <2>2. /\ DirTypeOK /\ FolderSound /\ InStep /\ Orderly
        /\ NoneAstray /\ ListSound /\ Simulated /\ ParentsWatched /\ ChangesOfStarted
    BY <2>1, QuietFacts
  <2>3. NoneAstray' /\ ListSound' /\ ChangesOfStarted'
    BY <1>1, <2>2 DEF NoneAstray, ListSound, ChangesOfStarted
  <2>4. Simulated'
    <3>2. \A p : Settled(p)' <=> Settled(p)
      BY <1>1 DEF Settled, Changes
    <3>3. \A i : (Earliest(i)' <=> Earliest(i)) /\ (Latest(i)' <=> Latest(i))
      BY <1>1 DEF Earliest, Latest, Changes
    <3>4. \A i, j : Adjacent(i, j)' <=> Adjacent(i, j)
      BY <1>1 DEF Adjacent, Changes
    <3>5. Listed' = Listed /\ Present' = Present
      BY <1>1 DEF Listed, Present, Exists
    <3> QED
      BY <1>1, <2>2, <3>2, <3>3, <3>4, <3>5 DEF Simulated
  <2>5. ParentsWatched'
    <3> SUFFICES ASSUME NEW p \in Paths \ {Root}, Exists(p)
                 PROVE  \E k \in 1..walked : k <= Len(watch) /\ watch[k] = dir[Front(p)]
      BY <1>1 DEF ParentsWatched, Exists
    <3>1. Front(p) \in Paths
      BY PathsAssumption
    <3>2. Front(p) \in Present
      BY <2>2, <3>1 DEF FolderSound, Present, Exists
    <3>3. Settled(Front(p))
      BY <1>1, <2>2 DEF Orderly, Settled, Changes
    <3>4. Front(p) \in Listed
      BY <1>1, <2>2, <3>1, <3>2, <3>3 DEF Simulated
    <3>5. PICK k \in 1..Len(tree) : tree[k].path = Front(p)
      BY <3>4 DEF Listed
    <3>6. watch[k] = dir[Front(p)]
      BY <1>1, <2>2, <3>5 DEF ParentsWatched
    <3>7. k \in 1..walked /\ k <= Len(watch)
      BY <1>1, <2>2, <3>5 DEF Orderly, InStep, DirTypeOK
    <3> QED
      BY <3>6, <3>7
  <2> QED
    BY <2>3, <2>4, <2>5
<1> QED
  BY <1>2, <1>3 DEF Mirrored

-----------------------------------------------------------------------------
(* The loop, and the list.                                                 *)

\* The path of the directory that was made or removed is found.
LEMMA ChangeTrue ==
  ASSUME TreeInv, Quiet, stage = "notify", events # <<>>, Head(events).what # "file"
  PROVE  /\ AbsPaths(Head(events)) = {Proper(Head(events))}
         /\ Proper(Head(events)) \in Paths \ {Root}
<1> DEFINE event == Head(events)
           w == event.wd
<1>1. DirTypeOK /\ EventsPlaced /\ Orderly /\ LostIsOver /\ ChangesOfStarted
  BY QuietFacts
<1>2. 1 \in 1..Len(events) /\ event = events[1] /\ event \in Events
  BY <1>1, QueueShrinks DEF DirTypeOK
<1>3. w \in 1..Len(watch) /\ w <= walked
  BY <1>1, <1>2 DEF EventsPlaced, ChangesOfStarted
<1>4. w \in 1..Len(folder) /\ w <= Len(folder)
  BY <1>1, <1>3 DEF Orderly, DirTypeOK
<1>5. folder[w].kind = "node"
  BY <1>1, <1>2, <1>3, <1>4 DEF LostIsOver
<1>6. Slot(w).kind = "node"
  BY <1>4, <1>5 DEF Slot
<1>7. Proper(event) \in Paths \ {Root}
  BY <1>2, EventParts
<1> QED
  BY <1>1, <1>6, <1>7, AbsPathTrue

\* An event is the first of those about its directory.
LEMMA HeadIsNews ==
  ASSUME DirTypeOK, Simulated, stage = "notify", events # <<>>, Head(events).what # "file"
  PROVE  Head(events).what = "rmdir" <=> Proper(Head(events)) \in Listed
<1>1. 1 \in 1..Len(events) /\ Head(events) = events[1]
  BY QueueShrinks DEF DirTypeOK
<1>2. Earliest(1)
  BY DEF Earliest
<1> QED
  BY <1>1, <1>2 DEF Simulated

\* The rest of the queue, and the watches of the start.
LEMMA RestMirrored ==
  ASSUME DirTypeOK, ChangesOfStarted, ParentsWatched, Turn, stage' # "watch",
         Len(watch') \in Nat, Len(watch') >= Len(watch),
         \A w \in 1..Len(watch) : w <= walked => watch'[w] = watch[w]
  PROVE  ChangesOfStarted' /\ ParentsWatched'
<1>1. \A i \in 1..Len(events') : i + 1 \in 1..Len(events) /\ events'[i] = events[i + 1]
  BY QueueMoves DEF Turn
<1>2. ChangesOfStarted'
  BY <1>1 DEF ChangesOfStarted, Turn
<1>3. ParentsWatched'
  <2> SUFFICES ASSUME NEW p \in Paths \ {Root}, Exists(p)
               PROVE  \E k \in 1..walked : k <= Len(watch') /\ watch'[k] = dir[Front(p)]
    BY DEF ParentsWatched, Turn, Exists
  <2>1. PICK k \in 1..walked : k <= Len(watch) /\ watch[k] = dir[Front(p)]
    BY DEF ParentsWatched, Turn
  <2>2. Len(watch) \in Nat /\ walked \in Nat
    BY DEF DirTypeOK
  <2>3. k \in 1..Len(watch) /\ k <= walked /\ k <= Len(watch')
    BY <2>1, <2>2
  <2> QED
    BY <2>1, <2>3
<1> QED
  BY <1>2, <1>3

LEMMA FileEventMirrored ==
  ASSUME TreeInv, Turn, Head(events).what = "file",
         stage' = stage, tree' = tree, folder' = folder, wd' = wd, watch' = watch,
         accidents' = accidents
  PROVE  WatchedOnce' /\ Mirrored'
<1>1. WatchedOnce'
  BY DEF TreeInv, WatchedOnce
<1>2. ASSUME Quiet'
      PROVE  NoneAstray' /\ ListSound' /\ Simulated' /\ ParentsWatched' /\ ChangesOfStarted'
  <2>1. Quiet
    BY <1>2, QuietBefore
  <2>2. DirTypeOK /\ NoneAstray /\ ListSound /\ Simulated /\ ParentsWatched /\ ChangesOfStarted
    BY <2>1, QuietFacts
  <2>3. Simulated'
    <3>1. \A q : ~Changes(Head(events), q)
      BY DEF Changes
    <3>2. \A q : q \in Listed' <=> q \in Listed
      BY DEF Listed
    <3> QED
      BY <2>2, <3>1, <3>2, EventTaken
  <2>4. Len(watch') \in Nat /\ Len(watch') >= Len(watch)
    BY <2>2 DEF DirTypeOK
  <2>5. ParentsWatched' /\ ChangesOfStarted'
    BY <2>2, <2>4, RestMirrored DEF Turn
  <2>6. NoneAstray' /\ ListSound'
    BY <2>2 DEF NoneAstray, ListSound, Turn
  <2> QED
    BY <2>3, <2>5, <2>6
<1> QED
  BY <1>1, <1>2 DEF Mirrored

LEMMA DirMadeMirrored ==
  ASSUME TreeInv, Turn, Head(events).what = "mkdir", Len(folder) < MAX_SUBDIR_NUM,
         NEW path, path = abspath', DirMade(path)
  PROVE  WatchedOnce' /\ Mirrored'
<1> DEFINE event == Head(events)
           n == Len(tree)
           slot == Buffer
           leaf == [path |-> path, slot |-> 0]
<1>1. /\ AddWatch(path) /\ folder' = Append(folder, slot)
      /\ tree' = Append(tree, leaf) /\ accidents' = accidents /\ stage' = stage
  BY DEF DirMade
<1>2. DirTypeOK /\ WatchedOnce
  BY DEF TreeInv, DirInv
<1>3. path \in DirPaths /\ slot \in Slots /\ leaf \in Nodes /\ leaf.path = path
  BY TurnPath DEF TreeInv, DirPaths, Slots, Nodes, Buffer
<1>4. n \in Nat /\ tree \in Seq(Nodes)
  BY <1>2 DEF DirTypeOK
<1>5. /\ Len(tree') = n + 1 /\ tree'[n + 1] = leaf
      /\ \A i \in 1..n : tree'[i] = tree[i]
  BY <1>1, <1>3, <1>4, AppendProperties
<1>6. /\ watch' \in Seq(0..MaxMade) /\ Len(watch') >= Len(watch)
      /\ \A w \in 1..Len(watch) : watch'[w] = watch[w]
      /\ Len(folder') = Len(folder) + 1 /\ \A k \in 1..Len(folder) : wd'[k] = wd[k]
  BY <1>1, <1>2, <1>3, AddTypes
<1> HIDE DEF slot, leaf
<1>7. WatchedOnce'
  BY <1>1, <1>2, <1>3, OnceAdds
<1>8. ASSUME Quiet'
      PROVE  NoneAstray' /\ ListSound' /\ Simulated' /\ ParentsWatched' /\ ChangesOfStarted'
  <2>1. Quiet
    BY <1>1, <1>8, QuietBefore
  <2>2. NoneAstray /\ ListSound /\ Simulated /\ ParentsWatched /\ ChangesOfStarted
    BY <2>1, QuietFacts
  <2>3. path = Proper(event) /\ path \in Paths
    BY <2>1, ChangeTrue DEF Turn
  <2>4. path \notin Listed
    BY <1>2, <2>2, <2>3, HeadIsNews DEF Turn
  <2>5. \A i \in 1..(n + 1) : i \in 1..n \/ i = n + 1
    BY <1>4
  <2>6. \A q : q \in Listed' <=> q \in Listed \/ q = path
    <3>1. ASSUME NEW q, q \in Listed'
          PROVE  q \in Listed \/ q = path
      BY <1>3, <1>5, <2>5, <3>1 DEF Listed
    <3>2. ASSUME NEW q, q \in Listed
          PROVE  q \in Listed'
      <4>1. PICK i \in 1..n : q = tree[i].path
        BY <3>2 DEF Listed
      <4>2. i \in 1..(n + 1) /\ tree'[i].path = q
        BY <1>4, <1>5, <4>1
      <4> QED
        BY <1>5, <4>2 DEF Listed
    <3>3. path \in Listed'
      <4>1. n + 1 \in 1..(n + 1)
        BY <1>4
      <4> QED
        BY <1>3, <1>5, <4>1 DEF Listed
    <3> QED
      BY <3>1, <3>2, <3>3
  <2>7. Simulated'
    <3>1. \A q : Changes(event, q) <=> q = path
      BY <2>3 DEF Changes
    <3> QED
      BY <1>2, <2>2, <2>6, <3>1, EventTaken
  <2>8. ListSound'
    <3>1. \A i \in 1..n : tree[i].path \in Paths /\ tree[i].path # path
      BY <2>2, <2>4 DEF ListSound, Listed, Turn
    <3>2. \A i, j \in 1..n : tree[i].path = tree[j].path => i = j
      BY <2>2 DEF ListSound, Turn
    <3>3. \A i \in 1..(n + 1) : tree'[i].path \in Paths
      BY <1>3, <1>5, <2>3, <2>5, <3>1
    <3>4. ASSUME NEW i \in 1..(n + 1), NEW j \in 1..(n + 1), tree'[i].path = tree'[j].path
          PROVE  i = j
      BY <1>3, <1>5, <2>5, <3>1, <3>2, <3>4
    <3> QED
      BY <1>5, <3>3, <3>4 DEF ListSound
  <2>9. ParentsWatched' /\ ChangesOfStarted'
    <3>1. Len(watch') \in Nat
      BY <1>6
    <3> QED
      BY <1>1, <1>2, <1>6, <2>2, <3>1, RestMirrored DEF Turn
  <2>10. NoneAstray'
    <3> DEFINE m == Len(folder)
    <3>1. /\ m \in Nat /\ Len(wd) = m /\ wd \in Seq(Nat \cup {Failed})
          /\ Len(watch) \in Nat /\ walked \in Nat
      BY <1>2 DEF DirTypeOK
    <3>2. MadeIsNew /\ walked <= Len(watch)
      BY <2>1, QuietFacts DEF Orderly, Turn
    <3> HIDE DEF m
    <3>3. ASSUME wd' = Append(wd, Failed) PROVE wd'[m + 1] \notin 1..walked
      <4>1. wd'[m + 1] = Failed
        BY <3>1, <3>3, AppendProperties
      <4> QED
        BY <3>1, <4>1 DEF Failed
    <3>4. ASSUME NEW w \in 1..Len(watch), Exists(path), watch[w] = dir[path],
                 wd' = Append(wd, w)
          PROVE  wd'[m + 1] \notin 1..walked
      <4>1. watch[w] # NoDir
        BY <3>4 DEF Exists
      <4>2. 1 \in 1..Len(events) /\ event = events[1]
        BY <1>2, QueueMoves DEF Turn
      <4>3. ~(w <= walked)
        BY <2>3, <3>2, <3>4, <4>1, <4>2 DEF MadeIsNew
      <4>4. w \in Nat \cup {Failed}
        BY <3>1
      <4>5. wd'[m + 1] = w
        BY <3>1, <3>4, <4>4, AppendProperties
      <4> QED
        BY <3>1, <4>3, <4>5
    <3>5. ASSUME wd' = Append(wd, Len(watch) + 1) PROVE wd'[m + 1] \notin 1..walked
      <4>1. Len(watch) + 1 \in Nat \cup {Failed}
        BY <3>1
      <4>2. Append(wd, Len(watch) + 1)[Len(wd) + 1] = Len(watch) + 1
        BY <3>1, <4>1, AppendProperties
      <4>3. wd'[m + 1] = Len(watch) + 1
        BY <3>1, <3>5, <4>2
      <4> QED
        BY <3>1, <3>2, <4>3
    <3>6. wd'[m + 1] \notin 1..walked
      BY <1>1, <1>2, <1>3, <3>3, <3>4, <3>5, AddsWatch
    <3>7. \A k \in 1..(m + 1) : k \in 1..m \/ k = m + 1
      BY <3>1
    <3>8. walked' = walked /\ Len(folder') = m + 1 /\ \A k \in 1..m : wd'[k] = wd[k]
      BY <1>6 DEF Turn, m
    <3>9. \A k \in 1..m : k > walked => wd[k] \notin 1..walked
      BY <2>2 DEF NoneAstray, m
    <3> QED
      BY <1>1, <2>2, <3>6, <3>7, <3>8, <3>9 DEF NoneAstray
  <2> QED
    BY <2>7, <2>8, <2>9, <2>10
<1> QED
  BY <1>7, <1>8 DEF Mirrored

\* The node that is taken out is that of the directory.
LEMMA RemovedListed ==
  ASSUME NEW event, NEW p \in Paths \ {Root},
         NEW i \in {0} \cup (1..Len(tree)), NEW s \in {0} \cup (1..Len(folder)),
         Removal(event, p, i, s), "confused" \notin accidents', p \in Listed
  PROVE  i # 0 /\ tree[i].path = p
<1>1. PICK j \in 1..Len(tree) : tree[j].path = p
  BY DEF Listed
<1>2. Len(p) \in Nat
  BY PathParts
<1>3. Mentions(p, p)
  BY <1>2 DEF Mentions, Last
<1>4. FALSE \notin NodeMatches(j, p)
  BY <1>1, <1>3 DEF NodeMatches, PathMatches
<1>5. i # 0
  BY <1>4 DEF Removal
<1>6. tree[i].path = p
  BY <1>5 DEF Removal
<1> QED
  BY <1>5, <1>6

\* Nothing that was watched from the start loses its watch to a removal that is found
\* in the array: it is gone.
LEMMA StartedWatchesStay ==
  ASSUME TreeInv, Quiet, Turn, Head(events).what = "rmdir", NEW path,
         NEW i \in {0} \cup (1..Len(tree)), NEW s \in {0} \cup (1..Len(folder)),
         Removal(Head(events), path, i, s), {"confused", "astray"} \cap accidents' = {},
         NEW w \in 1..Len(watch), w <= walked
  PROVE  watch'[w] = watch[w]
<1>1. /\ DirTypeOK /\ SlotsWatch /\ EventsPlaced /\ NodesSlots
      /\ Started /\ LostIsOver /\ RemovalIsLast /\ NoneAstray
  BY QuietFacts
<1>2. watch' = IF s = 0 THEN watch
               ELSE [v \in 1..Len(watch) |-> IF v = wd[s] THEN NoDir ELSE watch[v]]
  BY DEF Removal
<1>3. ASSUME s # 0, w = wd[s]
      PROVE  watch[w] = NoDir
  <2>1. s \in 1..Len(folder) /\ w \in 1..walked /\ walked \in Nat /\ Len(folder) \in Nat
    BY <1>1, <1>3 DEF DirTypeOK
  <2>2. s <= walked
    BY <1>1, <1>3, <2>1 DEF NoneAstray
  <2>3. w = s
    BY <1>1, <1>3, <2>1, <2>2 DEF Started
  <2>4. CASE folder[s].kind # "node"
    BY <1>1, <2>1, <2>2, <2>3, <2>4 DEF LostIsOver
  <2>5. CASE folder[s].kind = "node"
    <3> DEFINE freed == FreeNode(i, folder)
    <3>1. freed \in Seq(Slots) /\ Len(freed) = Len(folder)
      BY <1>1, FreedSlots
    <3>2. folder' = [freed EXCEPT ![s] = Null]
      BY <1>3 DEF Removal
    <3> HIDE DEF freed
    <3>3. Null \in Slots /\ Null.kind = "null"
      BY DEF Null, Slots, DirPaths
    <3>4. folder'[s].kind # "node"
      BY <2>1, <3>1, <3>2, <3>3, ExceptSeq
    <3>5. folder[s].path = Proper(Head(events))
      BY <1>1, <2>1, <2>5, <3>4, LosesPath
    <3>6. 1 \in 1..Len(events) /\ Head(events) = events[1]
      BY <1>1, QueueShrinks DEF DirTypeOK, Turn
    <3>7. watch[s] = NoDir
      BY <1>1, <2>1, <2>5, <3>5, <3>6 DEF RemovalIsLast
    <3> QED
      BY <2>3, <3>7
  <2> QED
    BY <2>4, <2>5
<1> QED
  BY <1>2, <1>3

LEMMA RemovalMirrored ==
  ASSUME TreeInv, Turn, Head(events).what = "rmdir", wd' = wd, stage' = stage,
         NEW i \in {0} \cup (1..Len(tree)), NEW s \in {0} \cup (1..Len(folder)),
         Removal(Head(events), abspath', i, s)
  PROVE  WatchedOnce' /\ Mirrored'
<1> DEFINE event == Head(events)
           p == Proper(event)
           n == Len(tree)
<1>1. Removal(event, abspath', i, s)
  OBVIOUS
<1>2. DirTypeOK /\ WatchedOnce
  BY DEF TreeInv, DirInv
<1>3. /\ watch' \in Seq(0..MaxMade) /\ Len(watch') = Len(watch)
      /\ \A w \in 1..Len(watch) : watch'[w] \in {NoDir, watch[w]}
      /\ accidents \subseteq accidents' /\ Len(folder') = Len(folder)
  BY <1>1, <1>2, RemovalTakes
<1>4. WatchedOnce'
  BY <1>2, <1>3, OnceShrinks
<1>5. ASSUME Quiet'
      PROVE  NoneAstray' /\ ListSound' /\ Simulated' /\ ParentsWatched' /\ ChangesOfStarted'
  <2>1. Quiet /\ "confused" \notin accidents'
    BY <1>3, <1>5, QuietBefore DEF Quiet, Accident
  <2>2. NoneAstray /\ ListSound /\ Simulated /\ ParentsWatched /\ ChangesOfStarted
    BY <2>1, QuietFacts
  <2>3. abspath' = p /\ p \in Paths \ {Root}
    BY <2>1, ChangeTrue DEF Turn
  <2>15. NoneAstray'
    <3>1. "astray" \notin accidents'
      BY <1>1, <2>2, <2>3 DEF Removal, NoneAstray
    <3> QED
      BY <1>3, <2>2, <3>1 DEF NoneAstray, Turn
  <2>4. p \in Listed
    BY <1>2, <2>2, HeadIsNews DEF Turn
  <2>5. i # 0 /\ tree[i].path = p
    BY <1>1, <2>1, <2>3, <2>4, RemovedListed
  <2>6. tree' = RemoveAt(tree, i)
    BY <1>1, <2>5 DEF Removal
  <2>7. n \in Nat /\ i \in 1..n /\ tree \in Seq(Nodes)
    BY <1>1, <1>2, <2>5 DEF DirTypeOK
  <2>8. /\ Len(tree') = n - 1
        /\ \A j \in 1..(n - 1) : tree'[j] = IF j < i THEN tree[j] ELSE tree[j + 1]
    BY <2>6, <2>7, RemoveAtParts
  <2> DEFINE From(j) == IF j < i THEN j ELSE j + 1
  <2>9. /\ \A j \in 1..(n - 1) : From(j) \in 1..n /\ From(j) # i /\ tree'[j] = tree[From(j)]
        /\ \A j, k \in 1..(n - 1) : From(j) = From(k) => j = k
        /\ \A k \in 1..n : k # i => \E j \in 1..(n - 1) : From(j) = k
    <3>1. ASSUME NEW k \in 1..n, k # i
          PROVE  \E j \in 1..(n - 1) : From(j) = k
      <4>1. CASE k < i
        BY <2>7, <4>1, k \in 1..(n - 1)
      <4>2. CASE k > i
        <5>1. k - 1 \in 1..(n - 1) /\ From(k - 1) = k
          BY <2>7, <4>2
        <5> QED
          BY <5>1
      <4> QED
        BY <2>7, <3>1, <4>1, <4>2
    <3>2. \A j \in 1..(n - 1) : From(j) \in 1..n /\ From(j) # i
      BY <2>7
    <3>3. \A j, k \in 1..(n - 1) : From(j) = From(k) => j = k
      BY <2>7
    <3>4. \A j \in 1..(n - 1) : tree'[j] = tree[From(j)]
      BY <2>8
    <3> QED
      BY <3>1, <3>2, <3>3, <3>4
  <2> HIDE DEF From
  <2>10. /\ \A j \in 1..n : tree[j].path \in Paths
         /\ \A j, k \in 1..n : tree[j].path = tree[k].path => j = k
    BY <2>2 DEF ListSound, Turn
  <2>11. ListSound'
    <3>1. ASSUME NEW j \in 1..(n - 1), NEW k \in 1..(n - 1), tree'[j].path = tree'[k].path
          PROVE  j = k
      <4>1. From(j) = From(k)
        BY <2>9, <2>10, <3>1
      <4> QED
        BY <2>9, <4>1
    <3> QED
      BY <2>8, <2>9, <2>10, <3>1 DEF ListSound
  <2>12. \A q : q \in Listed' <=> q \in Listed /\ q # p
    <3>1. ASSUME NEW q, q \in Listed'
          PROVE  q \in Listed /\ q # p
      <4>1. PICK j \in 1..(n - 1) : q = tree'[j].path
        BY <2>8, <3>1 DEF Listed
      <4>2. From(j) \in 1..n /\ From(j) # i /\ q = tree[From(j)].path
        BY <2>9, <4>1
      <4>3. q # p
        BY <2>5, <2>7, <2>10, <4>2
      <4> QED
        BY <4>2, <4>3 DEF Listed
    <3>2. ASSUME NEW q, q \in Listed, q # p
          PROVE  q \in Listed'
      <4>1. PICK k \in 1..n : q = tree[k].path
        BY <3>2 DEF Listed
      <4>2. k # i
        BY <2>5, <3>2, <4>1
      <4>3. PICK j \in 1..(n - 1) : From(j) = k
        BY <2>9, <4>2
      <4>4. tree'[j].path = q
        BY <2>9, <4>1, <4>3
      <4> QED
        BY <2>8, <4>4 DEF Listed
    <3> QED
      BY <3>1, <3>2
  <2>13. Simulated'
    <3>1. \A q : Changes(event, q) <=> q = p
      BY DEF Changes
    <3> QED
      BY <1>2, <2>2, <2>12, <3>1, EventTaken
  <2>14. ParentsWatched' /\ ChangesOfStarted'
    <3>1. Len(watch') \in Nat /\ Len(watch') >= Len(watch)
      BY <1>2, <1>3 DEF DirTypeOK
    <3>2. \A w \in 1..Len(watch) : w <= walked => watch'[w] = watch[w]
      BY <1>1, <2>1, <2>15, StartedWatchesStay DEF NoneAstray
    <3> QED
      BY <1>2, <2>2, <3>1, <3>2, RestMirrored DEF Turn
  <2> QED
    BY <2>11, <2>13, <2>14, <2>15
<1> QED
  BY <1>4, <1>5 DEF Mirrored

LEMMA DirRemovedMirrored ==
  ASSUME TreeInv, Turn, Head(events).what = "rmdir", DirRemoved(Head(events), abspath'),
         wd' = wd
  PROVE  WatchedOnce' /\ Mirrored'
<1>1. DirTypeOK /\ DirInv
  BY DEF TreeInv, DirInv
<1>2. ASSUME Crash(abspath')
      PROVE  WatchedOnce' /\ Mirrored'
  <2>1. watch' = watch /\ accidents' = accidents
    BY <1>2 DEF Crash
  <2>2. WatchedOnce'
    BY <2>1 DEF TreeInv, WatchedOnce
  <2>3. Accident({"early", "moved", "confused", "astray"})
    BY <1>1, <1>2, CrashIsAccident
  <2>4. ~Quiet
    BY <2>3 DEF TreeInv, Mirrored, NoneAstray, Quiet, Accident
  <2> QED
    BY <2>1, <2>2, <2>4 DEF Mirrored, Quiet, Accident
<1>3. ASSUME stage' = stage,
             NEW i \in {0} \cup (1..Len(tree)), NEW s \in {0} \cup (1..Len(folder)),
             Removal(Head(events), abspath', i, s)
      PROVE  WatchedOnce' /\ Mirrored'
  BY <1>3, RemovalMirrored
<1> QED
  BY <1>1, <1>2, <1>3, Removes

LEMMA HandleEventMirrored ==
  ASSUME TreeInv, HandleEvent
  PROVE  WatchedOnce' /\ Mirrored'
<1> DEFINE event == Head(events)
<1>1. Turn
  BY Turns
<1>2. CASE event.what = "mkdir" /\ Len(folder) < MAX_SUBDIR_NUM /\ DirMade(abspath')
  BY <1>1, <1>2, DirMadeMirrored
<1>3. CASE event.what = "rmdir" /\ DirRemoved(event, abspath') /\ wd' = wd
  BY <1>1, <1>3, DirRemovedMirrored
<1>4. CASE event.what = "file" /\ UNCHANGED <<stage, tree, folder, wd, watch, accidents>>
  BY <1>1, <1>4, FileEventMirrored
<1> QED
  BY <1>2, <1>3, <1>4, Turns

-----------------------------------------------------------------------------

LEMMA InitTreeInv == DirInit => TreeInv
<1> SUFFICES ASSUME DirInit PROVE TreeInv
  OBVIOUS
<1>1. DirInv
  BY InitDirInv
<1>2. stage = "walk" /\ Len(watch) = 0 /\ Len(events) = 0
  BY EmptySeq DEF DirInit
<1>3. WatchedOnce
  BY <1>2 DEF WatchedOnce
<1>4. NoneAstray /\ ListSound /\ Simulated /\ ParentsWatched /\ ChangesOfStarted
  BY <1>2, EmptySeq DEF DirInit, NoneAstray, ListSound, Simulated, ParentsWatched, ChangesOfStarted
<1> QED
  BY <1>1, <1>3, <1>4 DEF TreeInv, Mirrored

LEMMA NextTreeInv == TreeInv /\ [DirNext]_dirVars => TreeInv'
<1> SUFFICES ASSUME TreeInv, [DirNext]_dirVars PROVE TreeInv'
  OBVIOUS
<1>1. DirInv'
  BY NextDirInv DEF TreeInv
<1>2. ASSUME NEW p \in Paths, UserMkdir(p) PROVE WatchedOnce' /\ Mirrored'
  BY <1>1, <1>2, MkdirMirrored
<1>3. ASSUME NEW p \in Paths, UserRmdir(p) PROVE WatchedOnce' /\ Mirrored'
  BY <1>1, <1>3, RmdirMirrored
<1>4. ASSUME NEW p \in Paths, NEW name \in FileNames, UserTouches(p, name)
      PROVE  WatchedOnce' /\ Mirrored'
  BY <1>4, TouchesMirrored
<1>5. ASSUME NEW p \in Paths, NEW q \in Paths, UserMoves(p, q)
      PROVE  WatchedOnce' /\ Mirrored'
  BY <1>5, MovesMirrored
<1>6. ASSUME Walk PROVE WatchedOnce' /\ Mirrored'
  BY <1>6, WalkMirrored
<1>7. ASSUME WatchNext PROVE WatchedOnce' /\ Mirrored'
  BY <1>1, <1>7, WatchNextMirrored
<1>8. ASSUME StartNotify PROVE WatchedOnce' /\ Mirrored'
  BY <1>8, StartMirrored
<1>9. ASSUME HandleEvent PROVE WatchedOnce' /\ Mirrored'
  BY <1>9, HandleEventMirrored
<1>10. ASSUME Overrun PROVE WatchedOnce' /\ Mirrored'
  BY <1>10, OverrunMirrored
<1>11. ASSUME UNCHANGED dirVars PROVE WatchedOnce' /\ Mirrored'
  BY <1>11 DEF TreeInv, dirVars, user, monitor, WatchedOnce, Mirrored, Quiet, Accident,
               NoneAstray, ListSound, Simulated, ParentsWatched, ChangesOfStarted, Settled, Earliest,
               Latest, Adjacent, Listed, Present, Exists
<1>12. WatchedOnce' /\ Mirrored'
  BY <1>2, <1>3, <1>4, <1>5, <1>6, <1>7, <1>8, <1>9, <1>10, <1>11 DEF DirNext
<1> QED
  BY <1>1, <1>12 DEF TreeInv

\* The inductive invariant of the list of directories.
THEOREM TreeInvariance == DirSpec => []TreeInv
<1>1. DirInit => TreeInv
  BY InitTreeInv
<1>2. TreeInv /\ [DirNext]_dirVars => TreeInv'
  BY NextTreeInv
<1> QED
  BY <1>1, <1>2, PTL DEF DirSpec

\* When every event is handled, the list of directories is what is in the folder,
\* each directory once; unless one was made or removed during the start, renamed, or
\* made in a directory made after the start.
THEOREM ListMirrorsFolder == DirSpec => []TreeMatchesFolder
<1>1. ASSUME TreeInv PROVE TreeMatchesFolder
  <2> SUFFICES ASSUME stage = "notify", events = <<>>, Quiet
               PROVE  Listed = Present /\ Len(tree) = Cardinality(Present)
    BY DEF TreeMatchesFolder, Quiet, Listed, Present
  <2>1. DirTypeOK /\ ListSound /\ Simulated
    BY <1>1, QuietFacts
  <2>2. \A p \in Paths : Settled(p)
    BY EmptySeq DEF Settled
  <2>3. Listed \subseteq Paths /\ Present \subseteq Paths
    BY <2>1 DEF ListSound, Listed, Present
  <2>4. Listed = Present
    BY <2>1, <2>2, <2>3 DEF Simulated
  <2> DEFINE n == Len(tree)
             pathOf == [i \in 1..n |-> tree[i].path]
  <2>5. n \in Nat
    BY <2>1 DEF DirTypeOK
  <2>6. \A i, j \in 1..n : tree[i].path = tree[j].path => i = j
    BY <2>1 DEF ListSound
  <2>7. pathOf \in Bijection(1..n, Listed)
    <3>1. pathOf \in [1..n -> Listed]
      BY DEF Listed
    <3>2. \A p \in Listed : \E i \in 1..n : pathOf[i] = p
      BY DEF Listed
    <3> QED
      BY <2>6, <3>1, <3>2 DEF Bijection, Injection, Surjection, IsInjective
  <2>8. IsFiniteSet(1..n) /\ Cardinality(1..n) = n
    <3> HIDE DEF n
    <3>1. n \in Int /\ 1 \in Int /\ (1 > n => n = 0)
      BY <2>5
    <3>2. /\ IsFiniteSet(1..n)
          /\ Cardinality(1..n) = IF 1 > n THEN 0 ELSE n - 1 + 1
      BY <3>1, FS_Interval
    <3>3. (IF 1 > n THEN 0 ELSE n - 1 + 1) = n
      BY <2>5
    <3> QED
      BY <3>2, <3>3
  <2>9. Cardinality(Listed) = n
    <3>1. ExistsBijection(1..n, Listed)
      BY <2>7 DEF ExistsBijection
    <3> QED
      BY <2>8, <3>1, FS_Bijection
  <2> QED
    BY <2>4, <2>9
<1> QED
  BY <1>1, TreeInvariance, PTL

\* To watch another directory leaves the descriptors there are alone (monitor.c, notify).
LEMMA AddWatchKeeps ==
  ASSUME DirTypeOK, NEW q \in DirPaths, AddWatch(q), NEW w \in 1..Len(watch)
  PROVE  watch'[w] = watch[w]
<1>1. watch \in Seq(0..MaxMade)
  BY DEF DirTypeOK
<1>2. watch' = watch \/ \E d : watch' = Append(watch, d)
  BY AddsWatch
<1> QED
  BY <1>1, <1>2

\* No removal takes the watch of a directory that the walk found and that is still there,
\* whatever else is removed, and whatever the strings of other slots are; unless a directory
\* came or went during the start, was renamed, taken for one with a longer name, or made
\* in one made after the start (monitor.c, notify).
THEOREM StartedWatched == DirSpec => StartedStayWatched
<1>1. ASSUME TreeInv, TreeInv', [DirNext]_dirVars,
             accidents' \cap {"early", "moved", "confused", "nested"} = {},
             NEW w \in 1..Len(watch), w <= walked, watch[w] # NoDir, watch'[w] = NoDir,
             NEW p \in Paths
      PROVE  dir'[p] # watch[w]
  <2>1. DirTypeOK /\ FolderSound
    BY <1>1 DEF TreeInv, DirInv
  <2>2. watch \in Seq(0..MaxMade) /\ Len(watch) \in Nat
    BY <2>1 DEF DirTypeOK
  <2>3. ASSUME NEW q \in Paths, UserRmdir(q)
        PROVE  dir'[p] # watch[w]
    <3>1. watch[w] = dir[q] /\ dir' = [dir EXCEPT ![q] = NoDir]
      BY <1>1, <2>3 DEF UserRmdir
    <3>2. dir[p] = dir[q] => p = q
      BY <1>1, <2>1, <3>1 DEF FolderSound
    <3> QED
      BY <1>1, <2>1, <3>1, <3>2 DEF DirTypeOK
  <2>4. ASSUME HandleEvent
        PROVE  FALSE
    <3>1. Turn /\ "overrun" \notin accidents
      BY <2>4, Turns DEF HandleEvent
    <3>2. CASE /\ Head(events).what = "mkdir" /\ Len(folder) < MAX_SUBDIR_NUM
               /\ DirMade(abspath')
      <4>1. abspath' \in DirPaths
        BY <1>1, <3>1, TurnPath DEF TreeInv
      <4>2. AddWatch(abspath')
        BY <3>2 DEF DirMade
      <4>3. watch'[w] = watch[w]
        BY <2>1, <4>1, <4>2, AddWatchKeeps
      <4> QED
        BY <1>1, <4>3
    <3>3. ASSUME Head(events).what = "rmdir", DirRemoved(Head(events), abspath'), wd' = wd
          PROVE  FALSE
      <4>1. PICK i \in {0} \cup (1..Len(tree)), s \in {0} \cup (1..Len(folder)) :
              Removal(Head(events), abspath', i, s)
        BY <1>1, <2>1, <3>3, Removes DEF Crash
      <4>2. accidents \subseteq accidents' /\ accidents' \subseteq accidents \cup {"astray", "confused"}
        BY <4>1 DEF Removal
      <4>3. Quiet /\ Quiet'
        BY <1>1, <3>1, <4>2 DEF Quiet, Accident
      <4>4. "astray" \notin accidents'
        BY <1>1, <4>3 DEF TreeInv, Mirrored, NoneAstray
      <4>5. {"confused", "astray"} \cap accidents' = {}
        BY <1>1, <4>4
      <4> QED
        BY <1>1, <3>1, <3>3, <4>1, <4>3, <4>5, StartedWatchesStay
    <3>4. CASE Head(events).what = "file" /\ UNCHANGED <<stage, tree, folder, wd, watch, accidents>>
      BY <1>1, <3>4
    <3> QED
      BY <2>4, <3>2, <3>3, <3>4, Turns
  <2>5. CASE WatchNext
    <3> DEFINE q == tree[Len(folder) + 1].path
    <3>1. q \in DirPaths /\ AddWatch(q)
      <4>1. tree[Len(folder) + 1] \in Nodes /\ AddWatch(q)
        BY <2>1, <2>5 DEF DirTypeOK, WatchNext
      <4> QED
        BY <4>1 DEF Nodes
    <3> HIDE DEF q
    <3>2. watch'[w] = watch[w]
      BY <2>1, <3>1, AddWatchKeeps
    <3> QED
      BY <1>1, <3>2
  <2>6. CASE watch' = watch
    BY <1>1, <2>6
  <2>7. \/ \E q \in Paths : UserRmdir(q)
        \/ HandleEvent \/ WatchNext \/ watch' = watch
    BY <1>1 DEF DirNext, UserMkdir, UserTouches, UserMoves, Walk, StartNotify, Overrun,
                dirVars
  <2> QED
    BY <2>3, <2>4, <2>5, <2>6, <2>7
<1>2. TreeInv /\ TreeInv' /\ [DirNext]_dirVars =>
        [accidents' \cap {"early", "moved", "confused", "nested"} = {} =>
           \A w \in 1..Len(watch) :
             w <= walked /\ watch[w] # NoDir /\ watch'[w] = NoDir
               => \A p \in Paths : dir'[p] # watch[w]]_dirVars
  BY <1>1
<1> QED
  BY <1>2, TreeInvariance, PTL DEF DirSpec, StartedStayWatched
================================================================================
