------------------------------ MODULE WireProofs ------------------------------
(***************************************************************************)
(* Proofs about Wire: it keeps its types, it implements PacketChannel, and *)
(* without mixed packets the reader stops at the end of the stream only,   *)
(* for any writers, sizes, room and number of packets.                     *)
(*                                                                         *)
(* The argument has three parts.  Writers: packets are told apart by their *)
(* numbers.  Marks: whatever is mixed with what, the cells of one packet   *)
(* travel in order, and those of a packet that was handled lie behind the  *)
(* reader.  Straight: until packets are mixed, the cells between the       *)
(* reader and the writers form a line, in which each cell follows the one  *)
(* before it.                                                              *)
(***************************************************************************)
EXTENDS Wire, SequenceTheorems, TLAPS

CellsOnWire == [packet : Packets, part : 1..(MaxSize + 3)]

Types ==
    /\ begun \in 0..MaxPackets
    /\ sending \in [Writers -> Packets \cup {NoPacket}]
    /\ copied \in [Writers -> 0..(MaxSize + 2)]
    /\ stream \in Seq(CellsOnWire) /\ taken \in Seq(CellsOnWire)
    /\ Len(stream) <= Room /\ Len(taken) <= need
    /\ state \in {"header", "body", "stopped"}
    /\ need \in 0..(MaxSize + 1)
    /\ state = "header" => need = 2
    /\ state = "body" => need >= 2
    /\ state = "stopped" => need = 0
    /\ closed \in BOOLEAN /\ overlapped \in BOOLEAN
    /\ sent \in Seq(Packets) /\ got \in Seq(Packets)

\* Every packet has a number of its own and fits, and is in sent as soon as a
\* cell of it has been copied.
Begun(p) == p \in Packets /\ p.number <= begun /\ p.size <= MaxSize

Writing(w) ==
    IF sending[w] = NoPacket THEN copied[w] = 0
    ELSE Begun(sending[w]) /\ copied[w] < Cells(sending[w])

StartedIfSent(w) ==
    sending[w] # NoPacket =>
        IF copied[w] = 0 THEN \A i \in 1..Len(sent) : sent[i].number # sending[w].number
                         ELSE \E i \in 1..Len(sent) : sent[i] = sending[w]

NumbersDiffer ==
    /\ \A w, v \in Writers :
          w # v /\ sending[w] # NoPacket /\ sending[v] # NoPacket
              => sending[w].number # sending[v].number
    /\ \A i, j \in 1..Len(sent) : i # j => sent[i].number # sent[j].number

WritersOK ==
    /\ \A w \in Writers : Writing(w) /\ StartedIfSent(w)
    /\ \A i \in 1..Len(sent) : Begun(sent[i])
    /\ NumbersDiffer

\* The cells between the writers and the place where the reader began to read.
flow == taken \o stream

IsSent(p) == \E i \in 1..Len(sent) : sent[i] = p

\* A cell on the way is a cell of a packet in sent.
CellsAreSent ==
    \A i \in 1..Len(flow) :
        /\ IsSent(flow[i].packet)
        /\ flow[i].part <= Cells(flow[i].packet)

\* The cells of one packet are in order, and its writer is beyond them.
InOrder ==
    /\ \A i, j \in 1..Len(flow) :
          i < j /\ flow[i].packet = flow[j].packet => flow[i].part < flow[j].part
    /\ \A w \in Writers, i \in 1..Len(flow) :
          sending[w] = flow[i].packet => flow[i].part <= copied[w]

\* Only the end of a packet that was handled can still be on its way.
HandledIsBehind ==
    \A k \in 1..Len(got) :
        /\ IsSent(got[k])
        /\ \A i \in 1..Len(flow) :
              flow[i].packet = got[k] => flow[i].part > got[k].size + 2
        /\ \A w \in Writers : sending[w] = got[k] => copied[w] >= got[k].size + 2

Marks == CellsAreSent /\ InOrder /\ HandledIsBehind

\* The packet the reader is in or will read next.
current == sent[Len(got) + 1]

\* The flow, with the two cells of the prefix that the reader has left behind
\* when it reads a body.
line == IF state = "body" THEN <<Cell(current, 1), Cell(current, 2)>> \o flow ELSE flow
Read == IF state = "body" THEN Len(taken) + 2 ELSE Len(taken)

Follows(d, c) ==
    IF c.part < Cells(c.packet)
    THEN d = Cell(c.packet, c.part + 1)
    ELSE \E k \in 1..(Len(sent) - 1) : c.packet = sent[k] /\ d = Cell(sent[k + 1], 1)

\* What was handled is a prefix of what was sent.
InTurn ==
    /\ Len(got) <= Len(sent)
    /\ \A k \in 1..Len(got) : got[k] = sent[k]

LineStarts ==
    line # <<>> => Len(got) < Len(sent) /\ line[1] = Cell(current, 1)

LineFollows ==
    \A i \in 1..(Len(line) - 1) : Follows(line[i + 1], line[i])

ReaderInLine ==
    /\ \A i \in 1..Read : line[i] = Cell(current, i)
    /\ state = "body" => need = current.size + 1

\* The last cell on the line is where a writer is, or the end of the last packet.
LineEnds ==
    /\ \A w \in Writers :
          copied[w] > 0 => line # <<>> /\ Last(line) = Cell(sending[w], copied[w])
                           /\ sending[w] = Last(sent)
    /\ (\A w \in Writers : copied[w] = 0) =>
          IF line = <<>> THEN Len(got) = Len(sent)
                         ELSE Last(line) = Cell(Last(sent), Cells(Last(sent)))

Straight ==
    /\ InTurn
    /\ IF state = "stopped" THEN closed /\ stream = <<>>
       ELSE /\ LineStarts /\ LineFollows /\ ReaderInLine
            /\ closed \/ LineEnds

IInv == Types /\ WritersOK /\ Marks /\ (overlapped \/ Straight)
------------------------------------------------------------------------------
\* Constants, sequences and arithmetic.

LEMMA ConstantFacts ==
    /\ MaxSize \in Nat \ {0} /\ Room \in Nat \ {0} /\ MaxPackets \in Nat \ {0}
    /\ Sizes \subseteq Nat \ {0}
BY WireAssumption

LEMMA PacketFacts ==
    ASSUME NEW p \in Packets
    PROVE  p.number \in Nat /\ p.size \in Nat \ {0}
<1>1. p.number \in 1..MaxPackets /\ p.size \in Sizes
  BY DEF Packets
<1>2. p.number \in Nat
  BY <1>1
<1>3. p.size \in Nat \ {0}
  BY <1>1, ConstantFacts
<1> QED BY <1>2, <1>3

LEMMA CellFacts ==
    ASSUME NEW p \in Packets, p.size <= MaxSize, NEW i \in 1..Cells(p)
    PROVE  /\ Cell(p, i) \in CellsOnWire
           /\ Cell(p, i).packet = p /\ Cell(p, i).part = i
           /\ Cells(p) \in Nat /\ Cells(p) >= 4
BY PacketFacts, ConstantFacts DEF Cell, Cells, CellsOnWire

\* The next cell to copy, counted round.
LEMMA Wrap ==
    ASSUME NEW n \in Nat \ {0}, NEW c \in 0..n
    PROVE  c % n = IF c = n THEN 0 ELSE c
OBVIOUS

\* A read moves a cell from one part of the flow to the other.
LEMMA MoveHead ==
    ASSUME NEW S, NEW s \in Seq(S), NEW t \in Seq(S), t # <<>>
    PROVE  /\ Append(s, Head(t)) \in Seq(S) /\ Tail(t) \in Seq(S)
           /\ Len(Append(s, Head(t))) = Len(s) + 1 /\ Len(Tail(t)) = Len(t) - 1
           /\ Append(s, Head(t)) \o Tail(t) = s \o t
<1>1. Head(t) = t[1] /\ Head(t) \in S /\ Tail(t) \in Seq(S) /\ Len(t) \in Nat \ {0}
  BY HeadTailProperties, EmptySeq
<1>2. Len(Tail(t)) = Len(t) - 1 /\ \A i \in 1..Len(Tail(t)) : Tail(t)[i] = t[i + 1]
  BY HeadTailProperties
<1>3. /\ Append(s, Head(t)) \in Seq(S) /\ Len(Append(s, Head(t))) = Len(s) + 1
      /\ \A i \in 1..Len(s) : Append(s, Head(t))[i] = s[i]
      /\ Append(s, Head(t))[Len(s) + 1] = Head(t)
  BY <1>1, AppendProperties
<1>4. Append(s, Head(t)) \o Tail(t) = s \o t
  <2> DEFINE a == Append(s, Head(t))
             u == Tail(t)
  <2>1. /\ a \o u \in Seq(S) /\ Len(a \o u) = Len(s) + Len(t)
        /\ \A i \in 1..(Len(s) + Len(t)) :
              (a \o u)[i] = IF i <= Len(s) + 1 THEN a[i] ELSE u[i - (Len(s) + 1)]
    BY <1>1, <1>2, <1>3, ConcatProperties, LenProperties
  <2>2. /\ s \o t \in Seq(S) /\ Len(s \o t) = Len(s) + Len(t)
        /\ \A i \in 1..(Len(s) + Len(t)) :
              (s \o t)[i] = IF i <= Len(s) THEN s[i] ELSE t[i - Len(s)]
    BY ConcatProperties
  <2>3. ASSUME NEW i \in 1..(Len(s) + Len(t))
        PROVE  (a \o u)[i] = (s \o t)[i]
    <3>0. Len(s) \in Nat
      BY LenProperties
    <3>1. CASE i <= Len(s)
      BY <3>0, <3>1, <2>1, <2>2, <1>3
    <3>2. CASE i = Len(s) + 1
      BY <3>0, <3>2, <2>1, <2>2, <1>1, <1>3
    <3>3. CASE i > Len(s) + 1
      <4>1. (a \o u)[i] = u[i - (Len(s) + 1)] /\ (s \o t)[i] = t[i - Len(s)]
        BY <3>0, <3>3, <2>1, <2>2
      <4>2. i - (Len(s) + 1) \in 1..Len(u) /\ i - (Len(s) + 1) + 1 = i - Len(s)
        BY <3>0, <3>3, <1>1, <1>2
      <4> QED BY <4>1, <4>2, <1>2
    <3> QED BY <3>0, <3>1, <3>2, <3>3
  <2> QED BY <2>1, <2>2, <2>3, SeqEqual
<1> QED BY <1>1, <1>2, <1>3, <1>4
------------------------------------------------------------------------------
\* Steps seen from the flow.

LEMMA FlowFacts ==
    ASSUME Types
    PROVE  /\ flow \in Seq(CellsOnWire) /\ Len(flow) = Len(taken) + Len(stream)
           /\ Len(taken) \in Nat /\ Len(stream) \in Nat
           /\ \A i \in 1..Len(taken) : flow[i] = taken[i]
           /\ \A i \in 1..Len(stream) : flow[Len(taken) + i] = stream[i]
<1>1. taken \in Seq(CellsOnWire) /\ stream \in Seq(CellsOnWire)
  BY DEF Types
<1>2. Len(taken) \in Nat /\ Len(stream) \in Nat
  BY <1>1, LenProperties
<1>3. /\ flow \in Seq(CellsOnWire) /\ Len(flow) = Len(taken) + Len(stream)
      /\ \A i \in 1..(Len(taken) + Len(stream)) :
            flow[i] = IF i <= Len(taken) THEN taken[i] ELSE stream[i - Len(taken)]
  BY <1>1, ConcatProperties DEF flow
<1> QED BY <1>2, <1>3

LEMMA ReceiveKeepsFlow ==
    ASSUME Types, Receive
    PROVE  flow' = flow
<1>1. stream # <<>> /\ taken' = Append(taken, Head(stream)) /\ stream' = Tail(stream)
  BY DEF Receive
<1>2. stream \in Seq(CellsOnWire) /\ taken \in Seq(CellsOnWire)
  BY DEF Types
<1>3. Append(taken, Head(stream)) \o Tail(stream) = taken \o stream
  BY <1>1, <1>2, MoveHead
<1> QED BY <1>1, <1>3 DEF flow

\* The reader leaves what it has taken behind.
LEMMA LeavesTaken ==
    ASSUME Types, taken' = <<>>, stream' = stream
    PROVE  /\ flow' = stream /\ Len(flow') = Len(flow) - Len(taken)
           /\ \A i \in 1..Len(flow') : flow'[i] = flow[i + Len(taken)]
<1>1. flow' = stream
  BY ConcatEmptySeq DEF Types, flow
<1> QED BY <1>1, FlowFacts

\* The cells that one send copies.
fresh(w, k) == [i \in 1..k |-> Cell(sending[w], copied[w] + i)]

LEMMA FreshFacts ==
    ASSUME Types, WritersOK, NEW w \in Writers, NEW k \in 1..Room, SendSome(w, k)
    PROVE  /\ fresh(w, k) \in Seq(CellsOnWire) /\ Len(fresh(w, k)) = k
           /\ \A i \in 1..k : /\ fresh(w, k)[i] = Cell(sending[w], copied[w] + i)
                              /\ fresh(w, k)[i].packet = sending[w]
                              /\ fresh(w, k)[i].part = copied[w] + i
           /\ sending[w] \in Packets /\ sending[w].size <= MaxSize
           /\ copied[w] + k <= Cells(sending[w])
<1>1. /\ sending[w] \in Packets /\ sending[w].size <= MaxSize
      /\ copied[w] + k <= Cells(sending[w]) /\ copied[w] \in Nat
  BY DEF Types, WritersOK, Writing, Begun, SendSome
<1>2. k \in Nat /\ Cells(sending[w]) \in Nat
  BY <1>1, PacketFacts, ConstantFacts DEF Cells
<1>3. \A i \in 1..k : copied[w] + i \in 1..Cells(sending[w])
  BY <1>1, <1>2
<1>4. \A i \in 1..k : /\ Cell(sending[w], copied[w] + i) \in CellsOnWire
                     /\ Cell(sending[w], copied[w] + i).packet = sending[w]
                     /\ Cell(sending[w], copied[w] + i).part = copied[w] + i
  BY <1>1, <1>3, CellFacts
<1>5. fresh(w, k) \in Seq(CellsOnWire) /\ Len(fresh(w, k)) = k
  BY <1>2, <1>4 DEF fresh
<1> QED BY <1>1, <1>4, <1>5 DEF fresh

LEMMA SendGrowsFlow ==
    ASSUME Types, WritersOK, NEW w \in Writers, NEW k \in 1..Room, SendSome(w, k)
    PROVE  /\ flow' = flow \o fresh(w, k)
           /\ flow' \in Seq(CellsOnWire) /\ Len(flow') = Len(flow) + k /\ Len(flow) \in Nat
           /\ \A i \in 1..Len(flow) : flow'[i] = flow[i]
           /\ \A i \in 1..k : flow'[Len(flow) + i] = Cell(sending[w], copied[w] + i)
<1>1. flow' = flow \o fresh(w, k)
  <2>1. taken' = taken /\ stream' = stream \o fresh(w, k)
    BY DEF SendSome, reader, fresh
  <2>2. (taken \o stream) \o fresh(w, k) = taken \o (stream \o fresh(w, k))
    <3>1. fresh(w, k) \in Seq(CellsOnWire)
      BY FreshFacts
    <3>2. taken \in Seq(CellsOnWire) /\ stream \in Seq(CellsOnWire)
      BY DEF Types
    <3> QED BY <3>1, <3>2, ConcatAssociative
  <2> QED BY <2>1, <2>2 DEF flow
<1>2. flow \in Seq(CellsOnWire) /\ Len(flow) \in Nat
  BY FlowFacts
<1>3. /\ flow' \in Seq(CellsOnWire) /\ Len(flow') = Len(flow) + k
      /\ \A i \in 1..(Len(flow) + k) :
            flow'[i] = IF i <= Len(flow) THEN flow[i] ELSE fresh(w, k)[i - Len(flow)]
  <2>1. fresh(w, k) \in Seq(CellsOnWire) /\ Len(fresh(w, k)) = k
    BY FreshFacts
  <2> QED BY <1>1, <1>2, <2>1, ConcatProperties
<1>4. \A i \in 1..k : fresh(w, k)[i] = Cell(sending[w], copied[w] + i)
  BY FreshFacts
<1> QED BY <1>1, <1>2, <1>3, <1>4, ConstantFacts
------------------------------------------------------------------------------
\* Types.

LEMMA LengthsAreNumbers ==
    ASSUME Types, state = "header", Len(taken) = need
    PROVE  Lengths \subseteq Nat
<1>1. taken[2] \in CellsOnWire
  <2>1. taken \in Seq(CellsOnWire) /\ 2 \in 1..Len(taken)
    BY DEF Types
  <2> QED BY <2>1, ElementOfSeq
<1>2. taken[2].packet.size \in Nat
  BY <1>1, PacketFacts DEF CellsOnWire
<1> QED BY <1>2, ConstantFacts DEF Lengths

\* A writer that has copied a part is at the next cell; one that has copied the
\* whole packet is done.
LEMMA CopiedFacts ==
    ASSUME Types, WritersOK, NEW w \in Writers, NEW k \in 1..Room, SendSome(w, k)
    PROVE  IF copied[w] + k = Cells(sending[w])
           THEN /\ copied' = [copied EXCEPT ![w] = 0]
                /\ sending' = [sending EXCEPT ![w] = NoPacket]
           ELSE /\ copied' = [copied EXCEPT ![w] = copied[w] + k]
                /\ sending' = sending /\ copied[w] + k < Cells(sending[w])
<1>1. sending[w] \in Packets /\ copied[w] + k <= Cells(sending[w])
  BY FreshFacts
<1>2. Cells(sending[w]) \in Nat \ {0}
  BY <1>1, PacketFacts DEF Cells
<1>3. copied[w] + k \in 0..Cells(sending[w])
  BY <1>1, <1>2, ConstantFacts DEF Types
<1>4. (copied[w] + k) % Cells(sending[w])
        = IF copied[w] + k = Cells(sending[w]) THEN 0 ELSE copied[w] + k
  BY <1>2, <1>3, Wrap
<1>5. /\ copied' = [copied EXCEPT ![w] = (copied[w] + k) % Cells(sending[w])]
      /\ sending' = IF copied[w] + k = Cells(sending[w])
                    THEN [sending EXCEPT ![w] = NoPacket] ELSE sending
  BY DEF SendSome
<1>6. CASE copied[w] + k = Cells(sending[w])
  BY <1>4, <1>5, <1>6
<1>7. CASE copied[w] + k # Cells(sending[w])
  <2>1. copied[w] + k < Cells(sending[w])
    BY <1>2, <1>3, <1>7
  <2> QED BY <1>4, <1>5, <1>7, <2>1
<1> QED BY <1>6, <1>7

LEMMA TypesStart == Init => Types
<1> SUFFICES ASSUME Init PROVE Types
  OBVIOUS
<1>1. stream = <<>> /\ taken = <<>> /\ sent = <<>> /\ got = <<>>
  BY DEF Init
<1>2. <<>> \in Seq(CellsOnWire) /\ <<>> \in Seq(Packets) /\ Len(<<>>) = 0
  BY EmptySeq
<1>3. 0 \in 0..MaxPackets /\ 0 \in 0..(MaxSize + 2) /\ 2 \in 0..(MaxSize + 1) /\ 0 <= Room
  BY ConstantFacts
<1>4. /\ sending \in [Writers -> Packets \cup {NoPacket}]
      /\ copied \in [Writers -> 0..(MaxSize + 2)]
  BY <1>3 DEF Init
<1>5. begun = 0 /\ closed = FALSE /\ overlapped = FALSE /\ state = "header" /\ need = 2
  BY DEF Init
<1>6. /\ stream \in Seq(CellsOnWire) /\ taken \in Seq(CellsOnWire)
      /\ sent \in Seq(Packets) /\ got \in Seq(Packets)
  BY <1>1, <1>2
<1>7. Len(stream) <= Room /\ Len(taken) <= need
  BY <1>1, <1>2, <1>3, <1>5
<1> QED BY <1>3, <1>4, <1>5, <1>6, <1>7 DEF Types

LEMMA TypesSend ==
    ASSUME Types, WritersOK, NEW w \in Writers, Sender(w)
    PROVE  Types'
<1>1. ASSUME NEW n \in Sizes, SendBegin(w, n) PROVE Types'
  <2>1. [number |-> begun + 1, size |-> n] \in Packets
    BY <1>1, ConstantFacts DEF SendBegin, Types, Packets
  <2> QED BY <1>1, <2>1, ConstantFacts DEF SendBegin, Types, reader
<1>2. ASSUME NEW k \in 1..Room, SendSome(w, k) PROVE Types'
  <2>1. /\ sending[w] \in Packets /\ sending[w].size <= MaxSize
        /\ fresh(w, k) \in Seq(CellsOnWire) /\ Len(fresh(w, k)) = k
    BY <1>2, FreshFacts
  <2>2. stream' = stream \o fresh(w, k) /\ Len(stream) + k <= Room
    BY <1>2 DEF SendSome, fresh
  <2>3. stream' \in Seq(CellsOnWire) /\ Len(stream') <= Room
    BY <2>1, <2>2, ConcatProperties DEF Types
  <2>4. sending' \in [Writers -> Packets \cup {NoPacket}]
    BY <1>2, CopiedFacts DEF Types
  <2>5. copied' \in [Writers -> 0..(MaxSize + 2)]
    <3>1. copied[w] + k < Cells(sending[w]) => copied[w] + k \in 0..(MaxSize + 2)
      BY <2>1, PacketFacts, ConstantFacts DEF Cells, Types
    <3>2. 0 \in 0..(MaxSize + 2) /\ copied \in [Writers -> 0..(MaxSize + 2)]
      BY ConstantFacts DEF Types
    <3>3. \/ copied' = [copied EXCEPT ![w] = 0]
          \/ /\ copied' = [copied EXCEPT ![w] = copied[w] + k]
             /\ copied[w] + k < Cells(sending[w])
      BY <1>2, CopiedFacts
    <3> QED BY <3>1, <3>2, <3>3
  <2>6. sent' \in Seq(Packets)
    BY <1>2, <2>1, AppendProperties DEF SendSome, Types
  <2>7. overlapped' \in BOOLEAN
    BY <1>2 DEF SendSome, Types
  <2> QED BY <1>2, <2>3, <2>4, <2>5, <2>6, <2>7 DEF SendSome, Types, reader
<1>3. CASE SendFails(w)
  BY <1>3, ConstantFacts DEF SendFails, Types, reader
<1> QED BY <1>1, <1>2, <1>3 DEF Sender

LEMMA TypesRead ==
    ASSUME Types, Reader
    PROVE  Types'
<1>0. Len(<<>>) = 0 /\ <<>> \in Seq(CellsOnWire)
  BY EmptySeq
<1>1. CASE Receive
  <2>1. /\ taken' \in Seq(CellsOnWire) /\ stream' \in Seq(CellsOnWire)
        /\ Len(taken') = Len(taken) + 1 /\ Len(stream') = Len(stream) - 1
    BY <1>1, MoveHead DEF Receive, Types
  <2>2. Len(stream) \in Nat /\ Len(taken) \in Nat
    BY LenProperties DEF Types
  <2> QED BY <1>1, <2>1, <2>2, ConstantFacts DEF Receive, Types
<1>2. CASE HeaderAccepted
  <2>1. PICK n \in Lengths : Acceptable(n) /\ Await("body", n + 1)
    BY <1>2 DEF HeaderAccepted
  <2>2. n \in 1..MaxSize
    BY <1>2, <2>1, LengthsAreNumbers, ConstantFacts DEF HeaderAccepted, Acceptable
  <2> QED BY <1>0, <1>2, <2>1, <2>2, ConstantFacts DEF HeaderAccepted, Await, Types
<1>3. CASE HeaderRejected \/ BodyRejected \/ EndOfStream
  <2>1. Await("stopped", 0) /\ UNCHANGED <<begun, sending, copied, stream, closed, sent, got,
                                           overlapped>>
    BY <1>3 DEF HeaderRejected, BodyRejected, EndOfStream
  <2> QED BY <1>0, <2>1, ConstantFacts DEF Await, Types
<1>4. CASE Handled \/ Skipped
  <2>1. Await("header", 2) /\ UNCHANGED <<begun, sending, copied, stream, closed, sent,
                                          overlapped>>
    BY <1>4 DEF Handled, Skipped
  <2>2. got' \in Seq(Packets)
    <3>1. CASE Handled
      <4>1. 1 \in 1..Len(taken)
        BY <3>1 DEF Handled, Types
      <4>2. taken \in Seq(CellsOnWire)
        BY DEF Types
      <4>3. taken[1] \in CellsOnWire
        BY <4>1, <4>2, ElementOfSeq
      <4>4. taken[1].packet \in Packets
        BY <4>3 DEF CellsOnWire
      <4> QED BY <3>1, <4>4, AppendProperties DEF Handled, Types
    <3>2. CASE Skipped
      BY <3>2 DEF Skipped, Types
    <3> QED BY <1>4, <3>1, <3>2
  <2> QED BY <1>0, <2>1, <2>2, ConstantFacts DEF Await, Types
<1> QED BY <1>1, <1>2, <1>3, <1>4 DEF Reader
------------------------------------------------------------------------------
\* Writers.

LEMMA WritersStart == Init => WritersOK
<1> SUFFICES ASSUME Init PROVE WritersOK
  OBVIOUS
<1>1. Len(sent) = 0
  BY EmptySeq DEF Init
<1>2. \A w \in Writers : sending[w] = NoPacket /\ copied[w] = 0
  BY DEF Init
<1> QED BY <1>1, <1>2 DEF WritersOK, Writing, StartedIfSent, NumbersDiffer

LEMMA WritersBegin ==
    ASSUME Types, WritersOK, NEW w \in Writers, NEW n \in Sizes, SendBegin(w, n)
    PROVE  WritersOK'
<1> DEFINE p == [number |-> begun + 1, size |-> n]
<1>1. /\ sending' = [sending EXCEPT ![w] = p] /\ begun' = begun + 1 /\ sending[w] = NoPacket
      /\ copied' = copied /\ sent' = sent
  BY DEF SendBegin
<1>2. begun \in Nat /\ begun + 1 \in 1..MaxPackets /\ n \in Nat \ {0} /\ n <= MaxSize
  BY ConstantFacts DEF Types, SendBegin, Fits
<1>3. p \in Packets /\ p # NoPacket /\ p.number = begun + 1 /\ p.size = n
  BY <1>2, WireAssumption DEF Packets
<1>4. sending' \in [Writers -> Packets \cup {NoPacket}]
  BY <1>1, <1>3 DEF Types
<1>5. \A v \in Writers : sending'[v] = IF v = w THEN p ELSE sending[v]
  BY <1>1 DEF Types
<1>6. \A q \in Packets : Begun(q) => Begun(q)' /\ q.number < begun + 1 /\ q.number \in Nat
  BY <1>1, <1>2, PacketFacts DEF Begun
<1>7. ASSUME NEW v \in Writers PROVE Writing(v)'
  <2>1. CASE v = w
    <3>1. copied[w] = 0
      BY <1>1 DEF WritersOK, Writing
    <3>2. p \in Packets /\ p.number <= begun' /\ p.size <= MaxSize /\ 0 < p.size + 3
      BY <1>1, <1>2, <1>3
    <3>3. sending'[w] = p /\ copied'[w] = 0
      BY <1>1, <1>5, <3>1
    <3> QED BY <2>1, <3>2, <3>3 DEF Writing, Cells, Begun
  <2>2. CASE v # w
    BY <2>2, <1>1, <1>5, <1>6 DEF WritersOK, Writing, Begun
  <2> QED BY <2>1, <2>2
<1>8. \A i \in 1..Len(sent) : Begun(sent[i]) /\ Begun(sent[i])' /\ sent[i].number < begun + 1
  <2>1. \A i \in 1..Len(sent) : sent[i] \in Packets /\ Begun(sent[i])
    BY DEF WritersOK, Begun
  <2> QED BY <2>1, <1>1, <1>6
<1>9. ASSUME NEW v \in Writers PROVE StartedIfSent(v)'
  <2>1. CASE v = w
    <3>1. copied[w] = 0
      BY <1>1 DEF WritersOK, Writing
    <3>2. \A i \in 1..Len(sent) : sent[i].number # p.number
      BY <1>2, <1>3, <1>6, <1>8 DEF Begun
    <3> QED BY <2>1, <1>1, <1>5, <3>1, <3>2 DEF StartedIfSent
  <2>2. CASE v # w
    BY <2>2, <1>1, <1>5 DEF WritersOK, StartedIfSent
  <2> QED BY <2>1, <2>2
<1>10. NumbersDiffer'
  <2>1. ASSUME NEW v \in Writers, v # w, sending[v] # NoPacket
        PROVE  sending[v].number # p.number
    <3>1. Begun(sending[v]) /\ sending[v] \in Packets
      BY <2>1 DEF WritersOK, Writing, Begun
    <3> QED BY <3>1, <1>2, <1>3, <1>6
  <2> QED BY <2>1, <1>1, <1>5 DEF WritersOK, NumbersDiffer
<1>11. (\A i \in 1..Len(sent) : Begun(sent[i]))'
  BY <1>1, <1>8 DEF Begun
<1> QED BY <1>7, <1>9, <1>10, <1>11 DEF WritersOK

LEMMA WritersSend ==
    ASSUME Types, WritersOK, NEW w \in Writers, NEW k \in 1..Room, SendSome(w, k)
    PROVE  WritersOK'
<1> DEFINE p == sending[w]
<1>1. begun' = begun /\ sent' = IF copied[w] = 0 THEN Append(sent, p) ELSE sent
  BY DEF SendSome
<1>2. p \in Packets /\ p # NoPacket /\ Begun(p) /\ p.number \in Nat
  BY FreshFacts, PacketFacts DEF SendSome, WritersOK, Writing
<1>3. k > 0 /\ copied[w] + k > 0 /\ copied[w] \in Nat
  BY ConstantFacts DEF Types
<1>4. sent \in Seq(Packets) /\ Len(sent) \in Nat
  BY LenProperties DEF Types
<1>5. \A v \in Writers \ {w} : sending'[v] = sending[v] /\ copied'[v] = copied[v]
  BY CopiedFacts DEF Types
<1>6. \/ sending'[w] = NoPacket /\ copied'[w] = 0
      \/ /\ sending'[w] = p /\ copied'[w] = copied[w] + k /\ copied'[w] < Cells(p)
  BY CopiedFacts DEF Types
<1>7. \A i \in 1..Len(sent) : sent'[i] = sent[i]
  BY <1>1, <1>2, <1>4, AppendProperties
<1>8. CASE copied[w] = 0
  <2>1. Len(sent') = Len(sent) + 1 /\ sent'[Len(sent) + 1] = p
    BY <1>1, <1>2, <1>4, <1>8, AppendProperties
  <2>2. \A i \in 1..Len(sent) : sent[i].number # p.number
    BY <1>2, <1>8 DEF WritersOK, StartedIfSent
  <2>3. ASSUME NEW v \in Writers PROVE Writing(v)' /\ StartedIfSent(v)'
    <3>1. CASE v = w
      <4>1. Writing(w)'
        BY <1>1, <1>2, <1>6 DEF Writing, Begun
      <4>2. StartedIfSent(w)'
        BY <1>3, <1>4, <1>6, <2>1 DEF StartedIfSent
      <4> QED BY <3>1, <4>1, <4>2
    <3>2. CASE v # w
      <4>1. Writing(v)'
        BY <1>1, <1>5, <3>2 DEF WritersOK, Writing, Begun
      <4>2. sending[v] # NoPacket => sending[v].number # p.number
        BY <1>2, <3>2 DEF WritersOK, NumbersDiffer
      <4>3. \A i \in 1..Len(sent') : i \in 1..Len(sent) \/ i = Len(sent) + 1
        BY <1>4, <2>1
      <4>4. \A i \in 1..Len(sent) : i \in 1..Len(sent')
        BY <1>4, <2>1
      <4>5. StartedIfSent(v)'
        BY <1>5, <1>7, <2>1, <3>2, <4>2, <4>3, <4>4 DEF WritersOK, StartedIfSent
      <4> QED BY <4>1, <4>5
    <3> QED BY <3>1, <3>2
  <2>4. \A i \in 1..Len(sent') : i \in 1..Len(sent) \/ i = Len(sent) + 1
    BY <1>4, <2>1
  <2>5. (\A i \in 1..Len(sent) : Begun(sent[i]))'
    BY <1>1, <1>2, <1>7, <2>1, <2>4 DEF WritersOK, Begun
  <2>6. NumbersDiffer'
    <3>1. \A i, j \in 1..Len(sent') : i # j => sent'[i].number # sent'[j].number
      BY <1>7, <2>1, <2>2, <2>4 DEF WritersOK, NumbersDiffer
    <3>2. \A u, v \in Writers :
             u # v /\ sending'[u] # NoPacket /\ sending'[v] # NoPacket
                => sending'[u].number # sending'[v].number
      BY <1>2, <1>5, <1>6 DEF WritersOK, NumbersDiffer
    <3> QED BY <3>1, <3>2 DEF NumbersDiffer
  <2> QED BY <2>3, <2>5, <2>6 DEF WritersOK
<1>9. CASE copied[w] # 0
  <2>1. sent' = sent
    BY <1>1, <1>9
  <2>2. ASSUME NEW v \in Writers PROVE Writing(v)' /\ StartedIfSent(v)'
    <3>1. CASE v = w
      BY <1>1, <1>2, <1>3, <1>6, <1>9, <2>1, <3>1 DEF WritersOK, Writing, StartedIfSent, Begun
    <3>2. CASE v # w
      BY <1>1, <1>5, <2>1, <3>2 DEF WritersOK, Writing, StartedIfSent, Begun
    <3> QED BY <3>1, <3>2
  <2>3. NumbersDiffer'
    BY <1>2, <1>5, <1>6, <2>1 DEF WritersOK, NumbersDiffer
  <2> QED BY <1>1, <2>1, <2>2, <2>3 DEF WritersOK, Begun
<1> QED BY <1>8, <1>9

LEMMA WritersFail ==
    ASSUME Types, WritersOK, NEW w \in Writers, SendFails(w)
    PROVE  WritersOK'
<1>1. begun' = begun /\ sent' = sent
  BY DEF SendFails
<1>2. /\ sending'[w] = NoPacket /\ copied'[w] = 0
      /\ \A v \in Writers \ {w} : sending'[v] = sending[v] /\ copied'[v] = copied[v]
  BY DEF SendFails, Types
<1> QED BY <1>1, <1>2 DEF WritersOK, Writing, StartedIfSent, NumbersDiffer, Begun

LEMMA WritersStep ==
    ASSUME Types, WritersOK, [Next]_vars
    PROVE  WritersOK'
<1>1. ASSUME NEW w \in Writers, Sender(w) PROVE WritersOK'
  BY <1>1, WritersBegin, WritersSend, WritersFail DEF Sender
<1>2. CASE Hangup \/ Reader \/ UNCHANGED vars
  <2>1. UNCHANGED <<begun, sending, copied, sent>>
    BY <1>2 DEF Hangup, Reader, Receive, HeaderAccepted, HeaderRejected, Handled, Skipped,
                BodyRejected, EndOfStream, vars
  <2> QED BY <2>1 DEF WritersOK, Writing, StartedIfSent, NumbersDiffer, Begun
<1> QED BY <1>1, <1>2 DEF Next
------------------------------------------------------------------------------
\* Marks.

LEMMA MarksStart == Init => Marks
<1> SUFFICES ASSUME Init PROVE Marks
  OBVIOUS
<1>1. Len(got) = 0 /\ Len(flow) = 0
  BY EmptySeq, ConcatEmptySeq DEF Init, flow
<1> QED BY <1>1 DEF Marks, CellsAreSent, InOrder, HandledIsBehind

\* Nothing changes for the cells that stay when the reader leaves some behind.
LEMMA MarksSuffix ==
    ASSUME Marks, NEW m \in Nat, Len(flow) \in Nat, Len(flow') = Len(flow) - m,
           Len(flow') \in Nat, \A i \in 1..Len(flow') : flow'[i] = flow[i + m],
           UNCHANGED <<sending, copied, sent>>
    PROVE  /\ CellsAreSent' /\ InOrder'
           /\ got' = got => HandledIsBehind'
<1>1. \A i \in 1..Len(flow') : i + m \in 1..Len(flow)
  OBVIOUS
<1>2. \A i, j \in 1..Len(flow') : i < j => i + m < j + m
  OBVIOUS
<1>3. CellsAreSent'
  BY <1>1 DEF Marks, CellsAreSent, IsSent
<1>4. InOrder'
  <2>1. \A i, j \in 1..Len(flow') :
           i < j /\ flow'[i].packet = flow'[j].packet => flow'[i].part < flow'[j].part
    BY <1>1, <1>2 DEF Marks, InOrder
  <2>2. \A w \in Writers, i \in 1..Len(flow') :
           sending'[w] = flow'[i].packet => flow'[i].part <= copied'[w]
    BY <1>1 DEF Marks, InOrder
  <2> QED BY <2>1, <2>2 DEF InOrder
<1>5. ASSUME got' = got PROVE HandledIsBehind'
  <2>1. ASSUME NEW k \in 1..Len(got)
        PROVE  /\ IsSent(got[k])
               /\ \A i \in 1..Len(flow') :
                     flow'[i].packet = got[k] => flow'[i].part > got[k].size + 2
               /\ \A w \in Writers : sending[w] = got[k] => copied[w] >= got[k].size + 2
    <3>1. PICK q : q = got[k]
      OBVIOUS
    <3>2. /\ IsSent(q)
          /\ \A i \in 1..Len(flow) : flow[i].packet = q => flow[i].part > q.size + 2
          /\ \A w \in Writers : sending[w] = q => copied[w] >= q.size + 2
      BY <3>1 DEF Marks, HandledIsBehind
    <3>3. \A i \in 1..Len(flow') : flow'[i].packet = q => flow'[i].part > q.size + 2
      BY <1>1, <3>2
    <3> QED BY <3>1, <3>2, <3>3
  <2> QED BY <1>5, <2>1 DEF HandledIsBehind, IsSent
<1> QED BY <1>3, <1>4, <1>5

\* A body that is the text of a packet, and what is known of the packet.
LEMMA HandledFacts ==
    ASSUME Types, WritersOK, Marks, Handled, NEW p, p = taken[1].packet
    PROVE  /\ p \in Packets /\ p.size \in Nat \ {0} /\ Len(taken) = p.size + 1
           /\ \A i \in 1..p.size : taken[i] = Cell(p, i + 2)
           /\ got' = Append(got, p) /\ IsSent(p)
           /\ \A k \in 1..Len(got) : got[k] # p
           /\ taken' = <<>> /\ state' = "header" /\ need' = 2
           /\ UNCHANGED <<begun, sending, copied, stream, closed, sent, overlapped>>
<1>1. /\ taken \in Seq(CellsOnWire) /\ Len(taken) \in Nat /\ Len(taken) >= 2
      /\ Len(taken) = need
  BY LenProperties DEF Types, Handled
<1>2. taken[1] \in CellsOnWire
  BY <1>1, ElementOfSeq
<1>3. p \in Packets /\ p.size \in Nat \ {0}
  BY <1>2, PacketFacts DEF CellsOnWire
<1>4. /\ Front(taken) = [i \in 1..p.size |-> Cell(p, i + 2)] /\ got' = Append(got, p)
      /\ taken' = <<>> /\ state' = "header" /\ need' = 2
      /\ UNCHANGED <<begun, sending, copied, stream, closed, sent, overlapped>>
  BY DEF Handled, IsTextOf, Await
<1>5. Len(Front(taken)) = Len(taken) - 1 /\ \A i \in 1..(Len(taken) - 1) : Front(taken)[i] = taken[i]
  <2>1. \A i \in 1..(Len(taken) - 1) : taken[i] \in CellsOnWire
    BY <1>1, ElementOfSeq
  <2>2. /\ Len(SubSeq(taken, 1, Len(taken) - 1)) = Len(taken) - 1
        /\ \A i \in 1..(Len(taken) - 1) : SubSeq(taken, 1, Len(taken) - 1)[i] = taken[i]
    BY <1>1, <2>1, SubSeqProperties
  <2> QED BY <2>2 DEF Front
<1>6. Len(taken) = p.size + 1
  <2>1. Len([i \in 1..p.size |-> Cell(p, i + 2)]) = p.size
    BY <1>3
  <2>2. Len(Front(taken)) = p.size
    BY <1>4, <2>1
  <2> QED BY <1>1, <1>3, <1>5, <2>2
<1>7. \A i \in 1..p.size : taken[i] = Cell(p, i + 2)
  <2>1. \A i \in 1..p.size : Front(taken)[i] = Cell(p, i + 2)
    BY <1>4
  <2>2. \A i \in 1..p.size : Front(taken)[i] = taken[i]
    BY <1>3, <1>5, <1>6
  <2> QED BY <2>1, <2>2
<1>8. 1 \in 1..Len(flow) /\ flow[1] = taken[1]
  BY <1>1, FlowFacts
<1>9. IsSent(p)
  BY <1>8 DEF Marks, CellsAreSent
<1>10. ASSUME NEW k \in 1..Len(got) PROVE got[k] # p
  <2>1. taken[1] = Cell(p, 1 + 2)
    BY <1>3, <1>7
  <2>2. taken[1].part = 3
    BY <2>1 DEF Cell
  <2>3. got[k] = p => taken[1].part > p.size + 2
    BY <1>8 DEF Marks, HandledIsBehind
  <2> QED BY <1>3, <2>2, <2>3
<1> QED BY <1>3, <1>4, <1>6, <1>7, <1>9, <1>10

LEMMA MarksHandled ==
    ASSUME Types, WritersOK, Marks, Handled
    PROVE  Marks'
<1>0. PICK p : p = taken[1].packet
  OBVIOUS
<1>1. /\ p \in Packets /\ p.size \in Nat \ {0} /\ Len(taken) = p.size + 1
      /\ \A i \in 1..p.size : taken[i] = Cell(p, i + 2)
      /\ got' = Append(got, p) /\ IsSent(p)
      /\ taken' = <<>> /\ UNCHANGED <<begun, sending, copied, stream, closed, sent, overlapped>>
  BY <1>0, HandledFacts
<1>2. /\ Len(flow') = Len(flow) - Len(taken) /\ Len(flow') \in Nat /\ Len(flow) \in Nat
      /\ Len(taken) \in Nat
      /\ \A i \in 1..Len(flow') : flow'[i] = flow[i + Len(taken)]
  BY <1>1, LeavesTaken, FlowFacts, LenProperties DEF Types
<1>3. CellsAreSent' /\ InOrder'
  BY <1>1, <1>2, MarksSuffix
<1>4. /\ Len(got) \in Nat /\ Len(got') = Len(got) + 1 /\ got'[Len(got) + 1] = p
      /\ \A k \in 1..Len(got) : got'[k] = got[k]
  BY <1>1, AppendProperties, LenProperties DEF Types
\* The last cell of the text, with which the others of p are compared.
<1>5. /\ p.size \in 1..Len(flow) /\ flow[p.size].packet = p
      /\ flow[p.size].part = p.size + 2
  <2>1. p.size \in 1..p.size /\ p.size \in 1..Len(taken) /\ p.size \in 1..Len(flow)
    BY <1>1, <1>2
  <2>2. flow[p.size] = Cell(p, p.size + 2)
    BY <1>1, <2>1, FlowFacts
  <2> QED BY <2>1, <2>2 DEF Cell
<1>6. ASSUME NEW k \in 1..Len(got')
      PROVE  /\ IsSent(got[k])'
             /\ \A i \in 1..Len(flow') :
                   flow'[i].packet = got'[k] => flow'[i].part > got'[k].size + 2
             /\ \A w \in Writers : sending'[w] = got'[k] => copied'[w] >= got'[k].size + 2
  <2>1. CASE k \in 1..Len(got)
    <3>1. \A i \in 1..Len(flow') : i + Len(taken) \in 1..Len(flow)
      BY <1>2
    <3>2. PICK q : q = got[k]
      OBVIOUS
    <3>3. /\ got'[k] = q /\ IsSent(q)
          /\ \A i \in 1..Len(flow) : flow[i].packet = q => flow[i].part > q.size + 2
          /\ \A w \in Writers : sending[w] = q => copied[w] >= q.size + 2
      BY <1>4, <2>1, <3>2 DEF Marks, HandledIsBehind
    <3>4. \A i \in 1..Len(flow') : flow'[i].packet = q => flow'[i].part > q.size + 2
      BY <1>2, <3>1, <3>3
    <3> QED BY <1>1, <3>3, <3>4 DEF IsSent
  <2>2. CASE k = Len(got) + 1
    <3>1. got'[k] = p
      BY <1>4, <2>2
    <3>2. ASSUME NEW i \in 1..Len(flow'), flow'[i].packet = p
          PROVE  flow'[i].part > p.size + 2
      <4>1. /\ i + Len(taken) \in 1..Len(flow) /\ p.size < i + Len(taken)
            /\ flow[i + Len(taken)].packet = p
        <5>1. flow'[i] = flow[i + Len(taken)]
          BY <1>2, <3>2
        <5>2. i + Len(taken) \in 1..Len(flow) /\ p.size < i + Len(taken)
          <6>1. /\ Len(flow) \in Nat /\ Len(taken) \in Nat
                /\ Len(flow') = Len(flow) - Len(taken)
            BY <1>2
          <6>2. p.size \in Nat /\ Len(taken) = p.size + 1
            BY <1>1
          <6> QED BY <6>1, <6>2
        <5> QED BY <3>2, <5>1, <5>2
      <4>2. flow[p.size].part < flow[i + Len(taken)].part
        BY <1>5, <4>1 DEF Marks, InOrder
      <4>3. flow[i + Len(taken)].part \in Nat
        <5>1. flow[i + Len(taken)] \in CellsOnWire
          BY <4>1, FlowFacts, ElementOfSeq
        <5> QED BY <5>1, ConstantFacts DEF CellsOnWire
      <4> QED BY <1>1, <1>2, <1>5, <4>2, <4>3
    <3>3. \A w \in Writers : sending[w] = p => copied[w] >= p.size + 2
      BY <1>1, <1>5 DEF Marks, InOrder, Types
    <3> QED BY <1>1, <3>1, <3>2, <3>3 DEF IsSent
  <2> QED BY <1>4, <2>1, <2>2
<1>7. HandledIsBehind'
  BY <1>6 DEF HandledIsBehind, IsSent
<1> QED BY <1>3, <1>7 DEF Marks

LEMMA MarksBegin ==
    ASSUME Types, WritersOK, Marks, NEW w \in Writers, NEW n \in Sizes, SendBegin(w, n)
    PROVE  Marks'
<1>1. /\ flow' = flow /\ UNCHANGED <<copied, sent, got>>
  BY DEF SendBegin, reader, flow
<1>2. /\ \A v \in Writers \ {w} : sending'[v] = sending[v]
      /\ sending'[w].number = begun + 1
  BY DEF SendBegin, Types
<1>3. ASSUME NEW p, IsSent(p) PROVE sending'[w] # p
  <2>1. p.number <= begun /\ p.number \in Nat
    BY <1>3, PacketFacts DEF IsSent, WritersOK, Begun
  <2> QED BY <1>2, <2>1 DEF Types
<1>4. CellsAreSent'
  BY <1>1 DEF Marks, CellsAreSent, IsSent
<1>5. InOrder'
  <2>1. \A v \in Writers, i \in 1..Len(flow) :
           sending'[v] = flow[i].packet => flow[i].part <= copied[v]
    BY <1>2, <1>3 DEF Marks, CellsAreSent, InOrder
  <2> QED BY <1>1, <2>1 DEF Marks, InOrder
<1>6. HandledIsBehind'
  <2>1. \A k \in 1..Len(got), v \in Writers :
           sending'[v] = got[k] => copied[v] >= got[k].size + 2
    BY <1>2, <1>3 DEF Marks, HandledIsBehind
  <2> QED BY <1>1, <2>1 DEF Marks, HandledIsBehind, IsSent
<1> QED BY <1>4, <1>5, <1>6 DEF Marks

LEMMA MarksSend ==
    ASSUME Types, WritersOK, Marks, NEW w \in Writers, NEW k \in 1..Room, SendSome(w, k)
    PROVE  Marks'
<1>0. PICK p : p = sending[w]
  OBVIOUS
<1>1. PICK c : c = copied[w]
  OBVIOUS
<1>2. PICK m : m = Len(flow)
  OBVIOUS
<1>3. /\ p \in Packets /\ p # NoPacket /\ p.size \in Nat /\ c \in Nat /\ k \in Nat \ {0}
      /\ c + k <= p.size + 3 /\ Cells(p) = p.size + 3
  BY <1>0, <1>1, FreshFacts, PacketFacts, ConstantFacts DEF SendSome, Types, Cells
<1>4. /\ m \in Nat /\ Len(flow') = m + k
      /\ \A i \in 1..m : flow'[i] = flow[i]
      /\ \A i \in 1..k : flow'[m + i] = Cell(p, c + i)
  BY <1>0, <1>1, <1>2, SendGrowsFlow
<1>5. \A i \in 1..(m + k) : i \in 1..m \/ (i - m \in 1..k /\ i = m + (i - m))
  BY <1>3, <1>4
<1>6. ASSUME NEW i \in 1..(m + k), i \notin 1..m
      PROVE  flow'[i].packet = p /\ flow'[i].part = c + (i - m)
  <2>1. i - m \in 1..k /\ flow'[i] = flow'[m + (i - m)]
    BY <1>5, <1>6
  <2>2. flow'[i] = Cell(p, c + (i - m))
    BY <2>1, <1>4
  <2> QED BY <2>2 DEF Cell
<1>7. got' = got /\ Len(sent) \in Nat
  BY LenProperties DEF SendSome, Types
<1>8. IsSent(p)' /\ \A q : IsSent(q) => IsSent(q)'
  <2>1. CASE c = 0
    <3>1. sent' = Append(sent, p)
      BY <1>0, <1>1, <2>1 DEF SendSome
    <3>2. /\ Len(sent') = Len(sent) + 1 /\ sent'[Len(sent) + 1] = p
          /\ \A i \in 1..Len(sent) : sent'[i] = sent[i]
      BY <1>3, <3>1, AppendProperties DEF Types
    <3> QED BY <1>7, <3>2 DEF IsSent
  <2>2. CASE c # 0
    <3>1. sent' = sent
      BY <1>1, <2>2 DEF SendSome
    <3>2. IsSent(p)
      BY <1>0, <1>1, <1>3, <2>2 DEF WritersOK, StartedIfSent, IsSent
    <3> QED BY <3>1, <3>2 DEF IsSent
  <2> QED BY <2>1, <2>2
<1>9. /\ \A v \in Writers \ {w} : sending'[v] = sending[v] /\ copied'[v] = copied[v]
      /\ sending'[w] # NoPacket => sending'[w] = p /\ copied'[w] = c + k
  BY <1>0, <1>1, CopiedFacts DEF Types
<1>10. \A v \in Writers \ {w} : sending'[v] # p
  BY <1>0, <1>3, <1>9 DEF WritersOK, NumbersDiffer
<1>11. \A i \in 1..m : flow[i].packet \in Packets /\ flow[i].part \in Nat
  <2>1. \A i \in 1..m : flow[i] \in CellsOnWire
    BY <1>2, FlowFacts, ElementOfSeq
  <2> QED BY <2>1, ConstantFacts DEF CellsOnWire
<1>12. CellsAreSent'
  <2>1. ASSUME NEW i \in 1..Len(flow')
        PROVE  IsSent(flow[i].packet)' /\ flow'[i].part <= Cells(flow'[i].packet)
    <3>1. CASE i \in 1..m
      <4>1. IsSent(flow[i].packet) /\ flow[i].part <= Cells(flow[i].packet)
        BY <1>2, <3>1 DEF Marks, CellsAreSent
      <4> QED BY <1>4, <1>8, <3>1, <4>1 DEF IsSent
    <3>2. CASE i \notin 1..m
      <4>1. flow'[i].packet = p /\ flow'[i].part = c + (i - m) /\ i - m <= k
        BY <1>3, <1>4, <1>6, <3>2
      <4>2. c + (i - m) <= Cells(p)
        BY <1>3, <1>4, <3>2
      <4> QED BY <1>8, <4>1, <4>2 DEF IsSent
    <3> QED BY <3>1, <3>2
  <2> QED BY <2>1 DEF CellsAreSent, IsSent
<1>13. ASSUME NEW i \in 1..Len(flow'), NEW j \in 1..Len(flow'),
              i < j, flow'[i].packet = flow'[j].packet
       PROVE  flow'[i].part < flow'[j].part
  <2>1. CASE j \in 1..m
    <3>1. i \in 1..m
      BY <1>4, <1>13, <2>1
    <3>2. flow'[i] = flow[i] /\ flow'[j] = flow[j] /\ i \in 1..Len(flow) /\ j \in 1..Len(flow)
      BY <1>2, <1>4, <2>1, <3>1
    <3> QED BY <1>13, <3>2 DEF Marks, InOrder
  <2>2. CASE i \in 1..m /\ j \notin 1..m
    <3>1. flow'[j].packet = p /\ flow'[j].part = c + (j - m) /\ j - m >= 1
      BY <1>3, <1>4, <1>6, <2>2
    <3>2. flow[i].part <= c
      BY <1>0, <1>1, <1>2, <1>4, <1>13, <2>2, <3>1 DEF Marks, InOrder
    <3> QED BY <1>3, <1>4, <1>11, <2>2, <3>1, <3>2
  <2>3. CASE i \notin 1..m /\ j \notin 1..m
    <3>1. flow'[i].part = c + (i - m) /\ flow'[j].part = c + (j - m)
      BY <1>4, <1>6, <2>3
    <3> QED BY <1>3, <1>4, <1>13, <3>1
  <2> QED BY <2>1, <2>2, <2>3
<1>14. ASSUME NEW v \in Writers, NEW i \in 1..Len(flow'), sending'[v] = flow'[i].packet
       PROVE  flow'[i].part <= copied'[v]
  <2>1. CASE i \in 1..m
    <3>1. sending'[v] = flow[i].packet /\ flow'[i] = flow[i] /\ sending'[v] # NoPacket
      BY <1>4, <1>11, <1>14, <2>1, WireAssumption
    <3>2. CASE v = w
      <4>1. flow[i].part <= c /\ copied'[w] = c + k
        BY <1>0, <1>1, <1>2, <1>9, <2>1, <3>1, <3>2 DEF Marks, InOrder
      <4> QED BY <1>3, <1>11, <2>1, <3>1, <3>2, <4>1
    <3>3. CASE v # w
      BY <1>2, <1>9, <2>1, <3>1, <3>3 DEF Marks, InOrder
    <3> QED BY <3>2, <3>3
  <2>2. CASE i \notin 1..m
    <3>1. flow'[i].packet = p /\ flow'[i].part = c + (i - m)
      BY <1>4, <1>6, <2>2
    <3>2. v = w /\ copied'[w] = c + k
      BY <1>3, <1>9, <1>10, <1>14, <3>1
    <3> QED BY <1>3, <1>4, <3>1, <3>2
  <2> QED BY <2>1, <2>2
<1>15. ASSUME NEW h \in 1..Len(got)
       PROVE  /\ IsSent(got[h])'
              /\ \A i \in 1..Len(flow') :
                    flow'[i].packet = got[h] => flow'[i].part > got[h].size + 2
              /\ \A v \in Writers : sending'[v] = got[h] => copied'[v] >= got[h].size + 2
  <2>0. PICK q : q = got[h]
    OBVIOUS
  <2>1. /\ q \in Packets /\ q # NoPacket /\ q.size \in Nat /\ IsSent(q)
        /\ \A i \in 1..m : flow[i].packet = q => flow[i].part > q.size + 2
        /\ \A v \in Writers : sending[v] = q => copied[v] >= q.size + 2
    <3>1. q \in Packets
      BY <2>0, ElementOfSeq DEF Types
    <3> QED BY <2>0, <3>1, <1>2, PacketFacts, WireAssumption DEF Marks, HandledIsBehind
  <2>2. IsSent(got[h])'
    BY <1>7, <1>8, <2>0, <2>1 DEF IsSent
  <2>3. ASSUME NEW i \in 1..Len(flow'), flow'[i].packet = q
        PROVE  flow'[i].part > q.size + 2
    <3>1. CASE i \in 1..m
      BY <1>4, <2>1, <2>3, <3>1
    <3>2. CASE i \notin 1..m
      <4>1. flow'[i].packet = p /\ flow'[i].part = c + (i - m) /\ i - m >= 1
        BY <1>3, <1>4, <1>6, <3>2
      <4>2. c >= q.size + 2
        BY <1>0, <1>1, <2>1, <2>3, <4>1
      <4> QED BY <1>3, <1>4, <2>1, <4>1, <4>2
    <3> QED BY <3>1, <3>2
  <2>4. ASSUME NEW v \in Writers, sending'[v] = q
        PROVE  copied'[v] >= q.size + 2
    <3>1. CASE v = w
      <4>1. copied'[w] = c + k /\ q = p
        BY <1>9, <2>1, <2>4, <3>1
      <4>2. c >= q.size + 2
        BY <1>0, <1>1, <2>1, <4>1
      <4> QED BY <1>3, <2>1, <3>1, <4>1, <4>2
    <3>2. CASE v # w
      BY <1>9, <2>1, <2>4, <3>2
    <3> QED BY <3>1, <3>2
  <2> QED BY <2>0, <2>2, <2>3, <2>4
<1>16. InOrder'
  BY <1>13, <1>14 DEF InOrder
<1>17. HandledIsBehind'
  BY <1>7, <1>15 DEF HandledIsBehind, IsSent
<1> QED BY <1>12, <1>16, <1>17 DEF Marks

LEMMA MarksFail ==
    ASSUME Types, Marks, NEW w \in Writers, SendFails(w)
    PROVE  Marks'
<1>1. flow' = flow /\ UNCHANGED <<sent, got>>
  BY DEF SendFails, reader, flow
<1>2. /\ sending'[w] = NoPacket
      /\ \A v \in Writers \ {w} : sending'[v] = sending[v] /\ copied'[v] = copied[v]
  BY DEF SendFails, Types
<1>3. \A i \in 1..Len(flow) : flow[i].packet \in Packets
  <2>1. \A i \in 1..Len(flow) : flow[i] \in CellsOnWire
    BY FlowFacts, ElementOfSeq
  <2> QED BY <2>1 DEF CellsOnWire
<1>4. \A k \in 1..Len(got) : got[k] \in Packets
  BY ElementOfSeq DEF Types
<1>5. CellsAreSent'
  BY <1>1 DEF Marks, CellsAreSent, IsSent
<1>6. InOrder'
  <2>1. \A v \in Writers, i \in 1..Len(flow) :
           sending'[v] = flow[i].packet => flow[i].part <= copied'[v]
    BY <1>2, <1>3, WireAssumption DEF Marks, InOrder
  <2> QED BY <1>1, <2>1 DEF Marks, InOrder
<1>7. HandledIsBehind'
  <2>1. \A k \in 1..Len(got), v \in Writers :
           sending'[v] = got[k] => copied'[v] >= got[k].size + 2
    BY <1>2, <1>4, WireAssumption DEF Marks, HandledIsBehind
  <2> QED BY <1>1, <2>1 DEF Marks, HandledIsBehind, IsSent
<1> QED BY <1>5, <1>6, <1>7 DEF Marks

LEMMA MarksStep ==
    ASSUME Types, WritersOK, Marks, [Next]_vars
    PROVE  Marks'
<1>1. ASSUME NEW w \in Writers, Sender(w) PROVE Marks'
  BY <1>1, MarksBegin, MarksSend, MarksFail DEF Sender
<1>2. CASE Receive \/ Hangup \/ UNCHANGED vars
  <2>1. flow' = flow
    BY <1>2, ReceiveKeepsFlow DEF Hangup, reader, vars, flow
  <2>2. UNCHANGED <<sending, copied, sent, got>>
    BY <1>2 DEF Receive, Hangup, vars
  <2> QED BY <2>1, <2>2 DEF Marks, CellsAreSent, InOrder, HandledIsBehind, IsSent
<1>3. CASE \/ HeaderAccepted \/ HeaderRejected \/ Skipped \/ BodyRejected \/ EndOfStream
  <2>1. taken' = <<>> /\ UNCHANGED <<sending, copied, stream, sent, got>>
    BY <1>3 DEF HeaderAccepted, HeaderRejected, Skipped, BodyRejected, EndOfStream, Await
  <2>2. /\ Len(flow') = Len(flow) - Len(taken) /\ Len(flow') \in Nat /\ Len(flow) \in Nat
        /\ Len(taken) \in Nat
        /\ \A i \in 1..Len(flow') : flow'[i] = flow[i + Len(taken)]
    BY <2>1, LeavesTaken, FlowFacts, LenProperties DEF Types
  <2> QED BY <2>1, <2>2, MarksSuffix DEF Marks
<1>4. CASE Handled
  BY <1>4, MarksHandled
<1> QED BY <1>1, <1>2, <1>3, <1>4 DEF Next, Reader
------------------------------------------------------------------------------
\* The line.

LEMMA Prefixed ==
    ASSUME NEW S, NEW s \in Seq(S), NEW a, NEW b
    PROVE  /\ Len(<<a, b>> \o s) = Len(s) + 2
           /\ (<<a, b>> \o s)[1] = a /\ (<<a, b>> \o s)[2] = b
           /\ \A i \in 1..Len(s) : (<<a, b>> \o s)[i + 2] = s[i]
           /\ <<a, b>> \o s # <<>>
<1> DEFINE T == S \cup {a, b}
<1>1. s \in Seq(T) /\ Len(s) \in Nat
  BY SeqMonotonic, LenProperties
<1>2. <<a, b>> \in Seq(T) /\ Len(<<a, b>>) = 2
  OBVIOUS
<1>3. /\ <<a, b>> \o s \in Seq(T) /\ Len(<<a, b>> \o s) = 2 + Len(s)
      /\ \A i \in 1..(2 + Len(s)) :
            (<<a, b>> \o s)[i] = IF i <= 2 THEN <<a, b>>[i] ELSE s[i - 2]
  BY <1>1, <1>2, ConcatProperties
<1>4. Len(<<>>) = 0
  BY EmptySeq
<1>5. \A i \in 1..Len(s) : i + 2 \in 1..(2 + Len(s)) /\ (i + 2) - 2 = i /\ ~ (i + 2 <= 2)
  BY <1>1
<1>6. \A i \in 1..Len(s) : (<<a, b>> \o s)[i + 2] = s[i]
  BY <1>3, <1>5
<1>7. (<<a, b>> \o s)[1] = a /\ (<<a, b>> \o s)[2] = b
  BY <1>1, <1>3
<1> QED BY <1>1, <1>3, <1>4, <1>6, <1>7

\* How many cells of the line are before the flow.
Behind == IF state = "body" THEN 2 ELSE 0

LEMMA LineFacts ==
    ASSUME Types
    PROVE  /\ Len(line) = Behind + Len(flow) /\ Len(line) \in Nat /\ Len(flow) \in Nat
           /\ Read = Behind + Len(taken) /\ Read \in Nat /\ Read <= Len(line)
           /\ \A i \in 1..Len(flow) : line[Behind + i] = flow[i]
           /\ Behind = 2 => line[1] = Cell(current, 1) /\ line[2] = Cell(current, 2)
           /\ line = <<>> <=> Len(line) = 0
<1>1. /\ flow \in Seq(CellsOnWire) /\ Len(flow) = Len(taken) + Len(stream)
      /\ Len(taken) \in Nat /\ Len(stream) \in Nat /\ Len(flow) \in Nat
  BY FlowFacts
<1>2. Len(<<>>) = 0 /\ (flow # <<>> => Len(flow) \in Nat \ {0})
  BY <1>1, EmptySeq
<1>3. CASE state = "body"
  <2>1. line = <<Cell(current, 1), Cell(current, 2)>> \o flow /\ Behind = 2
        /\ Read = Len(taken) + 2
    BY <1>3 DEF line, Behind, Read
  <2>2. /\ Len(line) = Len(flow) + 2 /\ line # <<>>
        /\ line[1] = Cell(current, 1) /\ line[2] = Cell(current, 2)
        /\ \A i \in 1..Len(flow) : line[i + 2] = flow[i]
    <3>1. PICK a, b : a = Cell(current, 1) /\ b = Cell(current, 2)
      OBVIOUS
    <3>2. line = <<a, b>> \o flow
      BY <2>1, <3>1
    <3>3. /\ Len(<<a, b>> \o flow) = Len(flow) + 2 /\ <<a, b>> \o flow # <<>>
          /\ (<<a, b>> \o flow)[1] = a /\ (<<a, b>> \o flow)[2] = b
          /\ \A i \in 1..Len(flow) : (<<a, b>> \o flow)[i + 2] = flow[i]
      BY <1>1, Prefixed
    <3> QED BY <3>1, <3>2, <3>3
  <2> QED BY <1>1, <2>1, <2>2
<1>4. CASE state # "body"
  <2>1. line = flow /\ Behind = 0 /\ Read = Len(taken)
    BY <1>4 DEF line, Behind, Read
  <2>2. \A i \in 1..Len(flow) : Behind + i = i
    BY <1>1, <2>1
  <2> QED BY <1>1, <1>2, <2>1, <2>2
<1> QED BY <1>3, <1>4

\* The packet that the reader is in has been sent, and its number is its own.
LEMMA CurrentFacts ==
    ASSUME Types, WritersOK, LineStarts, line # <<>>
    PROVE  /\ Len(got) \in Nat /\ Len(sent) \in Nat /\ Len(got) + 1 \in 1..Len(sent)
           /\ current \in Packets /\ Begun(current)
           /\ current.size \in 1..MaxSize /\ Cells(current) = current.size + 3
           /\ \A k \in 1..Len(sent) : sent[k] = current => k = Len(got) + 1
<1>1. Len(got) \in Nat /\ Len(sent) \in Nat /\ Len(got) < Len(sent)
  BY LenProperties DEF Types, LineStarts
<1>2. Len(got) + 1 \in 1..Len(sent)
  BY <1>1
<1>3. Begun(current)
  BY <1>2 DEF WritersOK, current
<1>4. current \in Packets /\ current.size <= MaxSize
  BY <1>3 DEF Begun
<1>5. current.size \in 1..MaxSize
  BY <1>4, PacketFacts, ConstantFacts
<1>6. \A k \in 1..Len(sent) : sent[k] = current => k = Len(got) + 1
  BY <1>2 DEF WritersOK, NumbersDiffer, current
<1> QED BY <1>1, <1>2, <1>3, <1>4, <1>5, <1>6 DEF Cells

\* A reader that has two cells of a header has the prefix of one packet.
LEMMA HeaderIsWhole ==
    ASSUME Types, WritersOK, Straight, state = "header", Len(taken) = need
    PROVE  /\ taken = <<Cell(current, 1), Cell(current, 2)>> /\ line # <<>>
           /\ Lengths = {current.size} /\ Acceptable(current.size)
<1>1. LineStarts /\ LineFollows /\ ReaderInLine /\ Len(taken) = 2
  BY DEF Straight, Types
<1>2. line = flow /\ Read = 2
  BY <1>1 DEF line, Read
<1>3. line # <<>>
  BY <1>2, LineFacts
<1>4. taken[1] = Cell(current, 1) /\ taken[2] = Cell(current, 2)
  <2>1. line[1] = Cell(current, 1) /\ line[2] = Cell(current, 2)
    BY <1>1, <1>2 DEF ReaderInLine
  <2>2. flow[1] = taken[1] /\ flow[2] = taken[2]
    BY <1>1, FlowFacts
  <2> QED BY <1>2, <2>1, <2>2
<1>5. taken = <<Cell(current, 1), Cell(current, 2)>>
  <2>1. taken = [i \in 1..2 |-> taken[i]]
    BY <1>1, LenProperties DEF Types
  <2> QED BY <1>4, <2>1
<1>6. current.size \in 1..MaxSize /\ Cells(current) = current.size + 3
  BY <1>1, <1>3, CurrentFacts
<1>7. Kind(taken[1]) = "upper" /\ Kind(taken[2]) = "lower" /\ taken[2].packet = current
  BY <1>4, <1>6, ConstantFacts DEF Kind, Cell
<1>8. Lengths = {current.size}
  BY <1>7 DEF Lengths
<1>9. Acceptable(current.size)
  BY <1>6, ConstantFacts DEF Acceptable
<1> QED BY <1>3, <1>5, <1>8, <1>9

\* A reader that has all the cells it waits for in a body has the text of one
\* packet and its delimiter.
LEMMA BodyIsWhole ==
    ASSUME Types, WritersOK, Straight, state = "body", Len(taken) = need
    PROVE  /\ Delimited /\ IsTextOf(Front(taken), current)
           /\ taken[1].packet = current /\ line # <<>>
           /\ Read = Cells(current) /\ line[Cells(current)] = Cell(current, Cells(current))
<1>1. LineStarts /\ LineFollows /\ ReaderInLine /\ need = current.size + 1
  BY DEF Straight, ReaderInLine
<1>2. Behind = 2 /\ Read = Len(taken) + 2
  BY DEF Behind, Read
<1>3. line # <<>> /\ Read <= Len(line)
  BY <1>2, LineFacts
<1>4. PICK n : n = current.size
  OBVIOUS
<1>5. n \in 1..MaxSize /\ Cells(current) = n + 3 /\ Len(taken) = n + 1 /\ n \in Nat
  BY <1>1, <1>3, <1>4, CurrentFacts, ConstantFacts
<1>6. \A i \in 1..(n + 1) : taken[i] = Cell(current, i + 2)
  <2>1. ASSUME NEW i \in 1..(n + 1) PROVE taken[i] = Cell(current, i + 2)
    <3>1. i \in 1..Len(taken) /\ i \in 1..Len(flow) /\ i + 2 \in 1..Read
      BY <1>2, <1>5, FlowFacts
    <3>2. line[i + 2] = flow[i] /\ flow[i] = taken[i]
      BY <1>2, <3>1, LineFacts, FlowFacts
    <3>3. line[i + 2] = Cell(current, i + 2)
      BY <1>1, <3>1 DEF ReaderInLine
    <3> QED BY <3>2, <3>3
  <2> QED BY <2>1
<1>7. Delimited
  <2>1. Last(taken) = Cell(current, n + 3)
    BY <1>5, <1>6 DEF Last
  <2>2. Kind(Last(taken)) = "end"
    BY <1>5, <2>1 DEF Kind, Cell
  <2> QED BY <2>2 DEF Delimited
<1>8. taken[1].packet = current
  BY <1>5, <1>6 DEF Cell
<1>9. Front(taken) = [i \in 1..n |-> Cell(current, i + 2)]
  <2>1. \A i \in 1..n : taken[i] \in CellsOnWire
    BY <1>5, ElementOfSeq DEF Types
  <2>2. /\ Front(taken) \in Seq(CellsOnWire) /\ Len(Front(taken)) = n
        /\ \A i \in 1..n : Front(taken)[i] = taken[i]
    <3>1. /\ SubSeq(taken, 1, n) \in Seq(CellsOnWire) /\ Len(SubSeq(taken, 1, n)) = n
          /\ \A i \in 1..n : SubSeq(taken, 1, n)[i] = taken[i]
      BY <1>5, <2>1, SubSeqProperties
    <3>2. Front(taken) = SubSeq(taken, 1, n)
      BY <1>5 DEF Front
    <3> QED BY <3>1, <3>2
  <2>3. Front(taken) = [i \in 1..n |-> Front(taken)[i]]
    BY <1>5, <2>2, LenProperties
  <2> QED BY <1>5, <1>6, <2>2, <2>3
<1>10. Read = Cells(current) /\ line[Read] = Cell(current, Read)
  BY <1>1, <1>2, <1>5 DEF ReaderInLine
<1> QED BY <1>3, <1>4, <1>7, <1>8, <1>9, <1>10 DEF IsTextOf
------------------------------------------------------------------------------
\* Straight: the reader.

LEMMA StraightStart == Init => Straight
<1> SUFFICES ASSUME Init PROVE Straight
  OBVIOUS
<1>1. /\ line = <<>> /\ Read = 0 /\ Len(line) = 0 /\ Len(got) = 0 /\ Len(sent) = 0
      /\ state = "header" /\ \A w \in Writers : copied[w] = 0
  <2>1. flow = <<>>
    BY EmptySeq, ConcatEmptySeq DEF Init, flow
  <2> QED BY <2>1, EmptySeq DEF Init, line, Read
<1> QED BY <1>1 DEF Straight, InTurn, LineStarts, LineFollows, ReaderInLine, LineEnds

LEMMA StraightReceive ==
    ASSUME Types, WritersOK, Straight, Receive
    PROVE  Straight'
<1>1. /\ state # "stopped" /\ InTurn /\ LineStarts /\ LineFollows /\ ReaderInLine
      /\ closed \/ LineEnds
  BY DEF Receive, Straight
<1>2. UNCHANGED <<sending, copied, closed, state, need, sent, got>>
  BY DEF Receive
<1>3. current' = current /\ line' = line
  BY <1>2, ReceiveKeepsFlow DEF current, line
<1>4. Len(taken') = Len(taken) + 1 /\ Len(taken) < need /\ Len(stream) # 0
  BY MoveHead, EmptySeq DEF Types, Receive
<1>5. Read' = Read + 1 /\ Read + 1 <= Len(line) /\ Read \in Nat /\ line # <<>>
  <2>1. Len(taken) \in Nat /\ Len(stream) \in Nat /\ Len(flow) = Len(taken) + Len(stream)
    BY FlowFacts
  <2>2. Len(line) = Behind + Len(flow) /\ Read = Behind + Len(taken) /\ Behind \in {0, 2}
    BY LineFacts DEF Behind
  <2>3. Read' = Read + 1
    BY <1>2, <1>4, <2>1 DEF Read
  <2>4. Read + 1 <= Len(line) /\ Read \in Nat /\ Len(line) # 0
    BY <1>4, <2>1, <2>2
  <2> QED BY <2>3, <2>4, EmptySeq
<1>6. Read < Cells(current)
  <2>1. current.size \in 1..MaxSize /\ Cells(current) = current.size + 3
    BY <1>1, <1>5, CurrentFacts
  <2>2. Len(taken) \in Nat
    BY FlowFacts
  <2>3. CASE state = "body"
    BY <1>1, <1>4, <2>1, <2>2, <2>3, ConstantFacts DEF ReaderInLine, Read
  <2>4. CASE state = "header"
    BY <1>4, <2>1, <2>2, <2>4, ConstantFacts DEF Types, Read
  <2> QED BY <1>1, <2>3, <2>4 DEF Types
<1>7. line[Read + 1] = Cell(current, Read + 1)
  <2>1. CASE Read = 0
    BY <1>1, <1>5, <2>1 DEF LineStarts
  <2>2. CASE Read > 0
    <3>1. line[Read] = Cell(current, Read) /\ Read \in 1..(Len(line) - 1)
      BY <1>1, <1>5, <2>2, LineFacts DEF ReaderInLine
    <3>2. line[Read].packet = current /\ line[Read].part = Read
      BY <3>1 DEF Cell
    <3> QED BY <1>1, <1>6, <3>1, <3>2 DEF LineFollows, Follows
  <2> QED BY <1>5, <2>1, <2>2
<1>8. \A i \in 1..Read' : line[i] = Cell(current, i)
  <2>1. \A i \in 1..Read' : i \in 1..Read \/ i = Read + 1
    BY <1>5
  <2> QED BY <1>1, <1>7, <2>1 DEF ReaderInLine
<1>9. ReaderInLine'
  BY <1>1, <1>2, <1>3, <1>8 DEF ReaderInLine
<1>10. InTurn' /\ LineStarts' /\ LineFollows' /\ (closed \/ LineEnds)'
  BY <1>1, <1>2, <1>3 DEF InTurn, LineStarts, LineFollows, Follows, LineEnds
<1> QED BY <1>1, <1>2, <1>9, <1>10 DEF Straight

\* The prefix goes over to what the reader has left behind.
LEMMA StraightHeader ==
    ASSUME Types, WritersOK, Straight, HeaderAccepted
    PROVE  Straight'
<1>1. /\ state = "header" /\ Len(taken) = need /\ taken' = <<>> /\ state' = "body"
      /\ UNCHANGED <<begun, sending, copied, stream, closed, sent, got>>
      /\ \E n \in Lengths : need' = n + 1
  BY DEF HeaderAccepted, Await
<1>2. /\ InTurn /\ LineStarts /\ LineFollows /\ ReaderInLine
      /\ closed \/ LineEnds
  BY <1>1 DEF Straight
<1>3. /\ taken = <<Cell(current, 1), Cell(current, 2)>> /\ line # <<>>
      /\ Lengths = {current.size}
  BY <1>1, HeaderIsWhole
<1>4. need' = current.size + 1 /\ current' = current
  BY <1>1, <1>3 DEF current
<1>5. line' = line
  <2>1. flow' = stream
    BY <1>1, LeavesTaken
  <2>2. line' = <<Cell(current, 1), Cell(current, 2)>> \o stream
    BY <1>1, <1>4, <2>1 DEF line, Cell
  <2> QED BY <1>1, <1>3, <2>2 DEF line, flow
<1>6. Read' = 2 /\ Read = 2
  BY <1>1, EmptySeq DEF Read, Types
<1>7. ReaderInLine'
  BY <1>1, <1>2, <1>4, <1>5, <1>6 DEF ReaderInLine
<1>8. InTurn' /\ LineStarts' /\ LineFollows' /\ (closed \/ LineEnds)'
  BY <1>1, <1>2, <1>4, <1>5 DEF InTurn, LineStarts, LineFollows, Follows, LineEnds
<1> QED BY <1>1, <1>7, <1>8 DEF Straight

\* The line begins with the next packet.
LEMMA StraightHandled ==
    ASSUME Types, WritersOK, Marks, Straight, Handled
    PROVE  /\ Straight'
           /\ Len(got) < Len(sent) /\ got' = Append(got, current)
<1>0. PICK p : p = current
  OBVIOUS
<1>1. state = "body" /\ Len(taken) = need
  BY DEF Handled
<1>2. /\ InTurn /\ LineStarts /\ LineFollows /\ ReaderInLine
      /\ closed \/ LineEnds
  BY <1>1 DEF Straight
<1>3. taken[1].packet = p /\ line # <<>> /\ Read = Cells(p) /\ line[Cells(p)] = Cell(p, Cells(p))
  BY <1>0, <1>1, BodyIsWhole
<1>4. /\ got' = Append(got, p) /\ taken' = <<>> /\ state' = "header"
      /\ UNCHANGED <<begun, sending, copied, stream, closed, sent>>
  BY <1>3, HandledFacts
<1>5. PICK g : g = Len(got)
  OBVIOUS
<1>6. /\ g \in Nat /\ Len(sent) \in Nat /\ g + 1 \in 1..Len(sent) /\ p = sent[g + 1]
      /\ p \in Packets /\ Cells(p) \in Nat /\ Cells(p) >= 4
      /\ \A k \in 1..Len(sent) : sent[k] = p => k = g + 1
  <2>1. p.size \in 1..MaxSize /\ Cells(p) = p.size + 3
    BY <1>0, <1>2, <1>3, CurrentFacts
  <2>2. Cells(p) \in Nat /\ Cells(p) >= 4
    BY <2>1, ConstantFacts
  <2> QED BY <1>0, <1>2, <1>3, <1>5, <2>2, CurrentFacts DEF current
<1>7. Len(got') = g + 1 /\ got'[g + 1] = p /\ \A k \in 1..g : got'[k] = got[k]
  BY <1>4, <1>5, <1>6, AppendProperties DEF Types
<1>8. InTurn'
  <2>1. \A k \in 1..(g + 1) : k \in 1..g \/ k = g + 1
    BY <1>6
  <2> QED BY <1>2, <1>4, <1>5, <1>6, <1>7, <2>1 DEF InTurn
<1>9. PICK m : m = Cells(p)
  OBVIOUS
<1>10. /\ Len(line') = Len(line) - m /\ Len(line) \in Nat /\ Len(line') \in Nat
       /\ \A i \in 1..Len(line') : line'[i] = line[i + m]
       /\ m \in Nat /\ m >= 4 /\ m <= Len(line)
       /\ line' = <<>> <=> Len(line') = 0
  <2>1. Behind = 2 /\ m = 2 + Len(taken) /\ m <= Len(line)
    BY <1>1, <1>3, <1>9, LineFacts DEF Behind
  <2>2. /\ flow' = stream /\ Len(flow') = Len(flow) - Len(taken)
        /\ \A i \in 1..Len(flow') : flow'[i] = flow[i + Len(taken)]
    BY <1>4, LeavesTaken
  <2>3. line' = flow'
    BY <1>4 DEF line
  <2>4. Len(flow) \in Nat /\ Len(taken) \in Nat /\ Len(flow) = Len(taken) + Len(stream)
        /\ Len(stream) \in Nat
    BY FlowFacts
  <2>5. Len(line) = 2 + Len(flow) /\ \A i \in 1..Len(flow) : line[2 + i] = flow[i]
    BY <2>1, LineFacts
  <2>6. ASSUME NEW i \in 1..Len(line') PROVE line'[i] = line[i + m]
    <3>1. i + Len(taken) \in 1..Len(flow) /\ 2 + (i + Len(taken)) = i + m
      BY <2>1, <2>2, <2>3, <2>4
    <3> QED BY <2>2, <2>3, <2>5, <3>1
  <2>7. line' = <<>> <=> Len(line') = 0
    BY <2>2, <2>3, EmptySeq DEF Types
  <2> QED BY <1>6, <1>9, <2>1, <2>2, <2>3, <2>4, <2>5, <2>6, <2>7
<1>11. LineStarts'
  <2> SUFFICES ASSUME line' # <<>>
               PROVE  Len(got') < Len(sent') /\ line'[1] = Cell(sent'[Len(got') + 1], 1)
    BY DEF LineStarts, current
  <2>1. m \in 1..(Len(line) - 1) /\ line'[1] = line[m + 1]
    BY <1>10
  <2>2. line[m] = Cell(p, m)
    BY <1>3, <1>9
  <2>3. line[m].packet = p /\ line[m].part = m
    BY <2>2 DEF Cell
  <2>4. PICK k \in 1..(Len(sent) - 1) : p = sent[k] /\ line[m + 1] = Cell(sent[k + 1], 1)
    <3>1. Follows(line[m + 1], line[m])
      BY <1>2, <2>1 DEF LineFollows
    <3>2. ~ (line[m].part < Cells(line[m].packet))
      BY <1>9, <1>10, <2>3
    <3> QED BY <2>3, <3>1, <3>2 DEF Follows
  <2>5. k = g + 1
    BY <1>6, <2>4
  <2> QED BY <1>4, <1>6, <1>7, <2>1, <2>4, <2>5
<1>12. LineFollows'
  <2>1. ASSUME NEW i \in 1..(Len(line') - 1) PROVE Follows(line'[i + 1], line'[i])
    <3>1. i + m \in 1..(Len(line) - 1) /\ (i + m) + 1 = (i + 1) + m
      BY <1>10
    <3>2. line'[i] = line[i + m] /\ line'[i + 1] = line[(i + m) + 1]
      BY <1>10, <3>1
    <3> QED BY <1>2, <3>1, <3>2 DEF LineFollows
  <2> QED BY <1>4, <2>1 DEF LineFollows, Follows
<1>13. ReaderInLine'
  BY <1>4, EmptySeq DEF ReaderInLine, Read
<1>14. (closed \/ LineEnds)'
  <2> SUFFICES ASSUME ~ closed PROVE LineEnds'
    BY <1>4
  <2>1. LineEnds
    BY <1>2
  <2>2. CASE line' = <<>>
    <3>1. Len(line) = m /\ Last(line) = Cell(p, m)
      BY <1>3, <1>9, <1>10, <2>2 DEF Last
    <3>2. ASSUME NEW w \in Writers, copied[w] > 0 PROVE FALSE
      <4>1. Cell(p, m) = Cell(sending[w], copied[w])
        BY <2>1, <3>1, <3>2 DEF LineEnds
      <4>2. sending[w] = p /\ copied[w] = Cells(p)
        BY <1>9, <4>1 DEF Cell
      <4>3. copied[w] < Cells(p)
        BY <1>6, <4>2, WireAssumption DEF WritersOK, Writing
      <4> QED BY <1>6, <4>2, <4>3
    <3>3. \A w \in Writers : copied[w] = 0
      BY <3>2, ConstantFacts DEF Types
    <3>4. p = Last(sent)
      BY <1>3, <2>1, <3>1, <3>3 DEF LineEnds, Cell
    <3>5. Len(sent) = g + 1
      BY <1>6, <3>4 DEF Last
    <3> QED BY <1>4, <1>7, <2>2, <3>3, <3>5 DEF LineEnds
  <2>3. CASE line' # <<>>
    <3>1. Len(line') \in 1..Len(line') /\ Len(line') + m = Len(line)
      BY <1>10, <2>3
    <3>2. line'[Len(line')] = line[Len(line)] /\ line # <<>>
      BY <1>3, <1>10, <3>1
    <3>3. Last(line)' = Last(line)
      BY <3>2 DEF Last
    <3> QED BY <1>4, <2>1, <2>3, <3>2, <3>3 DEF LineEnds, Last
  <2> QED BY <2>2, <2>3
<1>15. Straight'
  BY <1>4, <1>8, <1>11, <1>12, <1>13, <1>14 DEF Straight
<1> QED BY <1>0, <1>4, <1>5, <1>6, <1>15
------------------------------------------------------------------------------
\* Straight: the writers.

\* Where a writer may add to the line while no other is in the middle of a packet:
\* a new packet after the end of the last one, or the next cell of its own.
LEMMA JunctionFollows ==
    ASSUME Types, WritersOK, Straight, ~ overlapped',
           NEW w \in Writers, NEW k \in 1..Room, SendSome(w, k)
    PROVE  /\ \A v \in Writers \ {w} : copied[v] = 0
           /\ copied[w] = 0 =>
                 /\ sent' = Append(sent, sending[w])
                 /\ IF line = <<>> THEN Len(got) = Len(sent)
                    ELSE Last(line) = Cell(Last(sent), Cells(Last(sent)))
           /\ copied[w] # 0 =>
                 /\ sent' = sent /\ sending[w] = Last(sent)
                 /\ line # <<>> /\ Last(line) = Cell(sending[w], copied[w])
<1>1. LineEnds
  BY DEF Straight, SendSome
<1>2. \A v \in Writers \ {w} : copied[v] = 0
  <2>1. \A v \in Writers \ {w} : ~ (copied[v] > 0)
    BY DEF SendSome
  <2> QED BY <2>1, ConstantFacts DEF Types
<1>3. sent' = IF copied[w] = 0 THEN Append(sent, sending[w]) ELSE sent
  BY DEF SendSome
<1>4. copied[w] # 0 => copied[w] > 0
  BY ConstantFacts DEF Types
<1> QED BY <1>1, <1>2, <1>3, <1>4 DEF LineEnds

LEMMA StraightSend ==
    ASSUME Types, WritersOK, Straight, ~ overlapped',
           NEW w \in Writers, NEW k \in 1..Room, SendSome(w, k)
    PROVE  Straight'
<1>0. PICK p, c, m : p = sending[w] /\ c = copied[w] /\ m = Len(line)
  OBVIOUS
<1>1. /\ state # "stopped" /\ ~ closed
      /\ UNCHANGED <<begun, closed, state, taken, need, got>>
  BY DEF SendSome, reader
<1>2. InTurn /\ LineStarts /\ LineFollows /\ ReaderInLine /\ LineEnds
  BY <1>1 DEF Straight
<1>3. /\ p \in Packets /\ c \in Nat /\ k \in Nat \ {0} /\ c + k <= Cells(p)
      /\ Cells(p) \in Nat
  <2>1. p \in Packets /\ c + k <= Cells(p)
    BY <1>0, FreshFacts
  <2>2. c \in Nat /\ k \in Nat \ {0}
    BY <1>0, ConstantFacts DEF Types
  <2> QED BY <2>1, <2>2, PacketFacts DEF Cells
<1>4. /\ \A v \in Writers \ {w} : copied[v] = 0
      /\ c = 0 => /\ sent' = Append(sent, p)
                  /\ IF line = <<>> THEN Len(got) = Len(sent)
                     ELSE Last(line) = Cell(Last(sent), Cells(Last(sent)))
      /\ c # 0 => /\ sent' = sent /\ p = Last(sent)
                  /\ line # <<>> /\ Last(line) = Cell(p, c)
  BY <1>0, JunctionFollows
\* What was sent is still there.
<1>5. PICK n : n = Len(sent)
  OBVIOUS
<1>6. /\ n \in Nat /\ Len(sent') \in Nat /\ Len(sent') >= n /\ Len(got) \in Nat
      /\ \A i \in 1..n : sent'[i] = sent[i]
      /\ Len(sent') \in 1..(n + 1) /\ Last(sent') = p
      /\ c = 0 => Len(sent') = n + 1
      /\ c # 0 => Len(sent') = n
  <2>0. sent \in Seq(Packets) /\ n \in Nat /\ Len(got) \in Nat
    BY <1>5, LenProperties DEF Types
  <2>1. CASE c = 0
    <3>1. /\ Len(sent') = n + 1 /\ sent'[n + 1] = p
          /\ \A i \in 1..n : sent'[i] = sent[i]
      BY <1>3, <1>4, <1>5, <2>0, <2>1, AppendProperties
    <3> QED BY <2>0, <2>1, <3>1 DEF Last
  <2>2. CASE c # 0
    <3>1. sent' = sent /\ p = Last(sent)
      BY <1>4, <2>2
    <3>2. n # 0
      BY <1>0, <1>3, <1>5, <2>0, <2>2, WireAssumption DEF WritersOK, StartedIfSent
    <3> QED BY <1>5, <2>0, <2>2, <3>1, <3>2 DEF Last
  <2> QED BY <2>1, <2>2
<1>7. line # <<>> => current' = current /\ Len(got) + 1 \in 1..n
  <2> SUFFICES ASSUME line # <<>> PROVE current' = current /\ Len(got) + 1 \in 1..n
    OBVIOUS
  <2>1. Len(got) + 1 \in 1..n
    BY <1>2, <1>5, CurrentFacts
  <2> QED BY <1>1, <1>6, <2>1 DEF current
\* The line has grown by k cells of p.
<1>8. /\ m \in Nat /\ Len(line') = m + k
      /\ \A i \in 1..m : line'[i] = line[i]
      /\ \A i \in 1..k : line'[m + i] = Cell(p, c + i)
      /\ line' # <<>> /\ (line = <<>> <=> m = 0)
  <2>1. PICK f : f = Len(flow)
    OBVIOUS
  <2>2. /\ f \in Nat /\ flow' \in Seq(CellsOnWire) /\ Len(flow') = f + k
        /\ \A i \in 1..f : flow'[i] = flow[i]
        /\ \A i \in 1..k : flow'[f + i] = Cell(p, c + i)
    BY <1>0, <2>1, SendGrowsFlow
  <2>3. m \in Nat /\ (line = <<>> <=> m = 0)
    BY <1>0, LineFacts
  <2>4. CASE state = "body"
    <3>1. /\ m = 2 + f /\ \A i \in 1..f : line[2 + i] = flow[i]
          /\ line[1] = Cell(current, 1) /\ line[2] = Cell(current, 2)
      BY <1>0, <2>1, <2>4, LineFacts DEF Behind
    <3>2. line # <<>>
      BY <2>2, <2>3, <3>1
    <3>3. PICK a, b : a = Cell(current, 1) /\ b = Cell(current, 2)
      OBVIOUS
    <3>4. line' = <<a, b>> \o flow'
      BY <1>1, <1>7, <2>4, <3>2, <3>3 DEF line, Cell
    <3>5. /\ Len(line') = (f + k) + 2 /\ line' # <<>>
          /\ line'[1] = a /\ line'[2] = b
          /\ \A i \in 1..(f + k) : line'[i + 2] = flow'[i]
      <4>1. /\ Len(<<a, b>> \o flow') = Len(flow') + 2 /\ <<a, b>> \o flow' # <<>>
            /\ (<<a, b>> \o flow')[1] = a /\ (<<a, b>> \o flow')[2] = b
            /\ \A i \in 1..Len(flow') : (<<a, b>> \o flow')[i + 2] = flow'[i]
        BY <2>2, Prefixed
      <4> QED BY <2>2, <3>4, <4>1
    <3>6. ASSUME NEW i \in 1..m PROVE line'[i] = line[i]
      <4>1. CASE i \in {1, 2}
        BY <3>1, <3>3, <3>5, <4>1
      <4>2. CASE i \notin {1, 2}
        <5>1. i - 2 \in 1..f /\ i - 2 \in 1..(f + k) /\ (i - 2) + 2 = i /\ 2 + (i - 2) = i
          BY <1>3, <2>2, <3>1, <4>2
        <5>2. line'[i] = flow'[i - 2] /\ line[i] = flow[i - 2]
          BY <3>1, <3>5, <5>1
        <5> QED BY <2>2, <5>1, <5>2
      <4> QED BY <4>1, <4>2
    <3>7. ASSUME NEW i \in 1..k PROVE line'[m + i] = Cell(p, c + i)
      <4>1. f + i \in 1..(f + k) /\ (f + i) + 2 = m + i
        BY <1>3, <2>2, <3>1
      <4> QED BY <2>2, <3>5, <4>1
    <3> QED BY <1>3, <2>2, <2>3, <3>1, <3>5, <3>6, <3>7
  <2>5. CASE state # "body"
    <3>1. line = flow /\ line' = flow' /\ m = f
      BY <1>0, <1>1, <2>1, <2>5 DEF line
    <3>2. line' # <<>>
      BY <1>3, <2>2, <3>1, EmptySeq
    <3> QED BY <2>2, <2>3, <3>1, <3>2
  <2> QED BY <2>4, <2>5
<1>9. \A i \in 1..(m + k) : i \in 1..m \/ (i - m \in 1..k /\ i = m + (i - m))
  BY <1>3, <1>8
<1>10. InTurn'
  BY <1>1, <1>2, <1>5, <1>6 DEF InTurn
<1>11. LineStarts'
  <2>1. CASE m = 0
    <3>1. c = 0 /\ Len(got) = n
      BY <1>4, <1>5, <1>8, <2>1
    <3>2. Len(sent') = n + 1 /\ sent'[n + 1] = p
      BY <1>6, <3>1 DEF Last
    <3>3. 1 \in 1..k /\ m + 1 = 1 /\ c + 1 = 1
      BY <1>3, <2>1, <3>1
    <3>4. line'[1] = Cell(p, 1)
      BY <1>8, <3>3
    <3>5. current' = p /\ Len(got') < Len(sent')
      BY <1>1, <1>6, <3>1, <3>2 DEF current
    <3> QED BY <3>4, <3>5 DEF LineStarts, Cell
  <2>2. CASE m # 0
    <3>1. line # <<>> /\ current' = current /\ Len(got) + 1 \in 1..n /\ 1 \in 1..m
      BY <1>7, <1>8, <2>2
    <3>2. line'[1] = Cell(current, 1)
      BY <1>2, <1>8, <3>1 DEF LineStarts
    <3> QED BY <1>1, <1>6, <3>1, <3>2 DEF LineStarts, Cell
  <2> QED BY <2>1, <2>2
<1>12. ASSUME NEW i \in 1..(Len(line') - 1) PROVE (Follows(line[i + 1], line[i]))'
  <2>0. i \in Nat /\ i >= 1 /\ i <= m + k - 1
    BY <1>3, <1>8
  <2>1. CASE i < m
    <3>1. i \in 1..m /\ i + 1 \in 1..m /\ i \in 1..(m - 1)
      BY <1>8, <2>0, <2>1
    <3>2. line'[i] = line[i] /\ line'[i + 1] = line[i + 1]
      BY <1>8, <3>1
    <3>3. Follows(line[i + 1], line[i])
      BY <1>0, <1>2, <3>1 DEF LineFollows
    <3>4. \A j \in 1..(n - 1) :
             j \in 1..(Len(sent') - 1) /\ sent'[j] = sent[j] /\ sent'[j + 1] = sent[j + 1]
      BY <1>6
    <3> QED BY <1>5, <3>2, <3>3, <3>4 DEF Follows
  <2>2. CASE i = m
    <3>0. m # 0 /\ line # <<>>
      BY <1>8, <2>0, <2>2
    <3>1. line'[i] = line[m] /\ line[m] = Last(line)
      BY <1>0, <1>8, <2>0, <2>2 DEF Last
    <3>2. 1 \in 1..k
      BY <1>3
    <3>3. line'[i + 1] = Cell(p, c + 1)
      BY <1>8, <2>2, <3>2
    <3>4. CASE c # 0
      <4>1. line'[i].packet = p /\ line'[i].part = c
        BY <1>4, <3>1, <3>4 DEF Cell
      <4>2. c < Cells(p)
        BY <1>3
      <4> QED BY <3>3, <4>1, <4>2 DEF Follows
    <3>5. CASE c = 0
      <4>1. Last(line) = Cell(Last(sent), Cells(Last(sent)))
        BY <1>4, <3>0, <3>5
      <4>2. Last(sent) = sent[n] /\ n \in 1..n
        BY <1>5, <1>6, <1>7, <3>0 DEF Last
      <4>3. line'[i] = Cell(sent[n], Cells(sent[n]))
        BY <3>1, <4>1, <4>2
      <4>4. line'[i].packet = sent[n] /\ line'[i].part = Cells(sent[n])
        BY <4>3 DEF Cell
      <4>5. n \in 1..(Len(sent') - 1) /\ sent'[n] = sent[n] /\ sent'[n + 1] = p
        BY <1>6, <3>5, <4>2 DEF Last
      <4>6. Cells(sent[n]) \in Nat
        <5>1. sent[n] \in Packets
          BY <1>5, <4>2, ElementOfSeq DEF Types
        <5> QED BY <5>1, PacketFacts DEF Cells
      <4>7. line'[i + 1] = Cell(sent'[n + 1], 1)
        BY <3>3, <3>5, <4>5
      <4>8. ~ (line'[i].part < Cells(line'[i].packet)) /\ line'[i].packet = sent'[n]
        BY <4>4, <4>5, <4>6
      <4> QED BY <4>5, <4>7, <4>8 DEF Follows, Cell, Cells
    <3> QED BY <3>4, <3>5
  <2>3. CASE i > m
    <3>1. i - m \in 1..k /\ (i - m) + 1 \in 1..k /\ i = m + (i - m) /\ i + 1 = m + ((i - m) + 1)
      BY <1>3, <1>8, <2>0, <2>3
    <3>2. line'[i] = Cell(p, c + (i - m)) /\ line'[i + 1] = Cell(p, c + ((i - m) + 1))
      BY <1>8, <3>1
    <3>3. line'[i].packet = p /\ line'[i].part = c + (i - m)
      BY <3>2 DEF Cell
    <3>4. c + (i - m) < Cells(p) /\ c + ((i - m) + 1) = (c + (i - m)) + 1
      BY <1>3, <1>8, <3>1
    <3> QED BY <3>2, <3>3, <3>4 DEF Follows
  <2> QED BY <1>8, <2>0, <2>1, <2>2, <2>3
<1>13. LineFollows'
  BY <1>12 DEF LineFollows
<1>14. ReaderInLine'
  <2>1. Read' = Read /\ Read \in Nat /\ Read <= m
    BY <1>0, <1>1, LineFacts DEF Read
  <2>2. \A i \in 1..Read : i \in 1..m
    BY <1>8, <2>1
  <2>3. CASE m = 0
    BY <1>0, <1>1, <1>8, <2>1, <2>3, LineFacts DEF ReaderInLine, Behind
  <2>4. CASE m # 0
    <3>1. current' = current
      BY <1>7, <1>8, <2>4
    <3> QED BY <1>1, <1>2, <1>8, <2>1, <2>2, <3>1 DEF ReaderInLine
  <2> QED BY <2>3, <2>4
<1>15. LineEnds'
  <2>1. Last(line') = Cell(p, c + k)
    <3>1. k \in 1..k
      BY <1>3
    <3> QED BY <1>8, <3>1 DEF Last
  <2>2. \A v \in Writers \ {w} : copied'[v] = 0
    BY <1>4, CopiedFacts DEF Types
  <2>3. CASE c + k = Cells(p)
    <3>1. copied'[w] = 0
      BY <1>0, <2>3, CopiedFacts DEF Types
    <3> QED BY <1>6, <1>8, <2>1, <2>2, <2>3, <3>1 DEF LineEnds, Cell, Cells
  <2>4. CASE c + k # Cells(p)
    <3>1. copied'[w] = c + k /\ sending'[w] = p /\ c + k > 0
      BY <1>0, <1>3, <2>4, CopiedFacts DEF Types
    <3> QED BY <1>3, <1>6, <1>8, <2>1, <2>2, <3>1 DEF LineEnds, Cell
  <2> QED BY <2>3, <2>4
<1> QED BY <1>1, <1>10, <1>11, <1>13, <1>14, <1>15 DEF Straight

LEMMA StraightStep ==
    ASSUME Types, WritersOK, Marks, overlapped \/ Straight, [Next]_vars
    PROVE  (overlapped \/ Straight)'
<1>1. overlapped => overlapped'
  BY DEF Next, Sender, Reader, SendBegin, SendSome, SendFails, Hangup, Receive,
         HeaderAccepted, HeaderRejected, Handled, Skipped, BodyRejected, EndOfStream, vars
<1> SUFFICES ASSUME Straight, ~ overlapped' PROVE Straight'
  BY <1>1
\* Steps that do not touch the line.
<1>2. ASSUME line' = line, Read' = Read,
             UNCHANGED <<stream, state, need, sent, got>>, (closed \/ LineEnds)',
             closed => closed'
      PROVE  Straight'
  <2>1. current' = current
    BY <1>2 DEF current
  <2>2. InTurn'
    BY <1>2 DEF Straight, InTurn
  <2>3. state # "stopped" => LineStarts' /\ LineFollows' /\ ReaderInLine'
    BY <1>2, <2>1 DEF Straight, LineStarts, LineFollows, Follows, ReaderInLine
  <2>4. state = "stopped" => closed' /\ stream' = <<>>
    BY <1>2 DEF Straight
  <2> QED BY <1>2, <2>2, <2>3, <2>4 DEF Straight
<1>3. ASSUME NEW w \in Writers, NEW n \in Sizes, SendBegin(w, n) PROVE Straight'
  <2>1. UNCHANGED <<copied, stream, closed, state, taken, need, sent, got>>
    BY <1>3 DEF SendBegin, reader
  <2>2. line' = line /\ Read' = Read
    BY <2>1 DEF line, flow, current, Read
  <2>3. copied[w] = 0 /\ \A v \in Writers \ {w} : sending'[v] = sending[v]
    BY <1>3 DEF SendBegin, Types, WritersOK, Writing
  <2>4. (closed \/ LineEnds)'
    <3>1. CASE state = "stopped"
      BY <2>1, <3>1 DEF Straight
    <3>2. CASE state # "stopped"
      <4>1. LineEnds
        BY <1>3, <3>2 DEF Straight, SendBegin
      <4> QED BY <4>1, <2>1, <2>2, <2>3 DEF LineEnds
    <3> QED BY <3>1, <3>2
  <2> QED BY <1>2, <2>1, <2>2, <2>4
<1>4. ASSUME NEW w \in Writers, SendFails(w) PROVE Straight'
  <2>1. UNCHANGED <<stream, closed, state, taken, need, sent, got>>
    BY <1>4 DEF SendFails, reader
  <2>2. line' = line /\ Read' = Read
    BY <2>1 DEF line, flow, current, Read
  <2>3. closed
    BY <1>4 DEF SendFails, Straight
  <2> QED BY <1>2, <2>1, <2>2, <2>3
<1>5. CASE Hangup \/ UNCHANGED vars
  <2>1. UNCHANGED <<copied, sending, stream, state, taken, need, sent, got>>
    BY <1>5 DEF Hangup, reader, vars
  <2>2. line' = line /\ Read' = Read
    BY <2>1 DEF line, flow, current, Read
  <2>3. closed' \/ closed' = closed
    BY <1>5 DEF Hangup, vars
  <2>4. (closed \/ LineEnds)'
    BY <2>1, <2>2, <2>3 DEF Straight, LineEnds
  <2> QED BY <1>2, <2>1, <2>2, <2>3, <2>4
<1>6. ASSUME NEW w \in Writers, NEW k \in 1..Room, SendSome(w, k) PROVE Straight'
  BY <1>6, StraightSend
<1>7. CASE Receive
  BY <1>7, StraightReceive
<1>8. CASE HeaderAccepted
  BY <1>8, StraightHeader
<1>9. CASE Handled
  BY <1>9, StraightHandled
<1>10. CASE HeaderRejected
  BY <1>10, HeaderIsWhole DEF HeaderRejected
<1>11. CASE Skipped \/ BodyRejected
  BY <1>11, BodyIsWhole DEF Skipped, BodyRejected
<1>12. CASE EndOfStream
  BY <1>12 DEF EndOfStream, Await, Straight, InTurn
<1> QED BY <1>3, <1>4, <1>5, <1>6, <1>7, <1>8, <1>9, <1>10, <1>11, <1>12
        DEF Next, Sender, Reader
------------------------------------------------------------------------------
LEMMA Start == Init => IInv
BY TypesStart, WritersStart, MarksStart, StraightStart DEF IInv

LEMMA TypesStep ==
    ASSUME Types, WritersOK, [Next]_vars
    PROVE  Types'
<1>1. CASE Hangup \/ UNCHANGED vars
  BY <1>1 DEF Hangup, reader, vars, Types
<1> QED BY <1>1, TypesSend, TypesRead DEF Next

LEMMA Invariance == Spec => []IInv
<1>1. IInv /\ [Next]_vars => IInv'
  BY TypesStep, WritersStep, MarksStep, StraightStep DEF IInv
<1> QED BY <1>1, Start, PTL DEF Spec

\* The variables keep their types, and the buffers their bounds: what is taken
\* never exceeds what a prefix below the limit allows.
THEOREM WireTypesCorrect == Spec => []WireTypeOK
<1>1. IInv => WireTypeOK
  <2> SUFFICES ASSUME IInv PROVE WireTypeOK
    OBVIOUS
  <2>0. Types
    BY DEF IInv
  <2>1. ToSet(stream) \cup ToSet(taken) \subseteq [packet : Packets, part : 1..(MaxSize + 3)]
    <3>1. \A i \in DOMAIN stream : stream[i] \in CellsOnWire
      BY <2>0, ElementOfSeq, LenProperties DEF Types
    <3>2. \A i \in DOMAIN taken : taken[i] \in CellsOnWire
      BY <2>0, ElementOfSeq, LenProperties DEF Types
    <3> QED BY <3>1, <3>2 DEF ToSet, CellsOnWire
  <2>2. ToSet(sent) \cup ToSet(got) \subseteq Packets
    <3>1. \A i \in DOMAIN sent : sent[i] \in Packets
      BY <2>0, ElementOfSeq, LenProperties DEF Types
    <3>2. \A i \in DOMAIN got : got[i] \in Packets
      BY <2>0, ElementOfSeq, LenProperties DEF Types
    <3> QED BY <3>1, <3>2 DEF ToSet
  <2> QED BY <2>0, <2>1, <2>2, ConstantFacts DEF Types, WireTypeOK
<1> QED BY <1>1, Invariance, PTL

\* The two sides agree on lengths: without mixed packets receive_json_packet never
\* meets a length it refuses or a body without its delimiter.
THEOREM ReaderStopsAtEnd == Spec => []StopsAtEndOnly
<1>1. IInv => StopsAtEndOnly
  BY DEF IInv, Straight, StopsAtEndOnly
<1> QED BY <1>1, Invariance, PTL

\* Until packets are mixed, what receive_json_packet has handed over is the first
\* of what send_json_packet was given, packet for packet.
THEOREM HandledInTurn == Spec => [](overlapped \/ InTurn)
<1>1. IInv => overlapped \/ InTurn
  BY DEF IInv, Straight
<1> QED BY <1>1, Invariance, PTL
------------------------------------------------------------------------------
\* Refinement.

LEMMA SendRefines ==
    ASSUME IInv, NEW w \in Writers, NEW k \in 1..Room, SendSome(w, k)
    PROVE  [Channel!Next]_<<sent, got, overlapped>>
<1>1. PICK p : p = sending[w]
  OBVIOUS
<1>2. Types /\ WritersOK
  BY DEF IInv
<1>3. p \in Packets /\ p # NoPacket /\ got' = got /\ overlapped' \in {overlapped, TRUE}
  BY <1>1, <1>2, FreshFacts DEF SendSome, Types
<1>4. CASE copied[w] = 0
  <2>1. sent' = Append(sent, p)
    BY <1>1, <1>4 DEF SendSome
  <2>2. ~ Channel!Contains(sent, p)
    BY <1>1, <1>2, <1>3, <1>4 DEF WritersOK, StartedIfSent, Channel!Contains
  <2> QED BY <1>3, <2>1, <2>2 DEF Channel!Next, Channel!Send
<1>5. CASE copied[w] # 0
  <2>1. sent' = sent
    BY <1>5 DEF SendSome
  <2> QED BY <1>3, <2>1 DEF Channel!Next, Channel!Spoil
<1> QED BY <1>4, <1>5

LEMMA HandledRefines ==
    ASSUME IInv, Handled
    PROVE  [Channel!Next]_<<sent, got, overlapped>>
<1>1. Types /\ WritersOK /\ Marks
  BY DEF IInv
<1>2. PICK p : p = taken[1].packet
  OBVIOUS
<1>3. /\ p \in Packets /\ got' = Append(got, p) /\ IsSent(p)
      /\ \A k \in 1..Len(got) : got[k] # p
      /\ sent' = sent /\ overlapped' = overlapped
  BY <1>1, <1>2, HandledFacts
<1>4. CASE overlapped
  <2>1. Channel!Contains(sent, p) /\ ~ Channel!Contains(got, p)
    BY <1>3 DEF IsSent, Channel!Contains
  <2> QED BY <1>3, <1>4, <2>1 DEF Channel!Next, Channel!HandleSpoiled
<1>5. CASE ~ overlapped
  <2>1. Len(got) < Len(sent) /\ got' = Append(got, sent[Len(got) + 1])
    BY <1>1, <1>5, StraightHandled DEF IInv, current
  <2> QED BY <1>3, <1>5, <2>1 DEF Channel!Next, Channel!Handle
<1> QED BY <1>4, <1>5

\* protocol.cpp implements a channel of whole packets: what partial sends and
\* receives do to the cells is a step of the channel or none at all.
THEOREM WireImplementsChannel == Spec => ChannelSpec
<1>1. Init => Channel!Init
  BY DEF Init, Channel!Init
<1>2. IInv /\ [Next]_vars => [Channel!Next]_<<sent, got, overlapped>>
  <2> SUFFICES ASSUME IInv, [Next]_vars PROVE [Channel!Next]_<<sent, got, overlapped>>
    OBVIOUS
  <2>1. ASSUME NEW w \in Writers, NEW k \in 1..Room, SendSome(w, k)
        PROVE  [Channel!Next]_<<sent, got, overlapped>>
    BY <2>1, SendRefines
  <2>2. CASE Handled
    BY <2>2, HandledRefines
  <2>3. CASE \/ \E w \in Writers : SendFails(w) \/ \E n \in Sizes : SendBegin(w, n)
             \/ Hangup \/ Receive \/ HeaderAccepted \/ HeaderRejected \/ Skipped
             \/ BodyRejected \/ EndOfStream \/ UNCHANGED vars
    <3>1. UNCHANGED <<sent, got, overlapped>>
      BY <2>3 DEF SendFails, SendBegin, Hangup, Receive, HeaderAccepted, HeaderRejected,
                  Skipped, BodyRejected, EndOfStream, vars
    <3> QED BY <3>1
  <2> QED BY <2>1, <2>2, <2>3 DEF Next, Sender, Reader
<1> QED BY <1>1, <1>2, Invariance, PTL DEF Spec, ChannelSpec, Channel!Spec
==============================================================================
