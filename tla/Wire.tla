--------------------------------- MODULE Wire --------------------------------
(***************************************************************************)
(* One direction of a connection: send_json_packet and receive_json_packet *)
(* (protocol.cpp) over a byte stream of bounded room.                      *)
(*                                                                         *)
(* A packet of n units of JSON travels as n + 3 cells: the two halves of   *)
(* its length prefix, n data cells and the delimiter.  A length is below   *)
(* 2^16, so the upper half of every prefix is zero.  send copies any part  *)
(* of what is left that fits, and send_all goes round until all is copied: *)
(* nothing stops another thread (a push, while the connection's own thread *)
(* replies) from copying cells of its packet in between.  Splits inside a  *)
(* half of the prefix or inside the delimiter are left out.                *)
(*                                                                         *)
(* The reader takes two cells, checks the length, takes that many and the  *)
(* delimiter, and gives the text to the JSON parser.  A text that is not   *)
(* the whole of one packet does not parse and is skipped.                  *)
(***************************************************************************)
EXTENDS Naturals, Sequences, SequencesExt

CONSTANTS Writers,      \* the threads that send to this socket
          Sizes,        \* the lengths of JSON they may send
          MaxSize,      \* MAX_PACKET_SIZE - HEADER_SIZE - 2
          Room,         \* cells that the socket buffers hold
          MaxPackets,   \* bound on the packets ever sent
          NoPacket

Packets == [number : 1..MaxPackets, size : Sizes]

ASSUME WireAssumption ==
    /\ Sizes \subseteq Nat \ {0}
    /\ {MaxSize, Room, MaxPackets} \subseteq Nat \ {0}
    /\ NoPacket \notin Packets

VARIABLES begun,        \* how many packets have been handed over
          sending,      \* the packet each writer is in send_all with
          copied,       \* how many of its cells have been copied
          stream,       \* cells in the socket buffers
          closed,       \* the sending side is closed
          state,        \* of the reader: "header", "body" or "stopped"
          taken,        \* cells of the current recv_all
          need,         \* how many it waits for
          \* The rest is history.
          sent,         \* packets in the order of their first cells
          got,          \* packets in the order they were handled
          overlapped    \* cells of one packet were copied amid another

vars == <<begun, sending, copied, stream, closed, state, taken, need, sent, got, overlapped>>
reader == <<state, taken, need>>

Cells(p) == p.size + 3
Cell(p, i) == [packet |-> p, part |-> i]

Kind(cell) ==
    CASE cell.part = 1 -> "upper"
      [] cell.part = 2 -> "lower"
      [] cell.part = Cells(cell.packet) -> "end"
      [] OTHER -> "data"

Init ==
    /\ begun = 0
    /\ sending = [w \in Writers |-> NoPacket]
    /\ copied = [w \in Writers |-> 0]
    /\ stream = <<>> /\ closed = FALSE
    /\ state = "header" /\ taken = <<>> /\ need = 2
    /\ sent = <<>> /\ got = <<>> /\ overlapped = FALSE
------------------------------------------------------------------------------
\* send_json_packet

\* Mutant: the limit is off by one.
FitsBarely(n) == n <= MaxSize + 1

Fits(n) == n <= MaxSize

\* A text that is too long is refused, which no caller looks at.
SendBegin(w, n) ==
    /\ ~ closed /\ sending[w] = NoPacket
    /\ begun < MaxPackets
    /\ Fits(n)
    /\ begun' = begun + 1
    /\ sending' = [sending EXCEPT ![w] = [number |-> begun + 1, size |-> n]]
    /\ UNCHANGED <<copied, stream, closed, reader, sent, got, overlapped>>

\* Mutant: a partial send counts as a whole one.
SendOnce(w, k) ==
    LET p == sending[w]
    IN  /\ p # NoPacket /\ ~ closed /\ state # "stopped"
        /\ copied[w] + k <= Cells(p)
        /\ Len(stream) + k <= Room
        /\ stream' = stream \o [i \in 1..k |-> Cell(p, copied[w] + i)]
        /\ sending' = [sending EXCEPT ![w] = NoPacket]
        /\ sent' = Append(sent, p)
        /\ UNCHANGED <<begun, copied, closed, reader, got, overlapped>>

\* One send: k cells, no more than there is room for.
SendSome(w, k) ==
    LET p == sending[w]
    IN  /\ p # NoPacket /\ ~ closed /\ state # "stopped"
        /\ copied[w] + k <= Cells(p)
        /\ Len(stream) + k <= Room
        /\ stream' = stream \o [i \in 1..k |-> Cell(p, copied[w] + i)]
        /\ copied' = [copied EXCEPT ![w] = (@ + k) % Cells(p)]
        /\ sending' = IF copied[w] + k = Cells(p)
                      THEN [sending EXCEPT ![w] = NoPacket] ELSE sending
        /\ sent' = IF copied[w] = 0 THEN Append(sent, p) ELSE sent
        /\ overlapped' = (overlapped \/ \E v \in Writers \ {w} : copied[v] > 0)
        /\ UNCHANGED <<begun, closed, reader, got>>

\* The other side has closed the connection: send fails.
SendFails(w) ==
    /\ sending[w] # NoPacket /\ (closed \/ state = "stopped")
    /\ sending' = [sending EXCEPT ![w] = NoPacket]
    /\ copied' = [copied EXCEPT ![w] = 0]
    /\ UNCHANGED <<begun, stream, closed, reader, sent, got, overlapped>>

\* The sending process closes the socket or ends, in the middle of a packet or
\* not.  What has been copied still arrives.
Hangup ==
    /\ ~ closed
    /\ closed' = TRUE
    /\ UNCHANGED <<begun, sending, copied, stream, reader, sent, got, overlapped>>
------------------------------------------------------------------------------
\* receive_json_packet

Await(s, n) == state' = s /\ need' = n /\ taken' = <<>>

Receive ==
    /\ state # "stopped"
    /\ Len(taken) < need /\ stream # <<>>
    /\ taken' = Append(taken, Head(stream))
    /\ stream' = Tail(stream)
    /\ UNCHANGED <<begun, sending, copied, closed, state, need, sent, got, overlapped>>

\* The lengths that two cells can be read as.  Half a prefix and text give some
\* number: any is possible.  Text, or a lower half, in the upper half is a number
\* above every limit.
Lengths ==
    LET first == Kind(taken[1])
        second == Kind(taken[2])
    IN  IF first # "upper" THEN {MaxSize + 1}
        ELSE CASE second = "upper" -> {0}
               [] second = "lower" -> {taken[2].packet.size}
               [] OTHER -> 1..MaxSize

\* Mutant: the reader's limit is one below the sender's.
AcceptableLess(n) == 0 < n /\ n <= MaxSize - 1

Acceptable(n) == 0 < n /\ n <= MaxSize

HeaderAccepted ==
    /\ state = "header" /\ Len(taken) = need
    /\ \E n \in Lengths : Acceptable(n) /\ Await("body", n + 1)
    /\ UNCHANGED <<begun, sending, copied, stream, closed, sent, got, overlapped>>

\* A wrong length ends the loop of the reader, and its connection.
HeaderRejected ==
    /\ state = "header" /\ Len(taken) = need
    /\ \E n \in Lengths : ~ Acceptable(n)
    /\ Await("stopped", 0)
    /\ UNCHANGED <<begun, sending, copied, stream, closed, sent, got, overlapped>>

Delimited == Kind(Last(taken)) = "end"

\* The text is the whole text of p.
IsTextOf(text, p) == text = [i \in 1..p.size |-> Cell(p, i + 2)]

Handled ==
    /\ state = "body" /\ Len(taken) = need /\ Delimited
    /\ LET p == taken[1].packet
       IN IsTextOf(Front(taken), p) /\ got' = Append(got, p)
    /\ Await("header", 2)
    /\ UNCHANGED <<begun, sending, copied, stream, closed, sent, overlapped>>

\* A text that is not that of one packet: json::parse throws, and the loop goes on.
Skipped ==
    /\ state = "body" /\ Len(taken) = need /\ Delimited
    /\ ~ IsTextOf(Front(taken), taken[1].packet)
    /\ Await("header", 2)
    /\ UNCHANGED <<begun, sending, copied, stream, closed, sent, got, overlapped>>

BodyRejected ==
    /\ state = "body" /\ Len(taken) = need /\ ~ Delimited
    /\ Await("stopped", 0)
    /\ UNCHANGED <<begun, sending, copied, stream, closed, sent, got, overlapped>>

\* recv returns 0, between two packets or inside one.
EndOfStream ==
    /\ state # "stopped" /\ Len(taken) < need
    /\ closed /\ stream = <<>>
    /\ Await("stopped", 0)
    /\ UNCHANGED <<begun, sending, copied, stream, closed, sent, got, overlapped>>

Sender(w) ==
    \/ \E n \in Sizes : SendBegin(w, n)
    \/ \E k \in 1..Room : SendSome(w, k)
    \/ SendFails(w)

Reader ==
    \/ Receive \/ HeaderAccepted \/ HeaderRejected
    \/ Handled \/ Skipped \/ BodyRejected \/ EndOfStream

Next == (\E w \in Writers : Sender(w)) \/ Hangup \/ Reader

\* send and recv block but are woken, and both sides have a thread in them: the
\* client's receive thread does nothing else, and a server thread that handles a
\* request comes back to its loop.
Fairness ==
    /\ WF_vars(Reader)
    /\ \A w \in Writers : WF_vars(\E k \in 1..Room : SendSome(w, k))

Spec == Init /\ [][Next]_vars /\ Fairness
------------------------------------------------------------------------------
WireTypeOK ==
    /\ begun \in 0..MaxPackets
    /\ sending \in [Writers -> Packets \cup {NoPacket}]
    /\ copied \in [Writers -> 0..(MaxSize + 2)]
    /\ Len(stream) <= Room /\ Len(taken) <= need /\ need <= MaxSize + 1
    /\ ToSet(stream) \cup ToSet(taken) \subseteq
          [packet : Packets, part : 1..(MaxSize + 3)]
    /\ state \in {"header", "body", "stopped"}
    /\ closed \in BOOLEAN /\ overlapped \in BOOLEAN
    /\ ToSet(sent) \cup ToSet(got) \subseteq Packets

\* Whatever partial sends and receives do, the code above gets the packets that
\* were sent, whole and in order, until two writers' cells are mixed; and even a
\* stream of mixed packets never yields a packet twice.  (That a mixed text is never
\* taken for another packet is assumed: Handled and Skipped.)
Channel == INSTANCE PacketChannel WITH spoiled <- overlapped
ChannelSpec == Channel!Spec

\* The two sides agree on lengths and limits: without a mixed stream a reader
\* only ever stops because the connection is closed.
StopsAtEndOnly ==
    state = "stopped" => overlapped \/ (closed /\ stream = <<>>)

\* A packet that send_json_packet has begun to copy is handled, however small the
\* room and however often send and recv return with a part, unless the
\* connection ends or another writer's packet is mixed in.
SentIsHandled ==
    \A k \in 1..MaxPackets :
        Len(sent) >= k ~> Len(got) >= k \/ closed \/ overlapped
==============================================================================
