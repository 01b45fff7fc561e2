----------------------------- MODULE PacketChannel ----------------------------
(***************************************************************************)
(* What protocol.cpp promises to the code above it: a connection is a      *)
(* channel of whole packets.  They are handled in the order in which they  *)
(* were sent, none is lost, repeated or invented.  Once the packets of two *)
(* writers have been mixed the channel is spoiled: it may lose any packet  *)
(* and change their order, but still invents and repeats none.             *)
(***************************************************************************)
EXTENDS Naturals, Sequences, SequencesExt

CONSTANT Packets

VARIABLES sent,     \* packets, in the order in which their sending began
          got,      \* packets, in the order in which they were handled
          spoiled

Init == sent = <<>> /\ got = <<>> /\ spoiled = FALSE

Send(p) ==
    /\ p \in Packets /\ ~ Contains(sent, p)
    /\ sent' = Append(sent, p)
    /\ spoiled' \in {spoiled, TRUE}
    /\ UNCHANGED got

Spoil ==
    /\ spoiled' = TRUE
    /\ UNCHANGED <<sent, got>>

Handle ==
    /\ ~ spoiled
    /\ Len(got) < Len(sent)
    /\ got' = Append(got, sent[Len(got) + 1])
    /\ UNCHANGED <<sent, spoiled>>

HandleSpoiled(p) ==
    /\ spoiled
    /\ Contains(sent, p) /\ ~ Contains(got, p)
    /\ got' = Append(got, p)
    /\ UNCHANGED <<sent, spoiled>>

Next == (\E p \in Packets : Send(p) \/ HandleSpoiled(p)) \/ Spoil \/ Handle

Spec == Init /\ [][Next]_<<sent, got, spoiled>>
==============================================================================
