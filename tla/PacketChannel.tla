----------------------------- MODULE PacketChannel ----------------------------
(***************************************************************************)
(* What packet.c promises over one direction of a TCP connection: packets  *)
(* arrive whole, in the order they were sent, none twice and none but the  *)
(* last ones missing.                                                      *)
(***************************************************************************)
EXTENDS Naturals, Sequences

CONSTANT Packets      \* what packet_send can be given

VARIABLES
    sent,             \* packets packet_send has returned 0 for
    received          \* packets packet_receive has returned 0 for

vars == <<sent, received>>

Init == sent = << >> /\ received = << >>

Send ==
    /\ \E p \in Packets : sent' = Append(sent, p)
    /\ UNCHANGED received

Receive ==
    /\ Len(received) < Len(sent)
    /\ received' = Append(received, sent[Len(received) + 1])
    /\ UNCHANGED sent

Next == Send \/ Receive

Spec == Init /\ [][Next]_vars
===============================================================================
