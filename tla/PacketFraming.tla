----------------------------- MODULE PacketFraming ----------------------------
(***************************************************************************)
(* packet.c over one direction of a TCP connection: a thread that calls    *)
(* packet_send, one that calls packet_receive, and between them a stream   *)
(* of bytes that knows nothing of packets.  send and recv move any part of *)
(* what they are asked to, and either may fail between two parts.          *)
(***************************************************************************)
EXTENDS Naturals, Sequences, FiniteSets

CONSTANTS
    HeaderSize,      \* sizeof(PACKET_HEADER)
    MaxPacketSize,   \* MAX_PACKET_SIZE
    MaxLength,       \* the largest payload_length
    Capacity,        \* bytes the kernel keeps for the receiver
    MaxPackets       \* bound: packets sent

ASSUME SizesAssumption ==
    /\ HeaderSize \in Nat \ {0} /\ MaxPacketSize \in Nat /\ MaxLength \in Nat
    /\ Capacity \in Nat \ {0} /\ MaxPackets \in Nat

VARIABLES
    sends,           \* the packets packet_send has started on: length, first byte
    done,            \* how many of them it has sent
    spc, total_sent, \* the sender: in which send_all, and how far
    tape,            \* all the bytes that were ever sent: packet, byte of the packet
    nread,           \* how many of them have been read
    rpc, total_received, payload_length,   \* the receiver: in which recv_all, how far
    received         \* the packets packet_receive has returned

senderVars == <<sends, done, spc, total_sent, tape>>
receiverVars == <<nread, rpc, total_received, payload_length, received>>
vars == <<senderVars, receiverVars>>

Lengths == 0..MaxLength

\* A packet: a header that tells the length, and the payload.  Byte j of packet i is
\* <<i, j>>, the header's first.
Size(i) == HeaderSize + sends[i].length
Content(i, n) == [length |-> n, payload |-> [k \in 1..n |-> <<i, HeaderSize + k - 1>>]]
Whole(i) == Content(i, sends[i].length)

Init ==
    /\ sends = << >> /\ done = 0 /\ spc = "idle" /\ total_sent = 0 /\ tape = << >>
    /\ nread = 0 /\ rpc = "header" /\ total_received = 0 /\ payload_length = 0
    /\ received = << >>

------------------------------------------------------------------------------
(* packet_send. *)

\* A packet that is too long is refused; the callers close the connection after
\* every packet_send that fails (session.c:96, 137, 183, 281, 338).
PacketSend ==
    /\ spc = "idle"
    /\ Len(sends) < MaxPackets
    /\ \E n \in Lengths :
          IF n > MaxPacketSize THEN spc' = "closed" /\ UNCHANGED sends
          ELSE /\ spc' = "header"
               /\ sends' = Append(sends, [length |-> n, start |-> Len(tape)])
    /\ total_sent' = 0
    /\ UNCHANGED <<done, tape, receiverVars>>

Room == Capacity - (Len(tape) - nread)

\* send: the next n bytes of the packet that is being sent.
Write(n, from) ==
    tape' = tape \o [k \in 1..n |-> <<Len(sends), from + k - 1>>]

\* send_all(&header): once it is through, the payload if there is one.
SendHeader ==
    /\ spc = "header"
    /\ \E n \in 1..(HeaderSize - total_sent) :
          /\ n <= Room
          /\ Write(n, total_sent)
          /\ IF total_sent + n < HeaderSize
             THEN total_sent' = total_sent + n /\ UNCHANGED <<spc, done>>
             ELSE /\ total_sent' = 0
                  /\ IF sends[Len(sends)].length > 0
                     THEN spc' = "payload" /\ UNCHANGED done
                     ELSE spc' = "idle" /\ done' = done + 1
    /\ UNCHANGED <<sends, receiverVars>>

\* Mutant: send_all takes a part for the whole.
SendPayloadOnce ==
    /\ spc = "payload"
    /\ \E n \in 1..(sends[Len(sends)].length - total_sent) :
          /\ n <= Room
          /\ Write(n, HeaderSize + total_sent)
    /\ total_sent' = 0 /\ spc' = "idle" /\ done' = done + 1
    /\ UNCHANGED <<sends, receiverVars>>

\* send_all(packet->payload).
SendPayload ==
    /\ spc = "payload"
    /\ \E n \in 1..(sends[Len(sends)].length - total_sent) :
          /\ n <= Room
          /\ Write(n, HeaderSize + total_sent)
          /\ IF total_sent + n < sends[Len(sends)].length
             THEN total_sent' = total_sent + n /\ UNCHANGED <<spc, done>>
             ELSE total_sent' = 0 /\ spc' = "idle" /\ done' = done + 1
    /\ UNCHANGED <<sends, receiverVars>>

\* send fails, or the sender is done: the connection is closed, what was sent of
\* the packet stays in the stream.
SenderCloses ==
    /\ spc # "closed"
    /\ spc' = "closed"
    /\ UNCHANGED <<sends, done, total_sent, tape, receiverVars>>

------------------------------------------------------------------------------
(* packet_receive. *)

Available == Len(tape) - nread

\* The n bytes that follow the first so many.
Bytes(from, n) == [k \in 1..n |-> tape[from + k]]

\* The header that the last HeaderSize bytes read make: a packet's length, if they
\* are that packet's header, and any length if they are not.
Heading(from) ==
    LET whose == {i \in DOMAIN sends : \A j \in 0..(HeaderSize - 1) :
                                          tape[from + j + 1] = <<i, j>>}
    IN  IF whose # {} THEN {sends[i].length : i \in whose} ELSE Lengths

\* recv_all(&header), then the checks and the malloc, any of which may end it.
RecvHeader ==
    /\ rpc = "header"
    /\ \E n \in 1..(HeaderSize - total_received) :
          /\ n <= Available
          /\ nread' = nread + n
          /\ IF total_received + n < HeaderSize
             THEN /\ total_received' = total_received + n
                  /\ UNCHANGED <<rpc, payload_length, received>>
             ELSE /\ total_received' = 0
                  /\ \E len \in Heading(nread' - HeaderSize) :
                        /\ payload_length' = len
                        /\ rpc' \in IF len = 0 THEN {"header"}
                                   ELSE IF len > MaxPacketSize THEN {"closed"}
                                   ELSE {"payload", "closed"}
                        /\ received' = IF len > 0 THEN received
                                       ELSE Append(received, [length |-> 0, payload |-> << >>])
    /\ UNCHANGED senderVars

\* Mutant: recv waits for the whole payload, however long.
RecvPayloadAtOnce ==
    /\ rpc = "payload"
    /\ Available >= payload_length
    /\ nread' = nread + payload_length
    /\ total_received' = 0 /\ rpc' = "header"
    /\ received' = Append(received,
          [length |-> payload_length, payload |-> Bytes(nread, payload_length)])
    /\ UNCHANGED <<payload_length, senderVars>>

\* recv_all(packet->payload); the caller has the packet and comes back for more.
RecvPayload ==
    /\ rpc = "payload"
    /\ \E n \in 1..(payload_length - total_received) :
          /\ n <= Available
          /\ nread' = nread + n
          /\ IF total_received + n < payload_length
             THEN total_received' = total_received + n /\ UNCHANGED <<rpc, received>>
             ELSE /\ total_received' = 0 /\ rpc' = "header"
                  /\ received' = Append(received,
                        [length |-> payload_length,
                         payload |-> Bytes(nread' - payload_length, payload_length)])
    /\ UNCHANGED <<payload_length, senderVars>>

\* Mutant: a packet that fails is given up and the next one is read.
ReceiverGoesOn ==
    /\ rpc # "closed"
    /\ rpc' = "header" /\ total_received' = 0
    /\ UNCHANGED <<nread, payload_length, received, senderVars>>

\* recv fails or finds the end of the stream: every caller gives up the connection.
ReceiverCloses ==
    /\ rpc # "closed"
    /\ rpc' = "closed"
    /\ UNCHANGED <<nread, total_received, payload_length, received, senderVars>>

Send == SendHeader \/ SendPayload
Recv == RecvHeader \/ RecvPayload

Next == PacketSend \/ Send \/ SenderCloses \/ Recv \/ ReceiverCloses

Spec == Init /\ [][Next]_vars

\* Both threads are scheduled, and TCP brings what was sent; a packet_send need not
\* be called, and nothing has to fail.
FairSpec == Spec /\ WF_vars(Send) /\ WF_vars(Recv)

------------------------------------------------------------------------------
(* Properties. *)

\* The shape of the state of both ends and of the stream.
TypeOK ==
    /\ sends \in Seq([length : 0..MaxPacketSize, start : Nat])
    /\ Len(sends) <= MaxPackets
    /\ done \in Nat
    /\ spc \in {"idle", "header", "payload", "closed"}
    /\ total_sent \in Nat
    /\ tape \in Seq(Nat \X Nat)
    /\ nread \in Nat /\ nread <= Len(tape)
    /\ rpc \in {"header", "payload", "closed"}
    /\ total_received \in Nat
    /\ payload_length \in Nat

\* Each packet starts where the one before it ends.
Consecutive ==
    /\ sends # << >> => sends[1].start = 0
    /\ \A i \in DOMAIN sends : i + 1 \in DOMAIN sends =>
          sends[i + 1].start = sends[i].start + Size(i)
    /\ \A i \in DOMAIN sends : i < Len(sends) =>
          sends[i].start + Size(i) <= sends[Len(sends)].start

\* What is on the tape is the packets, byte by byte.
Recorded ==
    \A i \in DOMAIN sends : \A j \in 0..(HeaderSize + sends[i].length - 1) :
        sends[i].start + j < Len(tape) => tape[sends[i].start + j + 1] = <<i, j>>

\* Where the sender is.
SenderProgress ==
    LET last == Len(sends) IN
    /\ done <= last /\ last <= done + 1
    /\ spc = "idle" => done = last
    /\ done = last => Len(tape) = IF last = 0 THEN 0 ELSE sends[last].start + Size(last)
    /\ done < last => /\ sends[last].start <= Len(tape)
                      /\ Len(tape) < sends[last].start + Size(last)
    /\ spc = "header" =>
          /\ done < last /\ total_sent < HeaderSize
          /\ Len(tape) = sends[last].start + total_sent
    /\ spc = "payload" =>
          /\ done < last /\ total_sent < sends[last].length
          /\ Len(tape) = sends[last].start + HeaderSize + total_sent

\* Where the receiver is: always in the packet after those it has returned, at the
\* byte it takes it for (packet.c:159).
ReceiverProgress ==
    LET r == Len(received) + 1 IN
    /\ Len(received) <= done
    /\ rpc = "header" =>
          /\ total_received < HeaderSize
          /\ IF r <= Len(sends) THEN nread = sends[r].start + total_received
             ELSE total_received = 0 /\ nread = Len(tape)
    /\ rpc = "payload" =>
          /\ r <= Len(sends)
          /\ payload_length = sends[r].length /\ total_received < payload_length
          /\ nread = sends[r].start + HeaderSize + total_received

\* What packet_receive has returned are the packets sent, in their order.
WholePackets ==
    received = [i \in 1..Len(received) |-> Whole(i)]

\* The inductive invariant of the framing.
IInv ==
    /\ TypeOK
    /\ Consecutive
    /\ Recorded
    /\ SenderProgress
    /\ ReceiverProgress
    /\ WholePackets

\* A receiver that waits for more of a packet waits for something: its recv has bytes
\* to return, or the sender is in the middle of that very packet and the kernel
\* takes more of it, or the sender has closed the connection there (packet.c:137,
\* 159; neither loop has a timeout).
NeitherEndStalls ==
    rpc # "closed" /\ Len(received) < Len(sends) =>
        \/ Available > 0
        \/ /\ Len(received) = done
           /\ spc = "closed" \/ (spc \in {"header", "payload"} /\ Room > 0)

\* A packet that packet_send has started on is received, unless packet_send fails or
\* the receiver gives up, whatever the parts it travels in and however little of it
\* the kernel holds (packet.c:141, 156).
Delivered ==
    \A i \in 1..MaxPackets :
        Len(sends) >= i ~> \/ Len(received) >= i
                           \/ spc = "closed" /\ done < i
                           \/ rpc = "closed"

\* packet.c implements PacketChannel (packet.c:32, 61): no packet is spliced from
\* parts of two, and one whose packet_send failed is never received.
Channel == INSTANCE PacketChannel WITH
    Packets <- {Content(i, n) : i \in 1..MaxPackets, n \in 0..MaxPacketSize},
    sent <- [i \in 1..done |-> Whole(i)]
ImplementsChannel == Channel!Spec
===============================================================================
