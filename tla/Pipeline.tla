-------------------------------- MODULE Pipeline -------------------------------
(***************************************************************************)
(* One packet's way through the tunnel, byte count by byte count: tun_read *)
(* into a buffer that may be too small for it, tunnel_pipeline_compress,   *)
(* tunnel_packet_encode and send on one host; recv, tunnel_packet_decode,  *)
(* tunnel_pipeline_decompress and tun_write on the other.  The two threads *)
(* use the same buffers for every packet and clear none.  The lengths are  *)
(* those of the code; whose packet it is, is Tunnel's subject.             *)
(***************************************************************************)
EXTENDS Integers, Sequences

CONSTANTS
    Lengths,             \* how long the packets of the TUN device are
    CompressedLengths,   \* how long zstd's output can be
    StrayLengths,        \* how long the datagrams are that no sender here sealed
    MaxPackets,          \* bound: packets read
    NULL

ASSUME LengthsAssumption ==
    /\ Lengths \subseteq Nat \ {0} /\ CompressedLengths \subseteq Nat \ {0}
    /\ StrayLengths \subseteq Nat
    /\ MaxPackets \in Nat

TUNNEL_HEADER_SIZE == 16
TUNNEL_AEAD_TAG_SIZE == 16
TUNNEL_PACKET_MAX_SIZE == 65536

\* Mutant: the room for the tag is forgotten.
MaxPlaintextWithTag == TUNNEL_PACKET_MAX_SIZE - TUNNEL_HEADER_SIZE

TUNNEL_PACKET_MAX_PLAINTEXT ==
    TUNNEL_PACKET_MAX_SIZE - TUNNEL_HEADER_SIZE - TUNNEL_AEAD_TAG_SIZE

TUNNEL_COMPRESS_HEADER_SIZE == 5

\* The longest payload of a UDP datagram over IPv4.
MaxDatagram == 65507

\* ZSTD_compressBound.
CompressBound(n) ==
    n + n \div 256 + (IF n < 131072 THEN (131072 - n) \div 2048 ELSE 0)

\* What a buffer holds of a packet: its first length bytes.
Buffered == [packet : Nat, length : Nat]

\* What tunnel_pipeline_compress makes of them: the five bytes of its header, and
\* the bytes themselves or what zstd makes of them.
Frame == [flag : {"none", "zstd"}, original : Nat, carries : Buffered, length : Nat]

\* A frame that was sealed, or what nobody has sealed.
Datagram == [frame : Frame \cup {NULL}, length : Nat]

ASSUME NullAssumption == NULL \notin Frame

VARIABLES
    host,                            \* who sends: "client" or "server"
    packets,                         \* the lengths of the packets tun_read met
    spc, raw, compressed, encoded,   \* the TUN sender and its buffers
    failed,                          \* packets on which libsodium or the kernel failed
    net,                             \* the datagrams under way, any number of times
    rpc, buffer, plaintext, decompressed,   \* the UDP receiver and its buffers
    written                          \* what tun_write put into the other TUN device

senderVars == <<packets, spc, raw, compressed, encoded, failed, net>>
receiverVars == <<rpc, buffer, plaintext, decompressed, written>>
vars == <<host, senderVars, receiverVars>>

Nothing == [packet |-> 0, length |-> 0]

NoFrame == [flag |-> "none", original |-> 0, carries |-> Nothing, length |-> 0]

Init ==
    /\ host \in {"client", "server"}
    /\ packets = << >> /\ failed = {} /\ net = {} /\ written = {}
    /\ spc = "read" /\ raw = Nothing /\ compressed = NoFrame
    /\ encoded = [frame |-> NULL, length |-> 0]
    /\ rpc = "recv" /\ buffer = [frame |-> NULL, length |-> 0]
    /\ plaintext = [frame |-> NoFrame, length |-> 0] /\ decompressed = Nothing

------------------------------------------------------------------------------
(* The TUN sender: client_tun_sender, session_manager_tun_sender. *)

\* The server looks at the destination address of a packet, the client at nothing.
MinLength == IF host = "server" THEN 20 ELSE 1

\* tun_read hands out what fits into raw and drops the rest of the packet.
ReadTun ==
    /\ spc = "read"
    /\ Len(packets) < MaxPackets
    /\ \E n \in Lengths :
          /\ packets' = Append(packets, n)
          /\ raw' = [packet |-> Len(packets) + 1,
                     length |-> IF n <= TUNNEL_PACKET_MAX_PLAINTEXT THEN n
                                ELSE TUNNEL_PACKET_MAX_PLAINTEXT]
    /\ spc' = IF raw'.length < MinLength THEN "read" ELSE "compress"
    /\ UNCHANGED <<host, compressed, encoded, failed, net, receiverVars>>

\* The callers pass less than they have allocated.
OutCapacity == TUNNEL_PACKET_MAX_PLAINTEXT
MaxPayload == OutCapacity - TUNNEL_COMPRESS_HEADER_SIZE

\* Mutant: zstd is called whether or not its worst case fits.
ZstdUnbounded(n) == {0} \cup {r \in CompressedLengths : r <= MaxPayload}

\* What compressed_len can be: zstd is called only when its worst case fits, and
\* may fail all the same.
ZstdResults(n) ==
    IF CompressBound(n) <= MaxPayload
    THEN {0} \cup {r \in CompressedLengths : r <= CompressBound(n)}
    ELSE {0}

Framed(flag, original, payload_len) ==
    [flag |-> flag, original |-> original, carries |-> raw,
     length |-> TUNNEL_COMPRESS_HEADER_SIZE + payload_len]

\* Mutant: what zstd made is used though it is longer.
CompressAlways ==
    /\ spc = "compress"
    /\ \E compressed_len \in ZstdResults(raw.length) :
          IF compressed_len > 0
          THEN compressed' = Framed("zstd", raw.length, compressed_len) /\ spc' = "encode"
          ELSE IF raw.length > MaxPayload
          THEN spc' = "read" /\ UNCHANGED compressed
          ELSE compressed' = Framed("none", 0, raw.length) /\ spc' = "encode"
    /\ UNCHANGED <<host, packets, raw, encoded, failed, net, receiverVars>>

\* tunnel_pipeline_compress.
Compress ==
    /\ spc = "compress"
    /\ \E compressed_len \in ZstdResults(raw.length) :
          IF compressed_len > 0 /\ compressed_len < raw.length
          THEN compressed' = Framed("zstd", raw.length, compressed_len) /\ spc' = "encode"
          ELSE IF raw.length > MaxPayload
          THEN spc' = "read" /\ UNCHANGED compressed
          ELSE compressed' = Framed("none", 0, raw.length) /\ spc' = "encode"
    /\ UNCHANGED <<host, packets, raw, encoded, failed, net, receiverVars>>

\* tunnel_packet_encode: header, ciphertext, tag.  The encryption may fail; that the
\* packet is too long is tested and never so.
Encode ==
    /\ spc = "encode"
    /\ \E encrypted \in BOOLEAN :
          IF compressed.length <= TUNNEL_PACKET_MAX_PLAINTEXT /\ encrypted
          THEN /\ encoded' = [frame |-> compressed,
                              length |-> TUNNEL_HEADER_SIZE + compressed.length
                                             + TUNNEL_AEAD_TAG_SIZE]
               /\ spc' = "send" /\ UNCHANGED failed
          ELSE /\ failed' = IF encrypted THEN failed ELSE failed \cup {raw.packet}
               /\ spc' = "read" /\ UNCHANGED encoded
    /\ UNCHANGED <<host, packets, raw, compressed, net, receiverVars>>

\* send and sendto, whose results nobody looks at: a datagram that is too long is
\* refused (EMSGSIZE), and any other may be (ENOBUFS, ECONNREFUSED).
SendDatagram ==
    /\ spc = "send"
    /\ \/ /\ encoded.length <= MaxDatagram
          /\ net' = net \cup {encoded} /\ UNCHANGED failed
       \/ /\ encoded.length > MaxDatagram
          /\ UNCHANGED <<net, failed>>
       \/ failed' = failed \cup {raw.packet} /\ UNCHANGED net
    /\ spc' = "read"
    /\ UNCHANGED <<host, packets, raw, compressed, encoded, receiverVars>>

------------------------------------------------------------------------------
(* The UDP receiver: session_manager_udp_listener, client_udp_receiver. *)

Strays == [frame : {NULL}, length : StrayLengths]

\* recv and recvfrom; an empty datagram is passed over.
Recv ==
    /\ rpc = "recv"
    /\ buffer' \in net \cup Strays
    /\ rpc' = IF buffer'.length <= 0 THEN "recv" ELSE "decode"
    /\ UNCHANGED <<host, senderVars, plaintext, decompressed, written>>

\* Mutant: the tag is taken for a part of the plaintext.
DecodeWithTag ==
    /\ rpc = "decode"
    /\ IF /\ buffer.length >= TUNNEL_HEADER_SIZE + TUNNEL_AEAD_TAG_SIZE
          /\ buffer.length <= TUNNEL_PACKET_MAX_SIZE
          /\ buffer.frame # NULL
       THEN /\ plaintext' = [frame |-> buffer.frame,
                             length |-> buffer.length - TUNNEL_HEADER_SIZE]
            /\ rpc' = "decompress"
       ELSE rpc' = "recv" /\ UNCHANGED plaintext
    /\ UNCHANGED <<host, senderVars, buffer, decompressed, written>>

\* tunnel_packet_decode (and tunnel_packet_peek_session_id, which asks for less);
\* what nobody sealed does not authenticate.
Decode ==
    /\ rpc = "decode"
    /\ IF /\ buffer.length >= TUNNEL_HEADER_SIZE + TUNNEL_AEAD_TAG_SIZE
          /\ buffer.length <= TUNNEL_PACKET_MAX_SIZE
          /\ buffer.frame # NULL
       THEN /\ plaintext' = [frame |-> buffer.frame,
                             length |-> buffer.length - TUNNEL_HEADER_SIZE
                                            - TUNNEL_AEAD_TAG_SIZE]
            /\ rpc' = "decompress"
       ELSE rpc' = "recv" /\ UNCHANGED plaintext
    /\ UNCHANGED <<host, senderVars, buffer, decompressed, written>>

\* How long the packet is that tunnel_pipeline_decompress makes: what was stored,
\* or what zstd restores if it is as long as the header says; 0 if it fails.
FinalLength ==
    LET frame == plaintext.frame
        payload_len == plaintext.length - TUNNEL_COMPRESS_HEADER_SIZE
    IN  IF plaintext.length < TUNNEL_COMPRESS_HEADER_SIZE THEN {0}
        ELSE IF frame.flag = "none"
        THEN {IF payload_len > TUNNEL_PACKET_MAX_PLAINTEXT THEN 0 ELSE payload_len}
        ELSE IF frame.original > TUNNEL_PACKET_MAX_PLAINTEXT
                \/ frame.carries.length # frame.original
        THEN {0}
        ELSE {0, frame.original}

Decompress ==
    /\ rpc = "decompress"
    /\ \E final_len \in FinalLength :
          IF final_len = 0
          THEN rpc' = "recv" /\ UNCHANGED decompressed
          ELSE /\ decompressed' = [packet |-> plaintext.frame.carries.packet,
                                   length |-> final_len]
               /\ rpc' = "write"
    /\ UNCHANGED <<host, senderVars, buffer, plaintext, written>>

\* tun_write, which may fail, if there is a TUN device at all.
WriteTun ==
    /\ rpc = "write"
    /\ written' = written \cup {decompressed} \/ UNCHANGED written
    /\ rpc' = "recv"
    /\ UNCHANGED <<host, senderVars, buffer, plaintext, decompressed>>

Next ==
    \/ ReadTun \/ Compress \/ Encode \/ SendDatagram
    \/ Recv \/ Decode \/ Decompress \/ WriteTun

Spec == Init /\ [][Next]_vars

------------------------------------------------------------------------------
(* Properties. *)

\* The shape of the state of both threads and of the network between them.
TypeOK ==
    /\ host \in {"client", "server"}
    /\ packets \in Seq(Nat)
    /\ spc \in {"read", "compress", "encode", "send"}
    /\ raw \in Buffered /\ compressed \in Frame /\ encoded \in Datagram
    /\ failed \subseteq Nat
    /\ net \subseteq Datagram
    /\ rpc \in {"recv", "decode", "decompress", "write"}
    /\ buffer \in Datagram /\ decompressed \in Buffered
    /\ plaintext \in [frame : Frame, length : Nat]
    /\ written \subseteq Buffered

\* The packet the sender is at, and the part of it that raw holds.
RawOfPacket ==
    spc # "read" =>
        /\ raw.packet = Len(packets) /\ packets # << >>
        /\ raw.length = IF packets[raw.packet] <= TUNNEL_PACKET_MAX_PLAINTEXT
                        THEN packets[raw.packet] ELSE TUNNEL_PACKET_MAX_PLAINTEXT
        /\ raw.length >= MinLength

\* A frame that is as long as the code makes it, of a packet that is whole.
Sound(frame) ==
    /\ frame.carries.packet \in DOMAIN packets
    /\ frame.carries.length = packets[frame.carries.packet]
    /\ frame.carries.length >= MinLength
    /\ \/ /\ frame.flag = "none"
          /\ frame.length = TUNNEL_COMPRESS_HEADER_SIZE + frame.carries.length
       \/ /\ frame.flag = "zstd" /\ frame.original = frame.carries.length
          /\ frame.length > TUNNEL_COMPRESS_HEADER_SIZE
          /\ frame.length < TUNNEL_COMPRESS_HEADER_SIZE + frame.original
          /\ CompressBound(frame.original) <= MaxPayload
    /\ frame.length <= OutCapacity

\* The sender's buffers hold one packet between them.
SenderBuffers ==
    /\ spc \in {"encode", "send"} => Sound(compressed) /\ compressed.carries = raw
    /\ spc = "send" =>
          /\ encoded.frame = compressed
          /\ encoded.length = TUNNEL_HEADER_SIZE + compressed.length + TUNNEL_AEAD_TAG_SIZE

\* A datagram is sealed around a sound frame, or it is nobody's.
Sealed(d) ==
    /\ Sound(d.frame)
    /\ d.length = TUNNEL_HEADER_SIZE + d.frame.length + TUNNEL_AEAD_TAG_SIZE
    /\ d.length <= MaxDatagram

InFlight == \A d \in net : d.frame # NULL /\ Sealed(d)

\* And so do the receiver's.
ReceiverBuffers ==
    /\ rpc = "decode" /\ buffer.frame # NULL => Sealed(buffer)
    /\ rpc = "decompress" =>
          Sound(plaintext.frame) /\ plaintext.length = plaintext.frame.length
    /\ rpc = "write" =>
          /\ decompressed.packet \in DOMAIN packets
          /\ decompressed.length = packets[decompressed.packet]

\* No packet comes out cut: one that tun_read has cut is longer than anything
\* tunnel_pipeline_compress will store, and its worst case is longer than what zstd
\* is called for (client_env.c:112, tunnel_compress.c:15, 29).
WholePackets ==
    \A w \in written : w.packet \in DOMAIN packets /\ w.length = packets[w.packet]

\* The longest packet the tunnel carries.
MaxCarried ==
    MaxDatagram - TUNNEL_HEADER_SIZE - TUNNEL_AEAD_TAG_SIZE - TUNNEL_COMPRESS_HEADER_SIZE

Sent == {d.frame.carries.packet : d \in net}

\* Which packets are sent does not depend on what is in them: those of up to
\* MaxCarried bytes (and, on the server, of a whole IP header), unless a call
\* fails; whatever zstd makes of a packet, it never pushes it over the limit of UDP
\* nor brings one under it (tunnel_compress.c:22, client_env.c:130).
CarriedLengths ==
    \A i \in DOMAIN packets :
        i < Len(packets) \/ spc = "read" =>
            (i \in Sent <=> packets[i] \in MinLength..MaxCarried /\ i \notin failed)

\* Every buffer is as long as what is written into it: raw, compressed and encoded
\* (client_env.c:85), buffer, plaintext and decompressed (client_env.c:142), as
\* tunnel_packet.h:47 and 65 ask.
BuffersSuffice ==
    /\ raw.length <= TUNNEL_PACKET_MAX_PLAINTEXT
    /\ compressed.length <= TUNNEL_PACKET_MAX_PLAINTEXT + TUNNEL_COMPRESS_HEADER_SIZE
    /\ encoded.length <= TUNNEL_PACKET_MAX_SIZE
    /\ plaintext.length <= TUNNEL_PACKET_MAX_SIZE
    /\ decompressed.length <= TUNNEL_PACKET_MAX_PLAINTEXT

\* The packet the sender is at has not been sent yet, and nothing has failed on it.
NotYet == spc # "read" => Len(packets) \notin Sent \cup failed

\* The inductive invariant of the pipeline.
IInv ==
    /\ TypeOK
    /\ RawOfPacket
    /\ SenderBuffers
    /\ InFlight
    /\ failed \subseteq DOMAIN packets
    /\ NotYet
    /\ CarriedLengths
    /\ ReceiverBuffers
    /\ WholePackets
    /\ BuffersSuffice
==============================================================================
