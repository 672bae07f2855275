----------------------------- MODULE PipelineProofs ----------------------------
(***************************************************************************)
(* The pipeline for packets, compressed packets and stray datagrams of any *)
(* length, with the sizes of the code.                                     *)
(***************************************************************************)
EXTENDS Pipeline, TLAPS

\* How the sizes are related; the proofs use nothing else of them.
LEMMA Sizes ==
    /\ TUNNEL_PACKET_MAX_PLAINTEXT \in Nat /\ TUNNEL_PACKET_MAX_SIZE \in Nat
    /\ OutCapacity = TUNNEL_PACKET_MAX_PLAINTEXT
    /\ MaxPayload \in Nat /\ MaxPayload + TUNNEL_COMPRESS_HEADER_SIZE = OutCapacity
    /\ TUNNEL_HEADER_SIZE \in Nat /\ TUNNEL_AEAD_TAG_SIZE \in Nat
    /\ TUNNEL_COMPRESS_HEADER_SIZE \in Nat /\ TUNNEL_COMPRESS_HEADER_SIZE >= 1
    /\ TUNNEL_HEADER_SIZE + TUNNEL_PACKET_MAX_PLAINTEXT + TUNNEL_AEAD_TAG_SIZE
          = TUNNEL_PACKET_MAX_SIZE
    /\ MaxDatagram \in Nat /\ MaxDatagram <= TUNNEL_PACKET_MAX_SIZE
    /\ MaxCarried \in Nat /\ MaxCarried < MaxPayload
    /\ TUNNEL_HEADER_SIZE + (MaxCarried + TUNNEL_COMPRESS_HEADER_SIZE)
          + TUNNEL_AEAD_TAG_SIZE = MaxDatagram
    /\ MinLength \in Nat /\ MinLength >= 1 /\ MinLength <= TUNNEL_PACKET_MAX_PLAINTEXT
  BY SMT DEF TUNNEL_PACKET_MAX_PLAINTEXT, OutCapacity, MaxPayload, TUNNEL_PACKET_MAX_SIZE,
         MaxDatagram, MaxCarried, TUNNEL_HEADER_SIZE, TUNNEL_AEAD_TAG_SIZE,
         TUNNEL_COMPRESS_HEADER_SIZE, MinLength

\* zstd's worst case is longer than what it is given, by so much that it is not called
\* for what UDP could not carry as it is (tunnel_compress.c:15).
LEMMA WorstCase ==
    ASSUME NEW n \in Nat
    PROVE  /\ CompressBound(n) \in Nat /\ CompressBound(n) >= n
           /\ CompressBound(n) <= MaxPayload => n <= MaxCarried
  <1> DEFINE q == n \div 256
             e == IF n < 131072 THEN (131072 - n) \div 2048 ELSE 0
  <1>1. q \in Nat /\ 256 * q <= n /\ n < 256 * q + 256
    BY SMT
  <1>2. e \in Nat
    BY SMT
  <1>3. CompressBound(n) = n + q + e
    BY DEF CompressBound
  <1>4. MaxPayload = 65499 /\ MaxCarried = 65470
    BY SMT DEF TUNNEL_PACKET_MAX_PLAINTEXT, OutCapacity, MaxPayload, TUNNEL_PACKET_MAX_SIZE,
           MaxDatagram, MaxCarried, TUNNEL_HEADER_SIZE, TUNNEL_AEAD_TAG_SIZE,
           TUNNEL_COMPRESS_HEADER_SIZE
  <1> HIDE DEF q, e
  <1>5. n > 65470 => q >= 30
    BY <1>1, SMT
  <1> QED
    BY <1>1, <1>2, <1>3, <1>4, <1>5, SMT

\* What tun_read makes of a length.
Least(n) == IF n <= TUNNEL_PACKET_MAX_PLAINTEXT THEN n ELSE TUNNEL_PACKET_MAX_PLAINTEXT

\* A sound frame stays sound when another packet is read.
LEMMA SoundKept ==
    ASSUME TypeOK, NEW f, Sound(f), host' = host,
           packets' = packets \/ \E n \in Nat : packets' = Append(packets, n)
    PROVE  Sound(f)'
  <1> DEFINE i == f.carries.packet
  <1>1. i \in DOMAIN packets /\ packets \in Seq(Nat) /\ DOMAIN packets = 1..Len(packets)
        /\ Len(packets) \in Nat
    BY DEF Sound, TypeOK
  <1>2. i \in DOMAIN packets' /\ packets'[i] = packets[i]
    BY <1>1
  <1>3. MinLength' = MinLength
    BY DEF MinLength
  <1> QED
    BY <1>2, <1>3 DEF Sound

\* An index that is not the last is before it.
LEMMA Below ==
    ASSUME NEW n \in Nat, NEW i \in 1..n, i # n
    PROVE  i < n
  OBVIOUS

\* What the sender does leaves the receiver's part of the invariant alone.
LEMMA ReceiverKept ==
    ASSUME IInv, UNCHANGED receiverVars, host' = host,
           packets' = packets \/ \E n \in Nat : packets' = Append(packets, n)
    PROVE  ReceiverBuffers' /\ WholePackets'
  <1> USE DEF receiverVars
  <1>1. \A i \in DOMAIN packets : i \in DOMAIN packets' /\ packets'[i] = packets[i]
    <2>1. packets \in Seq(Nat) /\ DOMAIN packets = 1..Len(packets) /\ Len(packets) \in Nat
      BY DEF IInv, TypeOK
    <2> QED
      BY <2>1
  <1>2. rpc = "decode" /\ buffer.frame # NULL => Sealed(buffer)'
    <2>1. rpc = "decode" /\ buffer.frame # NULL => Sound(buffer.frame)'
      BY SoundKept DEF IInv, ReceiverBuffers, Sealed, Sound
    <2> QED
      BY <2>1 DEF IInv, ReceiverBuffers, Sealed
  <1>3. rpc = "decompress" => Sound(plaintext.frame)'
    BY SoundKept DEF IInv, ReceiverBuffers
  <1>4. ReceiverBuffers'
    BY <1>1, <1>2, <1>3 DEF IInv, ReceiverBuffers
  <1>5. WholePackets'
    BY <1>1 DEF IInv, WholePackets
  <1> QED
    BY <1>4, <1>5

\* What the receiver does leaves the sender's part alone.
LEMMA SenderKept ==
    ASSUME IInv, UNCHANGED senderVars, host' = host
    PROVE  /\ RawOfPacket' /\ SenderBuffers' /\ InFlight' /\ (failed \subseteq DOMAIN packets)'
           /\ NotYet' /\ CarriedLengths'
  BY DEF senderVars, IInv, RawOfPacket, SenderBuffers, InFlight, NotYet, CarriedLengths,
         Sent, Sound, Sealed, MinLength

------------------------------------------------------------------------------
(* The sender. *)

\* tun_read (client_env.c:112).
LEMMA ReadStep ==
    ASSUME LengthsAssumption, IInv, ReadTun
    PROVE  IInv'
  <1> USE Sizes
  <1>1. PICK n \in Lengths :
          /\ packets' = Append(packets, n)
          /\ raw' = [packet |-> Len(packets) + 1,
                     length |-> IF n <= TUNNEL_PACKET_MAX_PLAINTEXT THEN n
                                ELSE TUNNEL_PACKET_MAX_PLAINTEXT]
    BY DEF ReadTun
  <1>2. /\ spc = "read" /\ spc' = IF raw'.length < MinLength THEN "read" ELSE "compress"
        /\ UNCHANGED <<host, compressed, encoded, failed, net, receiverVars>>
    BY DEF ReadTun
  <1>3. n \in Nat /\ n >= 1
    BY LengthsAssumption
  <1>4. /\ packets \in Seq(Nat) /\ DOMAIN packets = 1..Len(packets) /\ Len(packets) \in Nat
    BY DEF IInv, TypeOK
  <1> DEFINE l == Len(packets)
  <1>5. /\ packets' \in Seq(Nat) /\ Len(packets') = l + 1 /\ DOMAIN packets' = 1..(l + 1)
        /\ packets'[l + 1] = n
        /\ \A i \in 1..l : packets'[i] = packets[i]
    BY <1>1, <1>3, <1>4
  <1>6. /\ raw'.packet = l + 1 /\ raw'.length = IF n <= TUNNEL_PACKET_MAX_PLAINTEXT THEN n ELSE TUNNEL_PACKET_MAX_PLAINTEXT
        /\ raw'.length \in Nat /\ raw' \in Buffered
    BY <1>1, <1>3, <1>4 DEF Buffered
  <1>7. MinLength' = MinLength
    BY <1>2 DEF MinLength
  <1>8. TypeOK'
    BY <1>2, <1>5, <1>6 DEF IInv, TypeOK, receiverVars
  <1>9. RawOfPacket'
    BY <1>2, <1>4, <1>5, <1>6, <1>7 DEF RawOfPacket
  <1>10. SenderBuffers'
    BY <1>2 DEF SenderBuffers
  <1>11. InFlight'
    <2>1. ASSUME NEW d \in net PROVE Sound(d.frame)'
      <3>1. Sound(d.frame)
        BY DEF IInv, InFlight, Sealed
      <3> QED
        BY <1>1, <1>2, <1>3, <3>1, SoundKept DEF IInv
    <2> QED
      BY <1>2, <2>1 DEF IInv, InFlight, Sealed
  <1>12. (failed \subseteq DOMAIN packets)'
    BY <1>2, <1>4, <1>5 DEF IInv
  <1>13. Sent' = Sent /\ Sent \subseteq 1..l
    BY <1>2, <1>4 DEF Sent, IInv, InFlight, Sealed, Sound
  <1>14. NotYet'
    BY <1>2, <1>4, <1>5, <1>13 DEF IInv, NotYet
  <1>15. CarriedLengths'
    <2> SUFFICES ASSUME NEW i \in 1..(l + 1), i < l + 1 \/ spc' = "read"
                 PROVE  i \in Sent <=> packets'[i] \in MinLength..MaxCarried /\ i \notin failed
      BY <1>2, <1>5, <1>7, <1>13 DEF CarriedLengths
    <2>1. CASE i = l + 1
      <3>1. i \notin Sent
        BY <1>4, <1>13, <2>1
      <3>2. n < MinLength
        BY <1>2, <1>3, <1>4, <1>6, <2>1
      <3> QED
        BY <1>3, <1>5, <2>1, <3>1, <3>2
    <2>2. CASE i # l + 1
      <3>1. i \in DOMAIN packets /\ packets'[i] = packets[i]
        BY <1>4, <1>5, <2>2
      <3> QED
        BY <1>2, <3>1 DEF IInv, CarriedLengths
    <2> QED
      BY <2>1, <2>2
  <1>16. ReceiverBuffers' /\ WholePackets'
    BY <1>1, <1>2, <1>3, ReceiverKept
  <1>17. BuffersSuffice'
    BY <1>2, <1>6 DEF IInv, BuffersSuffice, receiverVars
  <1> QED
    BY <1>8, <1>9, <1>10, <1>11, <1>12, <1>14, <1>15, <1>16, <1>17 DEF IInv

\* What the sender knows of the packet it is at.
LEMMA AtPacket ==
    ASSUME IInv, spc # "read"
    PROVE  /\ Len(packets) \in Nat /\ Len(packets) >= 1 /\ DOMAIN packets = 1..Len(packets)
           /\ raw.packet = Len(packets) /\ raw.packet \in DOMAIN packets
           /\ packets[raw.packet] \in Nat
           /\ raw.length = Least(packets[raw.packet])
           /\ raw.length \in Nat /\ raw.length >= MinLength
  <1>1. /\ packets \in Seq(Nat) /\ DOMAIN packets = 1..Len(packets) /\ Len(packets) \in Nat
        /\ raw.packet = Len(packets) /\ packets # << >>
        /\ raw.length = Least(packets[raw.packet])
        /\ raw.length >= MinLength
    BY Sizes DEF IInv, TypeOK, RawOfPacket, Least
  <1>2. Len(packets) >= 1
    BY <1>1
  <1>3. raw.packet \in DOMAIN packets /\ packets[raw.packet] \in Nat
    BY <1>1, <1>2
  <1> QED
    BY <1>1, <1>2, <1>3, Sizes DEF Least

\* A packet the sender gives up for its length is one that is too long to be carried,
\* and one it gives up for another reason has failed.
LEMMA GivenUp ==
    ASSUME IInv, spc # "read", spc' = "read", UNCHANGED <<host, packets, net>>,
           \/ failed' = failed /\ packets[Len(packets)] > MaxCarried
           \/ failed' = failed \cup {raw.packet}
    PROVE  NotYet' /\ CarriedLengths' /\ (failed \subseteq DOMAIN packets)'
  <1> DEFINE l == Len(packets)
  <1>1. l \in Nat /\ l >= 1 /\ DOMAIN packets = 1..l /\ raw.packet = l /\ packets[l] \in Nat
    BY AtPacket
  <1>2. Sent' = Sent /\ l \notin Sent \cup failed /\ MinLength' = MinLength
    BY DEF Sent, MinLength, IInv, NotYet
  <1>3. ASSUME NEW i \in 1..l
        PROVE  i \in Sent <=> packets[i] \in MinLength..MaxCarried /\ i \notin failed'
    <2>1. CASE i = l
      BY <1>1, <1>2, <2>1, Sizes
    <2>2. CASE i # l
      <3>1. i < l /\ (i \in failed' <=> i \in failed)
        <4>1. i < l
          BY <1>1, <2>2, Below, Zenon
        <4>2. raw.packet # i
          BY <1>1, <2>2, Zenon
        <4>3. i \in failed' <=> i \in failed
          BY <4>2, Zenon
        <4> QED
          BY <4>1, <4>3, Zenon
      <3> QED
        BY <1>1, <3>1, Sizes DEF IInv, CarriedLengths
    <2> QED
      BY <2>1, <2>2
  <1>4. CarriedLengths'
    BY <1>1, <1>2, <1>3, Sizes DEF CarriedLengths
  <1>5. NotYet'
    BY DEF NotYet
  <1>6. (failed \subseteq DOMAIN packets)'
    BY <1>1 DEF IInv
  <1> QED
    BY <1>4, <1>5, <1>6

\* Where the packet is not given up, nothing is sent and nothing fails.
LEMMA GoesOn ==
    ASSUME IInv, spc # "read", spc' # "read", UNCHANGED <<host, packets, net, failed>>
    PROVE  NotYet' /\ CarriedLengths' /\ (failed \subseteq DOMAIN packets)'
  BY DEF IInv, NotYet, CarriedLengths, Sent, MinLength

\* tunnel_pipeline_compress (tunnel_compress.c:7): a packet that was cut is given up.
LEMMA CompressStep ==
    ASSUME LengthsAssumption, IInv, Compress
    PROVE  IInv'
  <1> USE Sizes
  <1>1. PICK r \in ZstdResults(raw.length) :
          IF r > 0 /\ r < raw.length
          THEN compressed' = Framed("zstd", raw.length, r) /\ spc' = "encode"
          ELSE IF raw.length > MaxPayload
          THEN spc' = "read" /\ UNCHANGED compressed
          ELSE compressed' = Framed("none", 0, raw.length) /\ spc' = "encode"
    BY DEF Compress
  <1>2. /\ spc = "compress"
        /\ UNCHANGED <<host, packets, raw, encoded, failed, net, receiverVars>>
    BY DEF Compress
  <1>3. /\ Len(packets) \in Nat /\ Len(packets) >= 1 /\ DOMAIN packets = 1..Len(packets)
        /\ raw.packet = Len(packets) /\ raw.packet \in DOMAIN packets
        /\ packets[raw.packet] \in Nat
        /\ raw.length = Least(packets[raw.packet])
        /\ raw.length \in Nat /\ raw.length >= MinLength
    BY <1>2, AtPacket
  <1>4. /\ CompressBound(raw.length) \in Nat /\ CompressBound(raw.length) >= raw.length
        /\ CompressBound(raw.length) <= MaxPayload => raw.length <= MaxCarried
    BY <1>3, WorstCase, Zenon
  <1>5. r \in Nat /\ (r > 0 => CompressBound(raw.length) <= MaxPayload)
    BY LengthsAssumption DEF ZstdResults
  <1>6. /\ ReceiverBuffers' /\ WholePackets'
    BY <1>2, ReceiverKept
  <1>7. InFlight' /\ MinLength' = MinLength
    BY <1>2 DEF IInv, InFlight, Sealed, Sound, MinLength
  <1>8. raw \in Buffered
    BY DEF IInv, TypeOK
  <1>9. CASE r > 0 /\ r < raw.length
    <2>1. compressed' = [flag |-> "zstd", original |-> raw.length, carries |-> raw,
                         length |-> TUNNEL_COMPRESS_HEADER_SIZE + r]
          /\ spc' = "encode"
      BY <1>1, <1>9 DEF Framed
    <2>2. compressed' \in Frame
      BY <1>3, <1>5, <1>8, <2>1 DEF Frame
    <2>3. TypeOK'
      BY <1>2, <2>1, <2>2 DEF IInv, TypeOK, receiverVars
    <2>4. Sound(compressed)' /\ compressed'.carries = raw /\ compressed'.length <= TUNNEL_PACKET_MAX_PLAINTEXT
      BY <1>2, <1>3, <1>4, <1>5, <1>7, <1>9, <2>1 DEF Sound, Least
    <2>5. RawOfPacket' /\ SenderBuffers'
      BY <1>2, <1>7, <2>1, <2>4 DEF IInv, RawOfPacket, SenderBuffers
    <2>6. NotYet' /\ CarriedLengths' /\ (failed \subseteq DOMAIN packets)'
      BY <1>2, <2>1, GoesOn
    <2>7. BuffersSuffice'
      <3>1. compressed'.length <= TUNNEL_PACKET_MAX_PLAINTEXT + TUNNEL_COMPRESS_HEADER_SIZE
        BY <1>3, <1>5, <2>1, <2>4
      <3> QED
        BY <1>2, <3>1 DEF IInv, BuffersSuffice, receiverVars
    <2> QED
      BY <1>6, <1>7, <2>3, <2>5, <2>6, <2>7 DEF IInv
  <1>10. CASE ~(r > 0 /\ r < raw.length) /\ raw.length > MaxPayload
    <2>1. spc' = "read" /\ UNCHANGED compressed
      BY <1>1, <1>10
    <2>2. TypeOK' /\ RawOfPacket' /\ SenderBuffers' /\ BuffersSuffice'
      BY <1>2, <2>1 DEF IInv, TypeOK, RawOfPacket, SenderBuffers, BuffersSuffice, receiverVars
    <2>3. packets[Len(packets)] > MaxCarried
      BY <1>3, <1>10 DEF Least
    <2>4. NotYet' /\ CarriedLengths' /\ (failed \subseteq DOMAIN packets)'
      BY <1>2, <2>1, <2>3, GivenUp
    <2> QED
      BY <1>6, <1>7, <2>2, <2>4 DEF IInv
  <1>11. CASE ~(r > 0 /\ r < raw.length) /\ ~(raw.length > MaxPayload)
    <2>1. compressed' = [flag |-> "none", original |-> 0, carries |-> raw,
                         length |-> TUNNEL_COMPRESS_HEADER_SIZE + raw.length]
          /\ spc' = "encode"
      BY <1>1, <1>11 DEF Framed
    <2>2. compressed' \in Frame
      BY <1>3, <1>8, <2>1 DEF Frame
    <2>3. TypeOK'
      BY <1>2, <2>1, <2>2 DEF IInv, TypeOK, receiverVars
    <2>4. Sound(compressed)' /\ compressed'.carries = raw /\ compressed'.length <= TUNNEL_PACKET_MAX_PLAINTEXT
      <3>1. raw.length <= MaxPayload
        BY <1>3, <1>11
      <3>2. raw.length = packets[raw.packet]
        BY <1>3, <3>1 DEF Least
      <3>3. compressed'.length <= OutCapacity
        BY <1>3, <2>1, <3>1
      <3> QED
        BY <1>2, <1>3, <1>7, <2>1, <3>2, <3>3 DEF Sound
    <2>5. RawOfPacket' /\ SenderBuffers'
      BY <1>2, <1>7, <2>1, <2>4 DEF IInv, RawOfPacket, SenderBuffers
    <2>6. NotYet' /\ CarriedLengths' /\ (failed \subseteq DOMAIN packets)'
      BY <1>2, <2>1, GoesOn
    <2>7. BuffersSuffice'
      <3>1. compressed'.length <= TUNNEL_PACKET_MAX_PLAINTEXT + TUNNEL_COMPRESS_HEADER_SIZE
        BY <1>3, <2>1, <2>4
      <3> QED
        BY <1>2, <3>1 DEF IInv, BuffersSuffice, receiverVars
    <2> QED
      BY <1>6, <1>7, <2>3, <2>5, <2>6, <2>7 DEF IInv
  <1> QED
    BY <1>9, <1>10, <1>11

\* tunnel_packet_encode (tunnel_packet.c:7).
LEMMA EncodeStep ==
    ASSUME LengthsAssumption, IInv, Encode
    PROVE  IInv'
  <1> USE Sizes
  <1>1. /\ spc = "encode"
        /\ UNCHANGED <<host, packets, raw, compressed, net, receiverVars>>
    BY DEF Encode
  <1>2. Sound(compressed) /\ compressed.carries = raw /\ compressed.length <= TUNNEL_PACKET_MAX_PLAINTEXT
    BY <1>1 DEF IInv, SenderBuffers, Sound
  <1>3. ReceiverBuffers' /\ WholePackets'
    BY <1>1, ReceiverKept
  <1>4. InFlight' /\ Sound(compressed)'
    BY <1>1, <1>2 DEF IInv, InFlight, Sealed, Sound, MinLength
  <1>5. compressed \in Frame /\ compressed.length \in Nat
    BY DEF IInv, TypeOK, Frame
  <1>6. CASE /\ encoded' = [frame |-> compressed,
                            length |-> TUNNEL_HEADER_SIZE + compressed.length
                                           + TUNNEL_AEAD_TAG_SIZE]
             /\ spc' = "send" /\ UNCHANGED failed
    <2>1. encoded'.frame = compressed /\ encoded'.length = TUNNEL_HEADER_SIZE + compressed.length + TUNNEL_AEAD_TAG_SIZE
          /\ encoded'.length \in Nat /\ encoded' \in Datagram
      BY <1>5, <1>6 DEF Datagram
    <2>2. TypeOK'
      BY <1>1, <1>6, <2>1 DEF IInv, TypeOK, receiverVars
    <2>3. RawOfPacket'
      BY <1>1, <1>6 DEF IInv, RawOfPacket, MinLength
    <2>4. SenderBuffers'
      BY <1>1, <1>2, <1>4, <1>6, <2>1 DEF SenderBuffers
    <2>5. NotYet' /\ CarriedLengths' /\ (failed \subseteq DOMAIN packets)'
      BY <1>1, <1>6, GoesOn
    <2>6. BuffersSuffice'
      <3>1. encoded'.length <= TUNNEL_PACKET_MAX_SIZE
        BY <1>2, <1>5, <2>1
      <3> QED
        BY <1>1, <3>1 DEF IInv, BuffersSuffice, receiverVars
    <2> QED
      BY <1>3, <1>4, <2>2, <2>3, <2>4, <2>5, <2>6 DEF IInv
  <1>7. CASE failed' = failed \cup {raw.packet} /\ spc' = "read" /\ UNCHANGED encoded
    <2>1. raw.packet \in Nat
      BY <1>1, AtPacket
    <2>2. TypeOK'
      <3>1. failed' \subseteq Nat
        BY <1>7, <2>1, Zenon DEF IInv, TypeOK
      <3> QED
        BY <1>1, <1>7, <3>1 DEF IInv, TypeOK, receiverVars
    <2>3. RawOfPacket' /\ SenderBuffers' /\ BuffersSuffice'
      BY <1>1, <1>7 DEF IInv, RawOfPacket, SenderBuffers, BuffersSuffice, receiverVars
    <2>4. NotYet' /\ CarriedLengths' /\ (failed \subseteq DOMAIN packets)'
      BY <1>1, <1>7, GivenUp
    <2> QED
      BY <1>3, <1>4, <2>2, <2>3, <2>4 DEF IInv
  <1> QED
    BY <1>2, <1>6, <1>7 DEF Encode

\* send (client_env.c:130, session_manager.c:315).
LEMMA SendStep ==
    ASSUME LengthsAssumption, IInv, SendDatagram
    PROVE  IInv'
  <1> USE Sizes
  <1> DEFINE l == Len(packets)
             f == compressed
  <1>1. /\ spc = "send" /\ spc' = "read"
        /\ UNCHANGED <<host, packets, raw, compressed, encoded, receiverVars>>
    BY DEF SendDatagram
  <1>2. /\ Sound(f) /\ f.carries = raw /\ encoded.frame = f
        /\ encoded.length = TUNNEL_HEADER_SIZE + f.length + TUNNEL_AEAD_TAG_SIZE
        /\ f \in Frame /\ f.length \in Nat /\ f.original \in Nat /\ encoded \in Datagram
    BY <1>1 DEF IInv, SenderBuffers, TypeOK, Frame
  <1>3. /\ l \in Nat /\ l >= 1 /\ DOMAIN packets = 1..l /\ raw.packet = l
        /\ packets[l] \in Nat /\ raw.length \in Nat
    BY <1>1, AtPacket
  <1>4. raw.length = packets[l] /\ raw.length >= MinLength
    BY <1>2, <1>3 DEF Sound
  <1>5. f.length <= MaxCarried + TUNNEL_COMPRESS_HEADER_SIZE <=> packets[l] <= MaxCarried
    <2>1. CASE f.flag = "none"
      BY <1>2, <1>3, <1>4, <2>1 DEF Sound
    <2>2. CASE f.flag = "zstd"
      <3>1. f.original = packets[l] /\ f.length < TUNNEL_COMPRESS_HEADER_SIZE + f.original
            /\ CompressBound(f.original) <= MaxPayload
        BY <1>2, <1>4, <2>2 DEF Sound
      <3>2. f.original <= MaxCarried
        BY <1>2, <3>1, WorstCase
      <3>3. /\ f.length \in Nat /\ f.original \in Nat /\ MaxCarried \in Nat
            /\ TUNNEL_COMPRESS_HEADER_SIZE \in Nat
        BY <1>2
      <3>4. f.length <= MaxCarried + TUNNEL_COMPRESS_HEADER_SIZE
        <4> DEFINE a == f.length
                   b == f.original
        <4>1. /\ a \in Nat /\ b \in Nat /\ b <= MaxCarried
              /\ a < TUNNEL_COMPRESS_HEADER_SIZE + b
          BY <3>1, <3>2, <3>3
        <4> HIDE DEF a, b
        <4>2. a <= MaxCarried + TUNNEL_COMPRESS_HEADER_SIZE
          BY <3>3, <4>1
        <4> QED
          BY <4>2 DEF a
      <3> QED
        BY <3>1, <3>2, <3>4
    <2> QED
      BY <1>2, <2>1, <2>2 DEF Sound
  <1>6. ReceiverBuffers' /\ WholePackets'
    BY <1>1, ReceiverKept
  <1>7. RawOfPacket' /\ SenderBuffers' /\ BuffersSuffice'
    BY <1>1 DEF IInv, RawOfPacket, SenderBuffers, BuffersSuffice, receiverVars
  <1>8. CASE encoded.length <= MaxDatagram /\ net' = net \cup {encoded} /\ UNCHANGED failed
    <2>1. TypeOK'
      BY <1>1, <1>2, <1>8 DEF IInv, TypeOK, receiverVars
    <2>2. InFlight'
      <3>1. encoded.frame # NULL /\ Sealed(encoded)
        BY <1>2, <1>8, NullAssumption DEF Sealed
      <3>2. \A d \in net' : d.frame # NULL /\ Sealed(d)
        BY <1>8, <3>1 DEF IInv, InFlight
      <3> QED
        BY <1>1, <3>2 DEF InFlight, Sealed, Sound, MinLength
    <2>3. Sent' = Sent \cup {l}
      BY <1>2, <1>3, <1>8 DEF Sent
    <2>4. packets[l] \in MinLength..MaxCarried
      BY <1>2, <1>3, <1>4, <1>5, <1>8
    <2>5. l \notin failed
      BY <1>1 DEF IInv, NotYet
    <2>6. CarriedLengths'
      <3> SUFFICES ASSUME NEW i \in 1..l
                   PROVE  i \in Sent' <=> packets[i] \in MinLength..MaxCarried /\ i \notin failed
        BY <1>1, <1>3, <1>8 DEF CarriedLengths, MinLength
      <3>1. CASE i = l
        BY <2>3, <2>4, <2>5, <3>1
      <3>2. CASE i # l
        <4>1. i < l
          BY <1>3, <3>2, Below, Zenon
        <4>2. i \in Sent' <=> i \in Sent
          BY <2>3, <3>2, Zenon
        <4> QED
          BY <1>3, <4>1, <4>2 DEF IInv, CarriedLengths
      <3> QED
        BY <3>1, <3>2
    <2>7. NotYet' /\ (failed \subseteq DOMAIN packets)'
      BY <1>1, <1>8 DEF IInv, NotYet
    <2> QED
      BY <1>6, <1>7, <2>1, <2>2, <2>6, <2>7 DEF IInv
  <1>9. CASE \/ encoded.length > MaxDatagram /\ UNCHANGED <<net, failed>>
             \/ failed' = failed \cup {raw.packet} /\ UNCHANGED net
    <2>1. TypeOK'
      <3>1. failed' \subseteq Nat /\ net' = net
        BY <1>3, <1>9, Zenon DEF IInv, TypeOK
      <3> QED
        BY <1>1, <3>1 DEF IInv, TypeOK, receiverVars
    <2>2. InFlight'
      BY <1>1, <1>9 DEF IInv, InFlight, Sealed, Sound, MinLength
    <2>3. \/ failed' = failed /\ packets[l] > MaxCarried
          \/ failed' = failed \cup {raw.packet}
      <3>1. CASE encoded.length > MaxDatagram /\ UNCHANGED <<net, failed>>
        <4>1. ~(f.length <= MaxCarried + TUNNEL_COMPRESS_HEADER_SIZE)
          BY <1>2, <3>1
        <4>2. ~(packets[l] <= MaxCarried)
          BY <1>5, <4>1
        <4>3. packets[l] \in Nat /\ MaxCarried \in Nat
          BY <1>3
        <4> QED
          BY <3>1, <4>2, <4>3
      <3> QED
        BY <1>9, <3>1
    <2>4. NotYet' /\ CarriedLengths' /\ (failed \subseteq DOMAIN packets)'
      BY <1>1, <1>9, <2>3, GivenUp
    <2> QED
      BY <1>6, <1>7, <2>1, <2>2, <2>4 DEF IInv
  <1> QED
    BY <1>8, <1>9 DEF SendDatagram

------------------------------------------------------------------------------
(* The receiver. *)

\* A datagram is taken (client_env.c:168, session_manager.c:203).
LEMMA RecvStep ==
    ASSUME LengthsAssumption, IInv, Recv
    PROVE  IInv'
  <1>1. UNCHANGED <<host, senderVars, plaintext, decompressed, written>>
    BY DEF Recv
  <1>2. buffer' \in net \cup Strays /\ rpc' \in {"recv", "decode"}
    BY DEF Recv
  <1>3. buffer' \in Datagram
    BY <1>2, LengthsAssumption DEF IInv, TypeOK, Strays, Datagram
  <1>4. TypeOK'
    BY <1>1, <1>2, <1>3 DEF IInv, TypeOK, senderVars
  <1>5. buffer'.frame # NULL => Sealed(buffer')
    BY <1>2 DEF IInv, InFlight, Strays
  <1>6. ReceiverBuffers'
    BY <1>1, <1>2, <1>5 DEF ReceiverBuffers, Sealed, Sound, MinLength, senderVars
  <1>7. WholePackets' /\ BuffersSuffice'
    BY <1>1 DEF IInv, WholePackets, BuffersSuffice, senderVars
  <1> QED
    BY <1>1, <1>4, <1>6, <1>7, SenderKept DEF IInv

\* tunnel_packet_decode (tunnel_packet.c:37).
LEMMA DecodeStep ==
    ASSUME LengthsAssumption, IInv, Decode
    PROVE  IInv'
  <1> USE Sizes
  <1>1. /\ rpc = "decode"
        /\ UNCHANGED <<host, senderVars, buffer, decompressed, written>>
    BY DEF Decode
  <1>2. CASE rpc' = "recv" /\ UNCHANGED plaintext
    <2>1. TypeOK' /\ ReceiverBuffers' /\ WholePackets' /\ BuffersSuffice'
      BY <1>1, <1>2 DEF IInv, TypeOK, ReceiverBuffers, WholePackets, BuffersSuffice, senderVars
    <2> QED
      BY <1>1, <2>1, SenderKept DEF IInv
  <1>3. CASE /\ buffer.frame # NULL /\ rpc' = "decompress"
             /\ plaintext' = [frame |-> buffer.frame,
                              length |-> buffer.length - TUNNEL_HEADER_SIZE
                                             - TUNNEL_AEAD_TAG_SIZE]
    <2>1. /\ Sound(buffer.frame) /\ buffer.frame \in Frame /\ buffer.frame.length \in Nat
          /\ buffer.length = TUNNEL_HEADER_SIZE + buffer.frame.length + TUNNEL_AEAD_TAG_SIZE
      BY <1>1, <1>3 DEF IInv, TypeOK, ReceiverBuffers, Sealed, Datagram, Frame
    <2>2. buffer.length - TUNNEL_HEADER_SIZE - TUNNEL_AEAD_TAG_SIZE = buffer.frame.length
      BY <2>1
    <2>3. plaintext' = [frame |-> buffer.frame, length |-> buffer.frame.length]
      BY <1>3, <2>2
    <2>4. TypeOK'
      BY <1>1, <1>3, <2>1, <2>3 DEF IInv, TypeOK, senderVars
    <2>5. ReceiverBuffers'
      BY <1>1, <1>3, <2>1, <2>3 DEF ReceiverBuffers, Sound, MinLength, senderVars
    <2>6. buffer.frame.length <= TUNNEL_PACKET_MAX_SIZE
      BY <2>1 DEF Sound
    <2>7. WholePackets' /\ BuffersSuffice'
      BY <1>1, <2>3, <2>6 DEF IInv, WholePackets, BuffersSuffice, senderVars
    <2> QED
      BY <1>1, <2>4, <2>5, <2>7, SenderKept DEF IInv
  <1> QED
    BY <1>2, <1>3 DEF Decode

\* tunnel_pipeline_decompress (tunnel_compress.c:38).
LEMMA DecompressStep ==
    ASSUME LengthsAssumption, IInv, Decompress
    PROVE  IInv'
  <1> USE Sizes
  <1>1. /\ rpc = "decompress"
        /\ UNCHANGED <<host, senderVars, buffer, plaintext, written>>
    BY DEF Decompress
  <1>2. PICK n \in FinalLength :
          IF n = 0 THEN rpc' = "recv" /\ UNCHANGED decompressed
          ELSE /\ decompressed' = [packet |-> plaintext.frame.carries.packet, length |-> n]
               /\ rpc' = "write"
    BY DEF Decompress
  <1>3. CASE n = 0
    <2>1. TypeOK' /\ ReceiverBuffers' /\ WholePackets' /\ BuffersSuffice'
      BY <1>1, <1>2, <1>3
      DEF IInv, TypeOK, ReceiverBuffers, WholePackets, BuffersSuffice, senderVars
    <2> QED
      BY <1>1, <2>1, SenderKept DEF IInv
  <1>4. CASE n # 0
    <2> DEFINE f == plaintext.frame
    <2>1. /\ Sound(f) /\ plaintext.length = f.length /\ f \in Frame /\ f.length \in Nat
          /\ f.original \in Nat /\ f.carries.length \in Nat /\ f.carries.packet \in Nat
      BY <1>1 DEF IInv, TypeOK, ReceiverBuffers, Frame, Buffered
    <2>2. n = f.carries.length /\ n <= TUNNEL_PACKET_MAX_PLAINTEXT
      <3>1. CASE f.flag = "none"
        <4>1. f.length = TUNNEL_COMPRESS_HEADER_SIZE + f.carries.length
          BY <2>1, <3>1 DEF Sound
        <4>2. f.length - TUNNEL_COMPRESS_HEADER_SIZE = f.carries.length
          BY <2>1, <4>1
        <4>3. n = f.length - TUNNEL_COMPRESS_HEADER_SIZE /\ n <= TUNNEL_PACKET_MAX_PLAINTEXT
          BY <1>4, <2>1, <3>1, <4>2 DEF FinalLength
        <4> QED
          BY <4>2, <4>3
      <3>2. CASE f.flag = "zstd"
        <4>1. n = f.original /\ f.carries.length = f.original
              /\ ~(f.original > TUNNEL_PACKET_MAX_PLAINTEXT)
          BY <1>4, <3>2 DEF FinalLength
        <4> QED
          BY <2>1, <4>1
      <3> QED
        BY <2>1, <3>1, <3>2 DEF Sound
    <2>3. /\ rpc' = "write" /\ decompressed' = [packet |-> f.carries.packet, length |-> n]
          /\ decompressed'.packet \in DOMAIN packets
          /\ decompressed'.length = packets[decompressed'.packet]
          /\ decompressed' \in Buffered
      BY <1>2, <1>4, <2>1, <2>2 DEF Sound, Buffered
    <2>4. TypeOK'
      BY <1>1, <2>3 DEF IInv, TypeOK, senderVars
    <2>5. ReceiverBuffers' /\ WholePackets'
      BY <1>1, <2>3 DEF IInv, ReceiverBuffers, WholePackets, senderVars
    <2>6. BuffersSuffice'
      BY <1>1, <2>2, <2>3 DEF IInv, BuffersSuffice, senderVars
    <2> QED
      BY <1>1, <2>4, <2>5, <2>6, SenderKept DEF IInv
  <1> QED
    BY <1>3, <1>4

\* tun_write (client_env.c:182, session_manager.c:231).
LEMMA WriteStep ==
    ASSUME LengthsAssumption, IInv, WriteTun
    PROVE  IInv'
  <1>1. /\ rpc = "write" /\ rpc' = "recv"
        /\ written' = written \cup {decompressed} \/ UNCHANGED written
        /\ UNCHANGED <<host, senderVars, buffer, plaintext, decompressed>>
    BY DEF WriteTun
  <1>2. TypeOK'
    BY <1>1 DEF IInv, TypeOK, senderVars
  <1>3. ReceiverBuffers' /\ BuffersSuffice'
    BY <1>1 DEF IInv, ReceiverBuffers, BuffersSuffice, senderVars
  <1>4. WholePackets'
    BY <1>1 DEF IInv, WholePackets, ReceiverBuffers, senderVars
  <1> QED
    BY <1>1, <1>2, <1>3, <1>4, SenderKept DEF IInv

------------------------------------------------------------------------------
(* The theorems. *)

\* The buffers hold nothing when the threads start.
LEMMA InitInv ==
    ASSUME Init
    PROVE  IInv
  <1> USE Sizes
  <1>1. Nothing \in Buffered /\ NoFrame \in Frame
    BY DEF Nothing, NoFrame, Buffered, Frame
  <1>2. TypeOK
    BY <1>1 DEF Init, TypeOK, Datagram
  <1>3. RawOfPacket /\ SenderBuffers /\ InFlight /\ NotYet /\ CarriedLengths
    BY DEF Init, RawOfPacket, SenderBuffers, InFlight, NotYet, CarriedLengths
  <1>4. ReceiverBuffers /\ WholePackets /\ failed \subseteq DOMAIN packets
    BY DEF Init, ReceiverBuffers, WholePackets
  <1>5. BuffersSuffice
    BY DEF Init, BuffersSuffice, Nothing, NoFrame
  <1> QED
    BY <1>2, <1>3, <1>4, <1>5 DEF IInv

\* Every step of the sender and of the receiver keeps the invariant.
LEMMA InductiveStep ==
    ASSUME LengthsAssumption, IInv, [Next]_vars
    PROVE  IInv'
  <1>1. CASE UNCHANGED vars
    <2>1. TypeOK' /\ ReceiverBuffers' /\ WholePackets' /\ BuffersSuffice'
      BY <1>1 DEF vars, senderVars, receiverVars, IInv, TypeOK, ReceiverBuffers, Sealed, Sound,
                  MinLength, WholePackets, BuffersSuffice
    <2> QED
      BY <1>1, <2>1, SenderKept DEF vars, IInv
  <1> QED
    BY <1>1, ReadStep, CompressStep, EncodeStep, SendStep, RecvStep, DecodeStep,
       DecompressStep, WriteStep DEF Next

\* The buffers of both threads hold what the code takes them to hold.
THEOREM PipelineInvariant == Spec => []IInv
  <1>1. Init => IInv
    BY InitInv
  <1>2. IInv /\ [Next]_vars => IInv'
    BY LengthsAssumption, InductiveStep
  <1> QED
    BY <1>1, <1>2, PTL DEF Spec

\* No packet, however long it was and whatever zstd made of it, comes out cut
\* (tunnel_compress.c:15, 29).
THEOREM PacketsComeOutWhole == Spec => []WholePackets
  <1>1. IInv => WholePackets
    BY DEF IInv
  <1> QED
    BY <1>1, PipelineInvariant, PTL

\* Whether a packet can be sent depends on its length alone (client_env.c:130).
THEOREM LengthDecides == Spec => []CarriedLengths
  <1>1. IInv => CarriedLengths
    BY DEF IInv
  <1> QED
    BY <1>1, PipelineInvariant, PTL

\* No buffer is written past its end (tunnel_packet.h:47, 65).
THEOREM NoBufferOverrun == Spec => []BuffersSuffice
  <1>1. IInv => BuffersSuffice
    BY DEF IInv
  <1> QED
    BY <1>1, PipelineInvariant, PTL
==============================================================================
