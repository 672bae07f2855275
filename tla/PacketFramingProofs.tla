-------------------------- MODULE PacketFramingProofs -------------------------
(***************************************************************************)
(* The framing for any size of header, packet and kernel buffer.  The one  *)
(* argument: the receiver is always inside the packet that follows those   *)
(* it has returned, at the byte it takes it for, because every packet      *)
(* starts where the one before it ends and either end stops for good at    *)
(* the first thing that fails.                                             *)
(***************************************************************************)
EXTENDS PacketFraming, SequenceTheorems, TLAPS

\* An entry of a concatenation, by the part it comes from.
LEMMA AppendedEntries ==
    ASSUME NEW S, NEW s1 \in Seq(S), NEW s2 \in Seq(S)
    PROVE  /\ s1 \o s2 \in Seq(S) /\ Len(s1 \o s2) = Len(s1) + Len(s2)
           /\ \A i \in 1..Len(s1) : (s1 \o s2)[i] = s1[i]
           /\ \A k \in 1..Len(s2) : (s1 \o s2)[Len(s1) + k] = s2[k]
  <1> DEFINE m == Len(s1)
             n == Len(s2)
             t == s1 \o s2
  <1>1. m \in Nat /\ n \in Nat
    OBVIOUS
  <1>2. /\ t \in Seq(S) /\ Len(t) = m + n
        /\ \A i \in 1..m + n : t[i] = IF i <= m THEN s1[i] ELSE s2[i - m]
    BY ConcatProperties
  <1> HIDE DEF m, n, t
  <1>3. ASSUME NEW i \in 1..m PROVE t[i] = s1[i]
    <2>1. i \in 1..m + n /\ i <= m
      BY <1>1
    <2> QED
      BY <1>2, <2>1
  <1>4. ASSUME NEW k \in 1..n PROVE t[m + k] = s2[k]
    <2>1. m + k \in 1..m + n /\ ~(m + k <= m) /\ (m + k) - m = k
      BY <1>1
    <2> QED
      BY <1>2, <2>1
  <1> QED
    BY <1>2, <1>3, <1>4 DEF m, n, t

\* What a packet on record is.
LEMMA SendsType ==
    ASSUME TypeOK, SizesAssumption, NEW i \in DOMAIN sends
    PROVE  /\ i \in Nat /\ i >= 1 /\ i <= Len(sends)
           /\ sends[i].length \in Nat /\ sends[i].length <= MaxPacketSize
           /\ sends[i].start \in Nat
           /\ HeaderSize \in Nat /\ HeaderSize >= 1
           /\ Size(i) \in Nat /\ Size(i) = HeaderSize + sends[i].length
  <1> DEFINE P == [length : 0..MaxPacketSize, start : Nat]
  <1>1. sends[i] \in P
    <2>1. sends \in Seq(P)
      BY DEF TypeOK
    <2> HIDE DEF P
    <2> QED
      BY <2>1
  <1>2. i \in 1..Len(sends) /\ Len(sends) \in Nat
    BY DEF TypeOK
  <1> QED
    BY <1>1, <1>2, SizesAssumption DEF Size

\* Bytes that reach the tape come after those already there.
LEMMA TapeGrows ==
    ASSUME NEW piece \in Seq(Nat \X Nat), tape \in Seq(Nat \X Nat), tape' = tape \o piece
    PROVE  /\ tape' \in Seq(Nat \X Nat) /\ Len(tape') = Len(tape) + Len(piece)
           /\ \A i \in 1..Len(tape) : tape'[i] = tape[i]
           /\ \A k \in 1..Len(piece) : tape'[Len(tape) + k] = piece[k]
  <1> DEFINE S == Nat \X Nat
  <1>1. tape \in Seq(S) /\ piece \in Seq(S)
    OBVIOUS
  <1> HIDE DEF S
  <1>2. /\ tape \o piece \in Seq(S) /\ Len(tape \o piece) = Len(tape) + Len(piece)
        /\ \A i \in 1..Len(tape) : (tape \o piece)[i] = tape[i]
        /\ \A k \in 1..Len(piece) : (tape \o piece)[Len(tape) + k] = piece[k]
    BY <1>1, AppendedEntries
  <1> QED
    BY <1>2 DEF S

\* Writing more bytes of the last packet (packet.c:137) keeps the record.
LEMMA WriteKeeps ==
    ASSUME TypeOK, SizesAssumption, Consecutive, Recorded, sends # << >>,
           NEW n \in Nat, NEW from \in Nat, UNCHANGED sends, Write(n, from),
           Len(tape) = sends[Len(sends)].start + from
    PROVE  /\ tape' \in Seq(Nat \X Nat)
           /\ Len(tape') = Len(tape) + n
           /\ Recorded'
  <1> DEFINE l == Len(sends)
             piece == [k \in 1..n |-> <<l, from + k - 1>>]
  <1>1. l \in Nat /\ l \in DOMAIN sends
    BY DEF TypeOK
  <1>2. tape \in Seq(Nat \X Nat) /\ Len(tape) \in Nat
    BY DEF TypeOK
  <1>3. piece \in Seq(Nat \X Nat) /\ Len(piece) = n
    <2>1. \A k \in 1..n : <<l, from + k - 1>> \in Nat \X Nat
      BY <1>1
    <2>2. piece \in [1..n -> Nat \X Nat]
      BY <2>1
    <2> QED
      BY <2>2
  <1>4. tape' = tape \o piece
    BY DEF Write
  <1> HIDE DEF piece
  <1>5. /\ tape' \in Seq(Nat \X Nat) /\ Len(tape') = Len(tape) + n
        /\ \A i \in 1..Len(tape) : tape'[i] = tape[i]
        /\ \A k \in 1..n : tape'[Len(tape) + k] = piece[k]
    BY <1>2, <1>3, <1>4, TapeGrows
  <1>6. ASSUME NEW i \in DOMAIN sends, NEW j \in 0..(HeaderSize + sends[i].length - 1),
               sends[i].start + j < Len(tape')
        PROVE  tape'[sends[i].start + j + 1] = <<i, j>>
    <2>1. sends[i].start \in Nat /\ Size(i) \in Nat /\ j \in Nat /\ i \in Nat /\ i <= l
          /\ j < Size(i)
      <3> DEFINE m == sends[i].length
      <3>1. /\ sends[i].start \in Nat /\ Size(i) \in Nat /\ Size(i) = HeaderSize + m
            /\ m \in Nat /\ i \in Nat /\ i <= l /\ HeaderSize \in Nat
        BY SendsType
      <3>2. j \in 0..(HeaderSize + m - 1)
        OBVIOUS
      <3> HIDE DEF m
      <3>3. j \in Nat /\ j < HeaderSize + m
        BY <3>1, <3>2
      <3> QED
        BY <3>1, <3>3
    <2>2. CASE sends[i].start + j < Len(tape)
      <3>1. tape'[sends[i].start + j + 1] = tape[sends[i].start + j + 1]
        <4>1. sends[i].start + j + 1 \in 1..Len(tape)
          <5> DEFINE s == sends[i].start
                     len == Len(tape)
          <5>1. s \in Nat /\ len \in Nat /\ j \in Nat /\ s + j < len
            BY <1>2, <2>1, <2>2
          <5> HIDE DEF s, len
          <5>2. s + j + 1 \in 1..len
            BY <5>1
          <5> QED
            BY <5>2 DEF s, len
        <4> QED
          BY <1>5, <4>1
      <3> QED
        BY <2>2, <3>1 DEF Recorded
    <2>3. CASE sends[i].start + j >= Len(tape)
      <3>1. i = l
        <4> SUFFICES ASSUME i < l PROVE FALSE
          BY <1>1, <2>1
        <4>1. sends[i].start + Size(i) <= sends[l].start
          BY DEF Consecutive
        <4>2. sends[l].start \in Nat
          BY <1>1, SendsType
        <4> QED
          BY <1>2, <2>1, <2>3, <4>1, <4>2
      <3>2. sends[l].start \in Nat
        BY <1>1, SendsType
      <3> DEFINE k == sends[i].start + j + 1 - Len(tape)
      <3>3. k \in 1..n /\ k = j - from + 1
        <4>1. Len(tape) = sends[i].start + from
          BY <3>1
        <4>2. Len(tape') = Len(tape) + n
          BY <1>5
        <4>3. sends[i].start + j < Len(tape) + n
          BY <1>6, <4>2
        <4> DEFINE s == sends[i].start
                   len == Len(tape)
        <4>4. /\ s \in Nat /\ len \in Nat /\ j \in Nat /\ len = s + from
              /\ s + j >= len /\ s + j < len + n
          BY <1>2, <2>1, <2>3, <4>1, <4>3
        <4> HIDE DEF s, len
        <4>5. s + j + 1 - len \in 1..n /\ s + j + 1 - len = j - from + 1
          BY <4>4
        <4> QED
          BY <4>5 DEF s, len
      <3>4. tape'[Len(tape) + k] = piece[k]
        BY <1>5, <3>3
      <3>5. Len(tape) + k = sends[i].start + j + 1
        <4> DEFINE s == sends[i].start
                   len == Len(tape)
        <4>1. s \in Nat /\ len \in Nat /\ j \in Nat
          BY <1>2, <2>1
        <4> HIDE DEF s, len
        <4>2. len + (s + j + 1 - len) = s + j + 1
          BY <4>1
        <4> QED
          BY <4>2 DEF s, len
      <3> HIDE DEF k
      <3>6. piece[k] = <<l, from + k - 1>>
        BY <3>3 DEF piece
      <3>7. from + k - 1 = j
        BY <3>3, <2>1
      <3> QED
        BY <3>1, <3>4, <3>5, <3>6, <3>7
    <2>4. sends[i].start + j < Len(tape) \/ sends[i].start + j >= Len(tape)
      BY <1>2, <2>1
    <2> QED
      BY <2>2, <2>3, <2>4
  <1> QED
    BY <1>5, <1>6 DEF Recorded, Size

\* A step of send_all (packet.c:137).
LEMMA SendStep ==
    ASSUME SizesAssumption, IInv, Send
    PROVE  IInv'
  <1> USE SizesAssumption DEF receiverVars
  <1> DEFINE l == Len(sends)
  <1>1. UNCHANGED <<sends, nread, rpc, total_received, payload_length, received>>
    BY DEF Send, SendHeader, SendPayload
  <1>2. done < l /\ l \in Nat /\ done \in Nat /\ total_sent \in Nat /\ l = done + 1
    BY DEF IInv, TypeOK, SenderProgress, Send, SendHeader, SendPayload
  <1>3. l \in DOMAIN sends /\ sends # << >>
    BY <1>2 DEF IInv, TypeOK
  <1>4. /\ sends[l].start \in Nat /\ sends[l].length \in Nat /\ Size(l) = HeaderSize + sends[l].length
        /\ HeaderSize \in Nat /\ HeaderSize >= 1
    BY <1>3, SendsType DEF IInv
  <1>5. Len(tape) \in Nat /\ nread \in Nat /\ nread <= Len(tape)
    BY DEF IInv, TypeOK
  <1>6. PICK n \in Nat, from \in Nat :
           /\ n >= 1 /\ Write(n, from) /\ Len(tape) = sends[l].start + from
           /\ \/ /\ spc = "header" /\ from = total_sent
                 /\ IF total_sent + n < HeaderSize
                    THEN total_sent' = total_sent + n /\ UNCHANGED <<spc, done>>
                    ELSE /\ total_sent' = 0 /\ from + n = HeaderSize
                         /\ IF sends[l].length > 0 THEN spc' = "payload" /\ UNCHANGED done
                            ELSE spc' = "idle" /\ done' = done + 1
              \/ /\ spc = "payload" /\ from = HeaderSize + total_sent
                 /\ IF total_sent + n < sends[l].length
                    THEN total_sent' = total_sent + n /\ UNCHANGED <<spc, done>>
                    ELSE /\ total_sent' = 0 /\ from + n = Size(l)
                         /\ spc' = "idle" /\ done' = done + 1
    <2>1. CASE SendHeader
      <3>1. spc = "header" /\ total_sent < HeaderSize /\ Len(tape) = sends[l].start + total_sent
        BY <2>1 DEF SendHeader, IInv, SenderProgress
      <3>2. PICK n \in 1..(HeaderSize - total_sent) :
               /\ Write(n, total_sent)
               /\ IF total_sent + n < HeaderSize
                  THEN total_sent' = total_sent + n /\ UNCHANGED <<spc, done>>
                  ELSE /\ total_sent' = 0
                       /\ IF sends[l].length > 0 THEN spc' = "payload" /\ UNCHANGED done
                          ELSE spc' = "idle" /\ done' = done + 1
        BY <2>1 DEF SendHeader
      <3>3. n \in Nat /\ n >= 1 /\ (total_sent + n >= HeaderSize => total_sent + n = HeaderSize)
        BY <1>2, <1>4, <3>1, <3>2
      <3> QED
        BY <1>2, <1>4, <3>1, <3>2, <3>3
    <2>2. CASE SendPayload
      <3>1. /\ spc = "payload" /\ total_sent < sends[l].length
            /\ Len(tape) = sends[l].start + (HeaderSize + total_sent)
        <4>1. /\ spc = "payload" /\ total_sent < sends[l].length
              /\ Len(tape) = (sends[l].start + HeaderSize) + total_sent
          BY <2>2 DEF SendPayload, IInv, SenderProgress
        <4> DEFINE s == sends[l].start
        <4>2. s \in Nat /\ total_sent \in Nat /\ HeaderSize \in Nat
          BY <1>2, <1>4
        <4> HIDE DEF s
        <4>3. (s + HeaderSize) + total_sent = s + (HeaderSize + total_sent)
          BY <4>2
        <4> QED
          BY <4>1, <4>3 DEF s
      <3>2. PICK n \in 1..(sends[l].length - total_sent) :
               /\ Write(n, HeaderSize + total_sent)
               /\ IF total_sent + n < sends[l].length
                  THEN total_sent' = total_sent + n /\ UNCHANGED <<spc, done>>
                  ELSE total_sent' = 0 /\ spc' = "idle" /\ done' = done + 1
        BY <2>2 DEF SendPayload
      <3>3. n \in Nat /\ n >= 1 /\ HeaderSize + total_sent \in Nat
            /\ (total_sent + n >= sends[l].length => HeaderSize + total_sent + n = Size(l))
        BY <1>2, <1>4, <3>1, <3>2
      <3> QED
        BY <1>2, <1>4, <3>1, <3>2, <3>3
    <2> QED
      BY <2>1, <2>2 DEF Send
  <1>7. tape' \in Seq(Nat \X Nat) /\ Len(tape') = Len(tape) + n /\ Recorded'
    BY <1>1, <1>3, <1>6, WriteKeeps DEF IInv
  <1>8. TypeOK'
    <2>1. total_sent' \in Nat /\ done' \in Nat /\ spc' \in {"idle", "header", "payload", "closed"}
      BY <1>2, <1>6
    <2>2. nread' <= Len(tape')
      BY <1>1, <1>5, <1>6, <1>7
    <2> QED
      BY <1>1, <1>7, <2>1, <2>2 DEF IInv, TypeOK
  <1>9. Consecutive' /\ WholePackets'
    BY <1>1 DEF IInv, Consecutive, WholePackets, Whole, Size
  <1>10. SenderProgress'
    <2>1. Len(tape') = sends[l].start + (from + n)
      <3> DEFINE s == sends[l].start
                 len == Len(tape)
      <3>1. s \in Nat /\ len = s + from /\ Len(tape') = len + n /\ n \in Nat /\ from \in Nat
        BY <1>4, <1>6, <1>7
      <3> HIDE DEF s, len
      <3>2. Len(tape') = s + (from + n)
        BY <3>1
      <3> QED
        BY <3>2 DEF s
    <2>2. ASSUME spc' # "closed", done' \in {done, done + 1},
                 done' = l => Len(tape') = sends[l].start + HeaderSize + sends[l].length,
                 done' < l => Len(tape') < sends[l].start + HeaderSize + sends[l].length,
                 spc' = "idle" => done' = l,
                 spc' = "header" => /\ done' < l /\ total_sent' < HeaderSize
                                    /\ Len(tape') = sends[l].start + total_sent',
                 spc' = "payload" => /\ done' < l /\ total_sent' < sends[l].length
                                     /\ Len(tape') = sends[l].start + HeaderSize + total_sent'
          PROVE  SenderProgress'
      <3>1. sends' = sends /\ l # 0 /\ done' <= l /\ l <= done' + 1 /\ l \in Nat
        BY <1>1, <1>2, <2>2
      <3>2. sends[l].start + HeaderSize + sends[l].length = sends[l].start + Size(l)
        BY <1>4
      <3>3. sends[l].start <= Len(tape')
        <4> DEFINE s == sends[l].start
        <4>1. s \in Nat /\ from \in Nat /\ n \in Nat /\ Len(tape') = s + (from + n)
          BY <1>4, <1>6, <2>1
        <4> HIDE DEF s
        <4>2. s <= Len(tape')
          BY <4>1
        <4> QED
          BY <4>2 DEF s
      <3> QED
        BY <2>2, <3>1, <3>2, <3>3 DEF SenderProgress, Size
    <2>3. CASE spc = "header"
      <3>1. CASE total_sent + n < HeaderSize
        <4> DEFINE s == sends[l].start
        <4>1. /\ spc' = "header" /\ done' = done /\ total_sent' = total_sent + n /\ from = total_sent
          BY <1>6, <2>3, <3>1
        <4>2. Len(tape') = s + total_sent + n /\ s \in Nat
          BY <1>4, <2>1, <4>1
        <4> HIDE DEF s
        <4>3. Len(tape') = s + total_sent'
          BY <1>2, <4>1, <4>2
        <4>4. done' < l /\ total_sent' < HeaderSize /\ l # done'
          BY <1>2, <3>1, <4>1
        <4> DEFINE m == sends[l].length
        <4>5. Len(tape') < s + HeaderSize + m
          <5>1. total_sent' \in Nat /\ HeaderSize \in Nat /\ m \in Nat
            BY <1>2, <1>4, <1>6, <4>1
          <5> HIDE DEF m
          <5> QED
            BY <4>2, <4>3, <4>4, <5>1
        <4>6. /\ spc' = "header" /\ spc' # "closed" /\ spc' # "idle" /\ spc' # "payload"
              /\ done' \in {done, done + 1}
          BY <4>1
        <4> QED
          BY <2>2, <4>3, <4>4, <4>5, <4>6 DEF s, m
      <3>2. CASE ~(total_sent + n < HeaderSize) /\ sends[l].length > 0
        <4>1. /\ spc' = "payload" /\ total_sent' = 0 /\ done' = done /\ from + n = HeaderSize
          BY <1>2, <1>6, <2>3, <3>2
        <4>2. Len(tape') = sends[l].start + HeaderSize
          BY <1>4, <2>1, <4>1
        <4> QED
          BY <1>2, <1>4, <2>2, <3>2, <4>1, <4>2
      <3>3. CASE ~(total_sent + n < HeaderSize) /\ ~(sends[l].length > 0)
        <4>1. /\ spc' = "idle" /\ total_sent' = 0 /\ done' = l /\ from + n = HeaderSize
          BY <1>2, <1>6, <2>3, <3>3
        <4>2. Len(tape') = sends[l].start + HeaderSize
          BY <2>1, <4>1
        <4>3. sends[l].length = 0
          BY <1>4, <3>3
        <4> QED
          BY <1>2, <1>4, <2>2, <4>1, <4>2, <4>3
      <3> QED
        BY <3>1, <3>2, <3>3
    <2>4. CASE spc = "payload"
      <3>1. CASE total_sent + n < sends[l].length
        BY <1>2, <1>4, <1>6, <2>1, <2>2, <2>4, <3>1
      <3>2. CASE ~(total_sent + n < sends[l].length)
        <4>1. spc' = "idle" /\ done' = l /\ from + n = HeaderSize + sends[l].length
          BY <1>2, <1>4, <1>6, <2>4, <3>2
        <4>2. Len(tape') = sends[l].start + HeaderSize + sends[l].length
          <5>1. Len(tape') = sends[l].start + (HeaderSize + sends[l].length)
            BY <2>1, <4>1
          <5> QED
            BY <1>4, <5>1
        <4> QED
          BY <1>2, <1>4, <2>2, <4>1, <4>2
      <3> QED
        BY <3>1, <3>2
    <2> QED
      BY <1>6, <2>3, <2>4
  <1>11. ReceiverProgress'
    <2>1. Len(received) \in Nat
      BY DEF IInv, WholePackets
    <2>2. Len(received) <= done /\ Len(received) + 1 <= l /\ done' >= done /\ done' \in Nat
      BY <1>2, <1>6, <2>1 DEF IInv, ReceiverProgress
    <2> QED
      BY <1>1, <1>2, <2>1, <2>2 DEF IInv, ReceiverProgress
  <1> QED
    BY <1>7, <1>8, <1>9, <1>10, <1>11 DEF IInv

\* A new packet starts where the stream ends (packet.c:31).
LEMMA PacketSendStep ==
    ASSUME SizesAssumption, IInv, PacketSend
    PROVE  IInv'
  <1> USE SizesAssumption DEF receiverVars
  <1>1. PICK n \in Lengths :
           IF n > MaxPacketSize THEN spc' = "closed" /\ UNCHANGED sends
           ELSE /\ spc' = "header"
                /\ sends' = Append(sends, [length |-> n, start |-> Len(tape)])
    BY DEF PacketSend
  <1>2. /\ spc = "idle" /\ Len(sends) < MaxPackets /\ total_sent' = 0
        /\ UNCHANGED <<done, tape, nread, rpc, total_received, payload_length, received>>
    BY DEF PacketSend
  <1>3. CASE n > MaxPacketSize
    <2>1. spc' = "closed" /\ UNCHANGED sends
      BY <1>1, <1>3
    <2>2. TypeOK' /\ Consecutive' /\ Recorded' /\ WholePackets' /\ ReceiverProgress'
      BY <1>2, <2>1 DEF IInv, TypeOK, Consecutive, Recorded, WholePackets, ReceiverProgress,
                        Size, Whole
    <2>3. SenderProgress'
      BY <1>2, <2>1 DEF IInv, SenderProgress, Size
    <2> QED
      BY <2>2, <2>3 DEF IInv
  <1>4. CASE ~(n > MaxPacketSize)
    <2> DEFINE P == [length : 0..MaxPacketSize, start : Nat]
               p == [length |-> n, start |-> Len(tape)]
               l == Len(sends)
    <2>1. spc' = "header" /\ sends' = Append(sends, p)
      BY <1>1, <1>4
    <2>2. n \in 0..MaxPacketSize /\ n \in Nat
      BY <1>4 DEF Lengths
    <2>3. Len(tape) \in Nat /\ tape \in Seq(Nat \X Nat)
      BY DEF IInv, TypeOK
    <2>4. p \in P /\ p.length = n /\ p.start = Len(tape)
      BY <2>2, <2>3
    <2>5. sends \in Seq(P) /\ l \in Nat
      BY DEF IInv, TypeOK
    <2> HIDE DEF p, P
    <2>6. /\ sends' \in Seq(P) /\ Len(sends') = l + 1 /\ sends'[l + 1] = p
          /\ DOMAIN sends = 1..l /\ DOMAIN sends' = 1..(l + 1)
          /\ \A i \in 1..l : sends'[i] = sends[i]
      BY <2>1, <2>4, <2>5
    <2>7. done = l /\ (l > 0 => Len(tape) = sends[l].start + Size(l)) /\ (l = 0 => Len(tape) = 0)
      BY <1>2, <2>5 DEF IInv, SenderProgress
    <2>8. \A i \in 1..l : /\ sends[i].start \in Nat /\ Size(i) \in Nat
                          /\ sends[i].start + Size(i) <= Len(tape)
      <3> SUFFICES ASSUME NEW i \in 1..l
                   PROVE  /\ sends[i].start \in Nat /\ Size(i) \in Nat
                          /\ sends[i].start + Size(i) <= Len(tape)
        OBVIOUS
      <3>1. /\ sends[i].start \in Nat /\ Size(i) \in Nat /\ sends[l].start \in Nat
            /\ Size(l) \in Nat /\ l > 0
        BY <2>6, SendsType DEF IInv
      <3>2. CASE i = l
        BY <2>7, <3>1, <3>2
      <3>3. CASE i < l
        <4>1. sends[i].start + Size(i) <= sends[l].start
          BY <2>6, <3>3 DEF IInv, Consecutive
        <4> QED
          BY <2>7, <3>1, <4>1
      <3> QED
        BY <2>5, <3>2, <3>3
    <2>9. TypeOK'
      <3>1. Len(sends') <= MaxPackets
        BY <1>2, <2>5, <2>6
      <3>2. sends' \in Seq([length : 0..MaxPacketSize, start : Nat])
        BY <2>6 DEF P
      <3> QED
        BY <1>2, <2>1, <3>1, <3>2 DEF IInv, TypeOK
    <2>10. sends'[l + 1].start = Len(tape) /\ sends'[l + 1].length = n
      BY <2>4, <2>6
    <2>11. Consecutive'
      <3>1. sends'[1].start = 0
        BY <2>5, <2>6, <2>7, <2>10 DEF IInv, Consecutive
      <3>2. ASSUME NEW i \in 1..(l + 1), i + 1 \in 1..(l + 1)
            PROVE  sends'[i + 1].start = sends'[i].start + (HeaderSize + sends'[i].length)
        <4>1. i \in 1..l
          BY <2>5, <3>2
        <4>2. CASE i = l
          BY <2>6, <2>7, <2>10, <4>1, <4>2 DEF Size
        <4>3. CASE i < l
          <5>1. i + 1 \in 1..l
            BY <2>5, <4>1, <4>3
          <5> QED
            BY <2>6, <4>1, <5>1 DEF IInv, Consecutive, Size
        <4> QED
          BY <2>5, <4>1, <4>2, <4>3
      <3>3. ASSUME NEW i \in 1..(l + 1), i < l + 1
            PROVE  sends'[i].start + (HeaderSize + sends'[i].length) <= sends'[l + 1].start
        <4>1. i \in 1..l
          BY <2>5, <3>3
        <4> QED
          BY <2>6, <2>8, <2>10, <4>1 DEF Size
      <3> QED
        BY <2>6, <3>1, <3>2, <3>3 DEF Consecutive, Size
    <2>12. Recorded'
      <3> SUFFICES ASSUME NEW i \in DOMAIN sends', NEW j \in 0..(HeaderSize + sends'[i].length - 1),
                          sends'[i].start + j < Len(tape')
                   PROVE  tape'[sends'[i].start + j + 1] = <<i, j>>
        BY Zenon DEF Recorded
      <3>0. i \in 1..(l + 1) /\ tape' = tape
        BY <1>2, <2>6
      <3>1. i # l + 1
        <4> SUFFICES ASSUME i = l + 1 PROVE FALSE
          OBVIOUS
        <4>1. sends'[i].length = n /\ sends'[i].start = Len(tape)
          BY <2>10
        <4>2. j \in Nat /\ Len(tape) + j < Len(tape)
          BY <2>2, <3>0, <4>1
        <4> QED
          BY <2>3, <4>2
      <3>2. i \in 1..l /\ sends'[i] = sends[i]
        BY <2>5, <2>6, <3>0, <3>1
      <3>3. i \in DOMAIN sends /\ j \in 0..(HeaderSize + sends[i].length - 1)
        BY <2>6, <3>2
      <3>4. sends[i].start + j < Len(tape)
        BY <3>0, <3>2
      <3>5. tape[sends[i].start + j + 1] = <<i, j>>
        <4>1. Recorded
          BY DEF IInv
        <4> QED
          BY <3>3, <3>4, <4>1, Zenon DEF Recorded
      <3> QED
        BY <3>0, <3>2, <3>5
    <2>13. SenderProgress'
      <3>1. HeaderSize \in Nat /\ HeaderSize > 0 /\ HeaderSize + n > 0 /\ HeaderSize + n \in Nat
        BY <2>2, SizesAssumption
      <3>2. done' = l /\ done' < Len(sends')
        BY <1>2, <2>5, <2>6, <2>7
      <3>3. sends'[Len(sends')].start = Len(tape) /\ sends'[Len(sends')].length = n
        BY <2>6, <2>10
      <3>4. Len(tape') < sends'[Len(sends')].start + (HeaderSize + sends'[Len(sends')].length)
        BY <1>2, <2>3, <3>1, <3>3
      <3>5. Len(tape') = sends'[Len(sends')].start + total_sent' /\ total_sent' < HeaderSize
        BY <1>2, <2>3, <3>1, <3>3
      <3>6. done' <= Len(sends') /\ Len(sends') <= done' + 1 /\ done' # Len(sends')
        <4>1. Len(sends') = l + 1 /\ l \in Nat
          BY <2>5, <2>6
        <4> HIDE DEF l
        <4> QED
          BY <3>2, <4>1
      <3>7. sends'[Len(sends')].start <= Len(tape')
        <4>1. total_sent' \in Nat /\ Len(tape) \in Nat /\ Len(tape') = Len(tape) + total_sent'
          BY <1>2, <2>3, <3>3, <3>5
        <4> QED
          BY <3>3, <4>1
      <3> QED
        BY <2>1, <3>2, <3>4, <3>5, <3>6, <3>7 DEF SenderProgress, Size
    <2>14. ReceiverProgress'
      <3>1. Len(received) \in Nat /\ Len(received) <= done
        BY DEF IInv, WholePackets, ReceiverProgress
      <3>2. CASE Len(received) + 1 <= l
        <4>1. sends'[Len(received) + 1] = sends[Len(received) + 1]
          BY <2>5, <2>6, <3>1, <3>2
        <4> QED
          BY <1>2, <2>5, <2>6, <3>1, <3>2, <4>1 DEF IInv, ReceiverProgress
      <3>3. CASE ~(Len(received) + 1 <= l)
        <4>1. Len(received) + 1 = l + 1
          BY <2>5, <2>7, <3>1, <3>3
        <4>2. rpc # "payload"
          BY <3>3 DEF IInv, ReceiverProgress
        <4>3. rpc = "header" => total_received = 0 /\ nread = Len(tape)
          BY <3>3 DEF IInv, ReceiverProgress
        <4>4. HeaderSize > 0
          BY SizesAssumption
        <4> QED
          BY <1>2, <2>3, <2>5, <2>6, <2>10, <3>1, <4>1, <4>2, <4>3, <4>4
          DEF IInv, ReceiverProgress
      <3> QED
        BY <3>2, <3>3
    <2>15. WholePackets'
      <3>1. Len(received) \in Nat /\ Len(received) <= l
        BY <2>7 DEF IInv, WholePackets, ReceiverProgress
      <3>2. \A i \in 1..Len(received) : sends'[i] = sends[i]
        BY <2>5, <2>6, <3>1
      <3> QED
        BY <1>2, <3>2 DEF IInv, WholePackets, Whole
    <2> QED
      BY <2>9, <2>11, <2>12, <2>13, <2>14, <2>15 DEF IInv
  <1> QED
    BY <1>3, <1>4

\* An end that gives up (packet.c:133, 146).
LEMMA ClosesStep ==
    ASSUME IInv, SenderCloses \/ ReceiverCloses
    PROVE  IInv'
  <1>1. CASE SenderCloses
    BY <1>1 DEF SenderCloses, IInv, TypeOK, Consecutive, Recorded, SenderProgress,
                ReceiverProgress, WholePackets, Size, Whole, receiverVars
  <1>2. CASE ReceiverCloses
    BY <1>2 DEF ReceiverCloses, IInv, TypeOK, Consecutive, Recorded, SenderProgress,
                ReceiverProgress, WholePackets, Size, Whole, senderVars
  <1> QED
    BY <1>1, <1>2

------------------------------------------------------------------------------
(* The receiver. *)

\* The receiver has what it needs of the packet it is in.
LEMMA Receiving ==
    ASSUME SizesAssumption, IInv, Len(received) + 1 <= Len(sends)
    PROVE  LET r == Len(received) + 1 IN
           /\ r \in DOMAIN sends /\ r \in Nat /\ Len(received) \in Nat
           /\ sends[r].length \in Nat /\ sends[r].length <= MaxPacketSize
           /\ sends[r].start \in Nat
           /\ HeaderSize \in Nat /\ HeaderSize >= 1
           /\ Size(r) = HeaderSize + sends[r].length
           /\ tape \in Seq(Nat \X Nat) /\ Len(tape) \in Nat
           /\ nread \in Nat /\ nread <= Len(tape) /\ total_received \in Nat
  <1>1. Len(received) \in Nat
    BY DEF IInv, WholePackets
  <1>2. /\ Len(sends) \in Nat /\ DOMAIN sends = 1..Len(sends)
        /\ tape \in Seq(Nat \X Nat) /\ Len(tape) \in Nat
        /\ nread \in Nat /\ nread <= Len(tape) /\ total_received \in Nat
    BY DEF IInv, TypeOK
  <1>3. Len(received) + 1 \in DOMAIN sends
    BY <1>1, <1>2
  <1> QED
    BY <1>1, <1>2, <1>3, SendsType DEF IInv

\* A byte of the packet the receiver is in.
LEMMA ByteOfPacket ==
    ASSUME SizesAssumption, IInv, NEW r, r = Len(received) + 1, r <= Len(sends),
           NEW j \in Nat, j < HeaderSize + sends[r].length, sends[r].start + j < Len(tape)
    PROVE  tape[sends[r].start + j + 1] = <<r, j>>
  <1>1. /\ r \in DOMAIN sends /\ sends[r].length \in Nat /\ HeaderSize \in Nat
    BY Receiving
  <1>2. j \in 0..(HeaderSize + sends[r].length - 1)
    BY <1>1
  <1>3. Recorded
    BY DEF IInv
  <1> QED
    BY <1>1, <1>2, <1>3, Zenon DEF Recorded

\* The header the receiver reads is that packet's (packet.c:72).
LEMMA HeaderRead ==
    ASSUME SizesAssumption, IInv, NEW r, r = Len(received) + 1, r <= Len(sends),
           sends[r].start + HeaderSize <= Len(tape)
    PROVE  Heading(sends[r].start) = {sends[r].length}
  <1> DEFINE b == sends[r].start
  <1>1. /\ r \in DOMAIN sends /\ b \in Nat /\ HeaderSize \in Nat /\ HeaderSize >= 1
        /\ sends[r].length \in Nat /\ Len(tape) \in Nat
    BY Receiving
  <1>2. ASSUME NEW j \in 0..(HeaderSize - 1) PROVE tape[b + j + 1] = <<r, j>>
    <2>1. j \in Nat /\ j < HeaderSize + sends[r].length /\ b + j < Len(tape)
      BY <1>1
    <2> QED
      BY <2>1, ByteOfPacket
  <1>3. ASSUME NEW i \in DOMAIN sends, \A j \in 0..(HeaderSize - 1) : tape[b + j + 1] = <<i, j>>
        PROVE  i = r
    <2>1. 0 \in 0..(HeaderSize - 1)
      BY <1>1
    <2>2. tape[b + 0 + 1] = <<i, 0>> /\ tape[b + 0 + 1] = <<r, 0>>
      BY <1>2, <1>3, <2>1
    <2> QED
      BY <2>2
  <1> DEFINE whose == {i \in DOMAIN sends :
                         \A j \in 0..(HeaderSize - 1) : tape[b + j + 1] = <<i, j>>}
  <1>4. whose = {r}
    <2>1. r \in whose
      BY <1>1, <1>2
    <2>2. \A i \in whose : i = r
      BY <1>3
    <2> HIDE DEF whose
    <2> QED
      BY <2>1, <2>2
  <1>5. Heading(b) = IF whose # {} THEN {sends[i].length : i \in whose} ELSE Lengths
    BY DEF Heading
  <1> HIDE DEF whose
  <1> QED
    BY <1>4, <1>5

\* And the payload is that packet's (packet.c:101).
LEMMA PayloadRead ==
    ASSUME SizesAssumption, IInv, NEW r, r = Len(received) + 1, r <= Len(sends),
           sends[r].start + HeaderSize + sends[r].length <= Len(tape)
    PROVE  Bytes(sends[r].start + HeaderSize, sends[r].length) = Whole(r).payload
  <1> DEFINE b == sends[r].start
             n == sends[r].length
             len == Len(tape)
  <1>1. b \in Nat /\ HeaderSize \in Nat /\ HeaderSize >= 1 /\ n \in Nat /\ len \in Nat
    BY Receiving
  <1>2. b + HeaderSize + n <= len
    OBVIOUS
  <1>3. ASSUME NEW k \in 1..n PROVE tape[b + HeaderSize + k] = <<r, HeaderSize + k - 1>>
    <2> DEFINE j == HeaderSize + k - 1
    <2>1. j \in Nat /\ j < HeaderSize + n /\ b + j < len /\ b + HeaderSize + k = b + j + 1
      <3> HIDE DEF b, n, len
      <3>1. k \in Nat /\ k >= 1 /\ k <= n
        BY <1>1
      <3>2. j \in Nat /\ j < HeaderSize + n
        BY <1>1, <3>1
      <3>3. b + HeaderSize + k = b + j + 1
        BY <1>1, <3>1
      <3>4. b + j < len
        BY <1>1, <1>2, <3>1
      <3> QED
        BY <3>2, <3>3, <3>4
    <2> HIDE DEF j
    <2>2. tape[b + j + 1] = <<r, j>>
      BY <2>1, ByteOfPacket
    <2> QED
      BY <2>1, <2>2 DEF j
  <1>4. Whole(r).payload = [k \in 1..n |-> <<r, HeaderSize + k - 1>>]
    BY DEF Whole, Content
  <1> QED
    BY <1>3, <1>4 DEF Bytes

\* A packet that has been read to its end was sent to its end, and the next one
\* starts here.
LEMMA PacketRead ==
    ASSUME SizesAssumption, IInv, NEW r, r = Len(received) + 1, r <= Len(sends),
           NEW end, end = sends[r].start + Size(r), end <= Len(tape)
    PROVE  /\ r <= done
           /\ r + 1 <= Len(sends) => end = sends[r + 1].start
           /\ ~(r + 1 <= Len(sends)) => end = Len(tape)
  <1>1. /\ r \in DOMAIN sends /\ r \in Nat /\ Len(tape) \in Nat /\ end \in Nat
    <2>1. /\ r \in DOMAIN sends /\ r \in Nat /\ Len(tape) \in Nat
          /\ sends[r].start \in Nat /\ HeaderSize \in Nat /\ sends[r].length \in Nat
          /\ Size(r) = HeaderSize + sends[r].length
      BY Receiving
    <2> QED
      BY <2>1
  <1>2. /\ Len(sends) \in Nat /\ DOMAIN sends = 1..Len(sends)
        /\ done \in Nat /\ done <= Len(sends) /\ Len(sends) <= done + 1
    BY DEF IInv, TypeOK, SenderProgress
  <1>3. CASE r + 1 <= Len(sends)
    <2>1. r + 1 \in DOMAIN sends
      BY <1>1, <1>2, <1>3
    <2>2. Consecutive
      BY DEF IInv
    <2>3. end = sends[r + 1].start
      BY <1>1, <2>1, <2>2, Zenon DEF Consecutive
    <2>4. r <= done
      BY <1>1, <1>2, <1>3
    <2> QED
      BY <1>3, <2>3, <2>4
  <1>4. CASE ~(r + 1 <= Len(sends))
    <2>1. r = Len(sends)
      <3> DEFINE l == Len(sends)
      <3>1. r \in Nat /\ l \in Nat /\ r <= l /\ ~(r + 1 <= l)
        BY <1>1, <1>2, <1>4
      <3> HIDE DEF l
      <3>2. r = l
        BY <3>1
      <3> QED
        BY <3>2 DEF l
    <2>2. ~(Len(tape) < end)
      BY <1>1
    <2>3. /\ done < r => Len(tape) < end
          /\ done = r => Len(tape) = IF r = 0 THEN 0 ELSE end
      BY <2>1, Zenon DEF IInv, SenderProgress
    <2>4. done = r /\ r # 0
      BY <1>1, <1>2, <2>1, <2>2, <2>3
    <2> QED
      BY <1>1, <1>4, <2>3, <2>4
  <1> QED
    BY <1>3, <1>4

\* packet_receive returns the packet it has read (packet.c:109).
LEMMA Returns ==
    ASSUME SizesAssumption, IInv, UNCHANGED senderVars,
           NEW r, r = Len(received) + 1, r <= Len(sends),
           received' = Append(received, Whole(r)), rpc' = "header", total_received' = 0,
           nread' = sends[r].start + Size(r), nread' <= Len(tape), payload_length' \in Nat
    PROVE  IInv'
  <1> USE DEF senderVars
  <1>1. /\ r \in DOMAIN sends /\ r \in Nat /\ HeaderSize \in Nat /\ HeaderSize >= 1
        /\ sends[r].start \in Nat /\ sends[r].length \in Nat /\ Len(received) \in Nat
        /\ Size(r) = HeaderSize + sends[r].length
    BY Receiving
  <1>2. /\ r <= done
        /\ r + 1 <= Len(sends) => nread' = sends[r + 1].start
        /\ ~(r + 1 <= Len(sends)) => nread' = Len(tape)
    BY PacketRead
  <1>3. received = [i \in 1..Len(received) |-> Whole(i)]
    BY DEF IInv, WholePackets
  <1>4. received' = [i \in 1..r |-> Whole(i)] /\ Len(received') = r
    <2> DEFINE n == Len(received)
               S == {Whole(i) : i \in 1..r}
    <2>1. n \in Nat /\ r = n + 1
      BY <1>1
    <2>2. \A i \in 1..n : received[i] = Whole(i) /\ Whole(i) \in S
      BY <1>3, <2>1
    <2>3. Whole(r) \in S
      BY <1>1
    <2>4. received \in [1..n -> S]
      BY <1>3, <2>2
    <2> HIDE DEF S, n
    <2>5. received \in Seq(S) /\ Len(received) = n
      BY <2>1, <2>4
    <2>6. Append(received, Whole(r)) =
             [i \in 1..(n + 1) |-> IF i \in 1..n THEN received[i] ELSE Whole(r)]
      BY <2>1, <2>3, <2>5
    <2>7. \A i \in 1..r : (IF i \in 1..n THEN received[i] ELSE Whole(r)) = Whole(i)
      BY <2>1, <2>2
    <2>8. received' = [i \in 1..r |-> Whole(i)]
      BY <2>1, <2>6, <2>7
    <2> QED
      BY <1>1, <2>8
  <1>5. TypeOK'
    <2>1. nread' \in Nat
      BY <1>1
    <2> QED
      BY <2>1 DEF IInv, TypeOK
  <1>6. Consecutive' /\ Recorded' /\ SenderProgress'
    <2>1. sends' = sends /\ tape' = tape /\ done' = done /\ spc' = spc /\ total_sent' = total_sent
      OBVIOUS
    <2>2. Consecutive'
      BY <2>1 DEF IInv, Consecutive, Size
    <2>3. Recorded'
      BY <2>1 DEF IInv, Recorded
    <2>4. SenderProgress'
      BY <2>1 DEF IInv, SenderProgress, Size
    <2> QED
      BY <2>2, <2>3, <2>4
  <1>7. ReceiverProgress'
    <2>1. Len(received') + 1 = r + 1 /\ Len(received') <= done' /\ HeaderSize > 0
      BY <1>1, <1>2, <1>4
    <2>2. sends' = sends /\ tape' = tape
      OBVIOUS
    <2>3. IF r + 1 <= Len(sends) THEN nread' = sends[r + 1].start + total_received'
          ELSE total_received' = 0 /\ nread' = Len(tape)
      <3>1. nread' \in Nat
        BY <1>1
      <3> QED
        BY <1>2, <3>1
    <2> QED
      BY <2>1, <2>2, <2>3 DEF ReceiverProgress
  <1>8. WholePackets'
    <2>1. sends' = sends
      OBVIOUS
    <2> QED
      BY <1>4, <2>1 DEF WholePackets, Whole
  <1> QED
    BY <1>5, <1>6, <1>7, <1>8 DEF IInv

\* A part of a packet, or a header that leads to a payload (packet.c:154).
LEMMA ReadsOn ==
    ASSUME IInv, UNCHANGED senderVars, UNCHANGED received,
           nread' \in Nat, nread' <= Len(tape), total_received' \in Nat,
           payload_length' \in Nat, rpc' \in {"header", "payload", "closed"},
           NEW r, r = Len(received) + 1, r <= Len(sends),
           rpc' = "header" => /\ total_received' < HeaderSize
                              /\ nread' = sends[r].start + total_received',
           rpc' = "payload" => /\ payload_length' = sends[r].length
                               /\ total_received' < payload_length'
                               /\ nread' = sends[r].start + HeaderSize + total_received'
    PROVE  IInv'
  <1> USE DEF senderVars
  <1>1. sends' = sends /\ tape' = tape /\ done' = done /\ spc' = spc /\ total_sent' = total_sent
        /\ received' = received
    OBVIOUS
  <1>2. TypeOK'
    BY <1>1 DEF IInv, TypeOK
  <1>3. Consecutive'
    BY <1>1 DEF IInv, Consecutive, Size
  <1>4. Recorded'
    BY <1>1 DEF IInv, Recorded
  <1>5. SenderProgress'
    BY <1>1 DEF IInv, SenderProgress, Size
  <1>6. ReceiverProgress'
    BY <1>1 DEF IInv, ReceiverProgress
  <1>7. WholePackets'
    BY <1>1 DEF IInv, WholePackets, Whole
  <1> QED
    BY <1>2, <1>3, <1>4, <1>5, <1>6, <1>7 DEF IInv

\* What a step of packet_receive finds: it is in a packet that was started, and it
\* reads some more of it or all the rest.
LEMMA RecvHeaderFinds ==
    ASSUME SizesAssumption, IInv, RecvHeader, NEW r, r = Len(received) + 1
    PROVE  /\ r <= Len(sends)
           /\ nread' \in Nat /\ nread' <= Len(tape)
           /\ \/ /\ total_received' \in Nat /\ total_received' < HeaderSize
                 /\ nread' = sends[r].start + total_received'
                 /\ UNCHANGED <<rpc, payload_length, received>>
              \/ /\ total_received' = 0 /\ nread' = sends[r].start + HeaderSize
                 /\ payload_length' = sends[r].length
                 /\ rpc' \in IF payload_length' = 0 THEN {"header"} ELSE {"payload", "closed"}
                 /\ received' = IF payload_length' > 0 THEN received
                                ELSE Append(received, Whole(r))
  <1>1. PICK n \in 1..(HeaderSize - total_received) :
          /\ n <= Available
          /\ nread' = nread + n
          /\ IF total_received + n < HeaderSize
             THEN /\ total_received' = total_received + n
                  /\ UNCHANGED <<rpc, payload_length, received>>
             ELSE /\ total_received' = 0
                  /\ \E len \in Heading(nread' - HeaderSize) :
                        /\ payload_length' = len
                        /\ rpc' \in IF len = 0 THEN {"header"}
                                   ELSE IF len > MaxPacketSize THEN {"closed"}
                                   ELSE {"payload", "closed"}
                        /\ received' = IF len > 0 THEN received
                                       ELSE Append(received, [length |-> 0, payload |-> << >>])
    BY DEF RecvHeader
  <1>2. /\ HeaderSize \in Nat /\ total_received \in Nat /\ nread \in Nat /\ Len(tape) \in Nat
        /\ nread <= Len(tape) /\ rpc = "header"
    BY SizesAssumption DEF IInv, TypeOK, RecvHeader
  <1>3. n \in Nat /\ n >= 1 /\ n <= HeaderSize - total_received /\ n <= Len(tape) - nread
    BY <1>1, <1>2 DEF Available
  <1>4. r <= Len(sends) /\ nread = sends[r].start + total_received
    <2>1. IF r <= Len(sends) THEN nread = sends[r].start + total_received
          ELSE nread = Len(tape)
      BY <1>2 DEF IInv, ReceiverProgress
    <2>2. nread # Len(tape)
      BY <1>2, <1>3
    <2> QED
      BY <2>1, <2>2
  <1>5. /\ sends[r].start \in Nat /\ sends[r].length \in Nat
        /\ sends[r].length <= MaxPacketSize /\ MaxPacketSize \in Nat
    BY <1>4, Receiving, SizesAssumption
  <1>6. nread' \in Nat /\ nread' <= Len(tape)
    BY <1>1, <1>2, <1>3
  <1>7. CASE total_received + n < HeaderSize
    <2>1. /\ total_received' = total_received + n
          /\ UNCHANGED <<rpc, payload_length, received>>
      BY <1>1, <1>7
    <2>2. nread' = sends[r].start + total_received' /\ total_received' \in Nat
      <3> DEFINE s == sends[r].start
      <3>1. nread' = nread + n /\ nread = s + total_received /\ s \in Nat
        BY <1>1, <1>4, <1>5
      <3> HIDE DEF s
      <3>2. nread' = s + (total_received + n) /\ total_received + n \in Nat
        BY <1>2, <1>3, <3>1
      <3> QED
        BY <2>1, <3>2 DEF s
    <2> QED
      BY <1>4, <1>6, <1>7, <2>1, <2>2
  <1>8. CASE ~(total_received + n < HeaderSize)
    <2>1. total_received + n = HeaderSize
      BY <1>2, <1>3, <1>8
    <2>2. nread' = sends[r].start + HeaderSize /\ nread' - HeaderSize = sends[r].start
      <3> DEFINE s == sends[r].start
      <3>1. nread' = nread + n /\ nread = s + total_received /\ s \in Nat
        BY <1>1, <1>4, <1>5
      <3> HIDE DEF s
      <3>2. nread' = s + HeaderSize
        BY <1>2, <1>3, <2>1, <3>1
      <3>3. nread' - HeaderSize = s
        BY <1>2, <3>1, <3>2
      <3> QED
        BY <3>2, <3>3 DEF s
    <2>3. Heading(nread' - HeaderSize) = {sends[r].length}
      BY <1>4, <1>6, <2>2, HeaderRead
    <2>4. /\ total_received' = 0
          /\ payload_length' = sends[r].length
          /\ rpc' \in IF payload_length' = 0 THEN {"header"}
                      ELSE IF payload_length' > MaxPacketSize THEN {"closed"}
                      ELSE {"payload", "closed"}
          /\ received' = IF payload_length' > 0 THEN received
                         ELSE Append(received, [length |-> 0, payload |-> << >>])
      BY <1>1, <1>8, <2>3
    <2>5. rpc' \in IF payload_length' = 0 THEN {"header"} ELSE {"payload", "closed"}
      BY <1>5, <2>4
    <2>6. received' = IF payload_length' > 0 THEN received ELSE Append(received, Whole(r))
      <3>1. CASE payload_length' > 0
        BY <2>4, <3>1
      <3>2. CASE ~(payload_length' > 0)
        <4>1. sends[r].length = 0
          BY <1>5, <2>4, <3>2
        <4>2. Whole(r) = [length |-> 0, payload |-> << >>]
          BY <4>1 DEF Whole, Content
        <4> QED
          BY <2>4, <3>2, <4>2
      <3> QED
        BY <3>1, <3>2
    <2> QED
      BY <1>4, <1>6, <2>2, <2>4, <2>5, <2>6
  <1> QED
    BY <1>7, <1>8

\* The same in the payload.
LEMMA RecvPayloadFinds ==
    ASSUME SizesAssumption, IInv, RecvPayload, NEW r, r = Len(received) + 1
    PROVE  /\ r <= Len(sends) /\ payload_length' = sends[r].length
           /\ nread' \in Nat /\ nread' <= Len(tape)
           /\ \/ /\ total_received' \in Nat /\ total_received' < payload_length'
                 /\ nread' = sends[r].start + HeaderSize + total_received'
                 /\ rpc' = "payload" /\ UNCHANGED received
              \/ /\ total_received' = 0 /\ nread' = sends[r].start + Size(r)
                 /\ rpc' = "header" /\ received' = Append(received, Whole(r))
  <1>1. PICK n \in 1..(payload_length - total_received) :
          /\ n <= Available
          /\ nread' = nread + n
          /\ IF total_received + n < payload_length
             THEN total_received' = total_received + n /\ UNCHANGED <<rpc, received>>
             ELSE /\ total_received' = 0 /\ rpc' = "header"
                  /\ received' = Append(received,
                        [length |-> payload_length,
                         payload |-> Bytes(nread' - payload_length, payload_length)])
    BY DEF RecvPayload
  <1>2. /\ rpc = "payload" /\ payload_length' = payload_length /\ r <= Len(sends)
        /\ payload_length = sends[r].length
        /\ nread = sends[r].start + HeaderSize + total_received
    BY DEF RecvPayload, IInv, ReceiverProgress
  <1>3. /\ HeaderSize \in Nat /\ total_received \in Nat /\ nread \in Nat /\ Len(tape) \in Nat
        /\ nread <= Len(tape) /\ payload_length \in Nat /\ sends[r].start \in Nat
        /\ Size(r) = HeaderSize + payload_length
    BY <1>2, Receiving
  <1>4. n \in Nat /\ n >= 1 /\ n <= payload_length - total_received /\ n <= Len(tape) - nread
    BY <1>1, <1>3 DEF Available
  <1>5. nread' \in Nat /\ nread' <= Len(tape)
    BY <1>1, <1>3, <1>4
  <1>6. CASE total_received + n < payload_length
    <2>1. total_received' = total_received + n /\ UNCHANGED <<rpc, received>>
      BY <1>1, <1>6
    <2>2. nread' = sends[r].start + HeaderSize + total_received' /\ total_received' \in Nat
      <3> DEFINE s == sends[r].start
      <3>1. nread' = nread + n /\ nread = s + HeaderSize + total_received /\ s \in Nat
        BY <1>1, <1>2, <1>3
      <3> HIDE DEF s
      <3>2. nread' = s + HeaderSize + (total_received + n) /\ total_received + n \in Nat
        BY <1>3, <1>4, <3>1
      <3> QED
        BY <2>1, <3>2 DEF s
    <2> QED
      BY <1>2, <1>5, <1>6, <2>1, <2>2
  <1>7. CASE ~(total_received + n < payload_length)
    <2>1. total_received + n = payload_length
      BY <1>3, <1>4, <1>7
    <2>2. /\ nread' = sends[r].start + HeaderSize + payload_length
          /\ nread' - payload_length = sends[r].start + HeaderSize
          /\ nread' = sends[r].start + Size(r)
      <3> DEFINE s == sends[r].start
      <3>1. /\ nread' = nread + n /\ nread = s + HeaderSize + total_received /\ s \in Nat
            /\ Size(r) = HeaderSize + payload_length
        BY <1>1, <1>2, <1>3
      <3> HIDE DEF s
      <3>2. nread' = s + HeaderSize + payload_length
        BY <1>3, <1>4, <2>1, <3>1
      <3>3. nread' - payload_length = s + HeaderSize /\ nread' = s + Size(r)
        BY <1>3, <3>1, <3>2
      <3> QED
        BY <3>2, <3>3 DEF s
    <2>3. Bytes(nread' - payload_length, payload_length) = Whole(r).payload
      BY <1>2, <1>5, <2>2, PayloadRead
    <2>4. Whole(r) = [length |-> payload_length, payload |-> Whole(r).payload]
      BY <1>2 DEF Whole, Content
    <2>5. /\ total_received' = 0 /\ rpc' = "header"
          /\ received' = Append(received, Whole(r))
      BY <1>1, <1>7, <2>3, <2>4
    <2> QED
      BY <1>2, <1>5, <2>2, <2>5
  <1> QED
    BY <1>6, <1>7

\* A step of recv_all (packet.c:151).
LEMMA RecvStep ==
    ASSUME SizesAssumption, IInv, Recv
    PROVE  IInv'
  <1> DEFINE r == Len(received) + 1
  <1>1. UNCHANGED senderVars
    BY DEF Recv, RecvHeader, RecvPayload
  <1>2. CASE RecvHeader
    <2>1. /\ r <= Len(sends)
          /\ nread' \in Nat /\ nread' <= Len(tape)
          /\ \/ /\ total_received' \in Nat /\ total_received' < HeaderSize
                /\ nread' = sends[r].start + total_received'
                /\ UNCHANGED <<rpc, payload_length, received>>
             \/ /\ total_received' = 0 /\ nread' = sends[r].start + HeaderSize
                /\ payload_length' = sends[r].length
                /\ rpc' \in IF payload_length' = 0 THEN {"header"} ELSE {"payload", "closed"}
                /\ received' = IF payload_length' > 0 THEN received
                               ELSE Append(received, Whole(r))
      BY <1>2, RecvHeaderFinds
    <2>2. rpc = "header" /\ payload_length \in Nat
      BY <1>2 DEF RecvHeader, IInv, TypeOK
    <2>3. /\ sends[r].start \in Nat /\ sends[r].length \in Nat /\ HeaderSize \in Nat
          /\ Size(r) = HeaderSize + sends[r].length
      BY <2>1, Receiving
    <2>4. CASE total_received' < HeaderSize /\ UNCHANGED <<rpc, payload_length, received>>
               /\ total_received' \in Nat /\ nread' = sends[r].start + total_received'
      BY <1>1, <2>1, <2>2, <2>4, ReadsOn
    <2>5. CASE /\ total_received' = 0 /\ nread' = sends[r].start + HeaderSize
               /\ payload_length' = sends[r].length /\ payload_length' = 0
               /\ rpc' = "header" /\ received' = Append(received, Whole(r))
      <3>1. nread' = sends[r].start + Size(r)
        BY <2>3, <2>5
      <3>2. payload_length' \in Nat
        BY <2>5
      <3> QED
        BY <1>1, <2>1, <2>5, <3>1, <3>2, Returns
    <2>6. CASE /\ total_received' = 0 /\ nread' = sends[r].start + HeaderSize
               /\ payload_length' = sends[r].length /\ payload_length' > 0
               /\ rpc' \in {"payload", "closed"} /\ UNCHANGED received
      <3>1. nread' = sends[r].start + HeaderSize + total_received'
        BY <2>3, <2>6
      <3>2. payload_length' \in Nat /\ total_received' \in Nat /\ total_received' < payload_length'
        BY <2>3, <2>6
      <3> QED
        BY <1>1, <2>1, <2>6, <3>1, <3>2, ReadsOn
    <2> QED
      BY <2>1, <2>3, <2>4, <2>5, <2>6
  <1>3. CASE RecvPayload
    <2>1. /\ r <= Len(sends) /\ payload_length' = sends[r].length
          /\ nread' \in Nat /\ nread' <= Len(tape)
          /\ \/ /\ total_received' \in Nat /\ total_received' < payload_length'
                /\ nread' = sends[r].start + HeaderSize + total_received'
                /\ rpc' = "payload" /\ UNCHANGED received
             \/ /\ total_received' = 0 /\ nread' = sends[r].start + Size(r)
                /\ rpc' = "header" /\ received' = Append(received, Whole(r))
      BY <1>3, RecvPayloadFinds
    <2>2. payload_length' \in Nat
      BY <2>1, Receiving
    <2>3. CASE /\ total_received' \in Nat /\ total_received' < payload_length'
               /\ nread' = sends[r].start + HeaderSize + total_received'
               /\ rpc' = "payload" /\ UNCHANGED received
      BY <1>1, <2>1, <2>2, <2>3, ReadsOn
    <2>4. CASE /\ total_received' = 0 /\ nread' = sends[r].start + Size(r)
               /\ rpc' = "header" /\ received' = Append(received, Whole(r))
      BY <1>1, <2>1, <2>2, <2>4, Returns
    <2> QED
      BY <2>1, <2>3, <2>4
  <1> QED
    BY <1>2, <1>3 DEF Recv

------------------------------------------------------------------------------
(* The theorems. *)

\* Nothing has been sent or received when the connection is made.
LEMMA InitInv ==
    ASSUME SizesAssumption, Init
    PROVE  IInv
  <1>1. TypeOK
    BY SizesAssumption DEF Init, TypeOK
  <1>2. Consecutive /\ Recorded
    BY DEF Init, Consecutive, Recorded
  <1>3. SenderProgress
    BY DEF Init, SenderProgress
  <1>4. ReceiverProgress
    BY SizesAssumption DEF Init, ReceiverProgress
  <1>5. WholePackets
    BY DEF Init, WholePackets
  <1> QED
    BY <1>1, <1>2, <1>3, <1>4, <1>5 DEF IInv

\* Every step of the two ends keeps the invariant.
LEMMA InductiveStep ==
    ASSUME SizesAssumption, IInv, [Next]_vars
    PROVE  IInv'
  <1>1. CASE UNCHANGED vars
    BY <1>1 DEF vars, senderVars, receiverVars, IInv, TypeOK, Consecutive, Recorded,
                SenderProgress, ReceiverProgress, WholePackets, Size, Whole
  <1> QED
    BY <1>1, PacketSendStep, SendStep, ClosesStep, RecvStep DEF Next

\* Both ends agree at every moment where in which packet they are: the receiver is in
\* the packet after those it has returned, at the byte it takes it for, and what it
\* has returned is what was sent (packet.c:31, 61).
THEOREM FramingInvariant == Spec => []IInv
  <1>1. Init => IInv
    BY SizesAssumption, InitInv
  <1>2. IInv /\ [Next]_vars => IInv'
    BY SizesAssumption, InductiveStep
  <1> QED
    BY <1>1, <1>2, PTL DEF Spec

\* While the receiver waits for more of a packet it has bytes to read, or the sender
\* is sending that very packet, or has closed in the middle of it (packet.c:159).
THEOREM FramingNeverStalls == Spec => []NeitherEndStalls
  <1>1. ASSUME SizesAssumption, IInv PROVE NeitherEndStalls
    <2> SUFFICES ASSUME rpc # "closed", Len(received) < Len(sends), ~(Available > 0)
                 PROVE  /\ Len(received) = done
                        /\ spc = "closed" \/ (spc \in {"header", "payload"} /\ Room > 0)
      BY DEF NeitherEndStalls
    <2> DEFINE r == Len(received) + 1
               l == Len(sends)
               s == sends[r].start
               m == sends[r].length
    <2>1. /\ done \in Nat /\ l \in Nat /\ Len(tape) \in Nat /\ nread \in Nat
          /\ total_received \in Nat /\ nread <= Len(tape) /\ Len(received) \in Nat
          /\ Len(received) <= done /\ done <= l /\ l <= done + 1
      <3>1. Len(received) \in Nat /\ Len(received) <= done
        BY <1>1 DEF IInv, WholePackets, ReceiverProgress
      <3>2. /\ done \in Nat /\ l \in Nat /\ Len(tape) \in Nat /\ nread \in Nat
            /\ total_received \in Nat /\ nread <= Len(tape)
        BY <1>1 DEF IInv, TypeOK
      <3>3. done <= l /\ l <= done + 1
        BY <1>1 DEF IInv, SenderProgress
      <3> QED
        BY <3>1, <3>2, <3>3
    <2>2. r \in DOMAIN sends /\ r <= l
      BY <1>1, <2>1 DEF IInv, TypeOK
    <2>3. /\ s \in Nat /\ m \in Nat /\ HeaderSize \in Nat /\ HeaderSize >= 1
          /\ Size(r) = HeaderSize + m
      BY <1>1, <2>2, SendsType DEF IInv
    <2>4. nread = Len(tape)
      <3>1. ~(Len(tape) - nread > 0)
        BY DEF Available
      <3> QED
        BY <2>1, <3>1
    <2>5. nread < s + Size(r)
      <3>1. CASE rpc = "header"
        <4>1. total_received < HeaderSize /\ nread = s + total_received
          BY <1>1, <2>2, <3>1 DEF IInv, ReceiverProgress
        <4> HIDE DEF s, m, r
        <4> QED
          BY <2>1, <2>3, <4>1
      <3>2. CASE rpc = "payload"
        <4>1. total_received < m /\ nread = s + HeaderSize + total_received
          BY <1>1, <3>2 DEF IInv, ReceiverProgress
        <4> HIDE DEF s, m, r
        <4> QED
          BY <2>1, <2>3, <4>1
      <3>3. rpc \in {"header", "payload"}
        BY <1>1 DEF IInv, TypeOK
      <3> QED
        BY <3>1, <3>2, <3>3
    <2>6. CASE r < l
      <3>1. s + Size(r) <= sends[l].start
        BY <1>1, <2>2, <2>6 DEF IInv, Consecutive
      <3>2. sends[l].start \in Nat /\ Size(l) \in Nat /\ l # 0
        BY <1>1, <2>1, <2>2, SendsType DEF IInv
      <3>3. sends[l].start <= Len(tape)
        <4>1. CASE done < l
          BY <1>1, <4>1 DEF IInv, SenderProgress
        <4>2. CASE done = l
          <5>1. Len(tape) = sends[l].start + Size(l)
            BY <1>1, <3>2, <4>2 DEF IInv, SenderProgress
          <5> DEFINE z == sends[l].start
                     y == Size(l)
          <5> HIDE DEF y, z, l
          <5>2. z <= Len(tape)
            BY <3>2, <5>1 DEF y, z
          <5> QED
            BY <5>2 DEF z
        <4> QED
          BY <2>1, <4>1, <4>2
      <3> DEFINE z == sends[l].start
                 e == s + Size(r)
      <3>4. e \in Nat /\ z \in Nat /\ e <= z /\ z <= Len(tape) /\ nread < e
        BY <2>3, <2>5, <3>1, <3>2, <3>3
      <3> HIDE DEF e, z
      <3> QED
        BY <2>1, <2>4, <3>4
    <2>7. CASE r = l
      <3>1. done # l
        <4> SUFFICES ASSUME done = l PROVE FALSE
          OBVIOUS
        <4>1. Len(tape) = s + Size(r)
          BY <1>1, <2>1, <2>7 DEF IInv, SenderProgress
        <4> QED
          BY <2>1, <2>4, <2>5, <4>1
      <3>2. Len(received) = done
        <4> DEFINE a == Len(received)
        <4>1. a \in Nat /\ a + 1 = l /\ a <= done
          BY <2>1, <2>7
        <4> HIDE DEF a, l
        <4>2. a = done
          BY <2>1, <3>1, <4>1
        <4> QED
          BY <4>2 DEF a
      <3>3. spc \in {"header", "payload", "closed"}
        BY <1>1, <3>1 DEF IInv, TypeOK, SenderProgress
      <3>4. Room > 0
        <4>1. Capacity \in Nat /\ Capacity > 0
          BY SizesAssumption
        <4> QED
          BY <2>1, <2>4, <4>1 DEF Room
      <3> QED
        BY <3>2, <3>3, <3>4
    <2> QED
      BY <2>1, <2>2, <2>6, <2>7
  <1> QED
    BY <1>1, SizesAssumption, FramingInvariant, PTL

\* The packet that packet_send has finished is one the channel can carry.
LEMMA SentPackets ==
    ASSUME SizesAssumption, IInv
    PROVE  /\ done \in Nat /\ done <= Len(sends) /\ Len(sends) \in Nat
           /\ Len(sends) <= MaxPackets
           /\ Len([i \in 1..done |-> Whole(i)]) = done
           /\ Len(received) \in Nat /\ Len(received) <= done
           /\ \A i \in 1..Len(sends) : Whole(i) \in {Content(k, n) :
                                          k \in 1..MaxPackets, n \in 0..MaxPacketSize}
  <1>1. /\ done \in Nat /\ done <= Len(sends) /\ Len(sends) \in Nat
        /\ Len(sends) <= MaxPackets /\ DOMAIN sends = 1..Len(sends)
    BY DEF IInv, TypeOK, SenderProgress
  <1>2. Len([i \in 1..done |-> Whole(i)]) = done
    BY <1>1
  <1>3. Len(received) \in Nat /\ Len(received) <= done
    BY DEF IInv, WholePackets, ReceiverProgress
  <1>4. ASSUME NEW i \in 1..Len(sends)
        PROVE  Whole(i) \in {Content(k, n) : k \in 1..MaxPackets, n \in 0..MaxPacketSize}
    <2>1. i \in 1..MaxPackets
      BY <1>1, SizesAssumption
    <2>2. sends[i].length \in 0..MaxPacketSize
      BY <1>1, SendsType, SizesAssumption DEF IInv
    <2> QED
      BY <2>1, <2>2 DEF Whole
  <1> QED
    BY <1>1, <1>2, <1>3, <1>4

\* A table with one more entry.
LEMMA OneMore ==
    ASSUME NEW n \in Nat, NEW f
    PROVE  [i \in 1..(n + 1) |-> f[i]] = Append([i \in 1..n |-> f[i]], f[n + 1])
  <1> DEFINE S == {f[i] : i \in 1..(n + 1)}
             s == [i \in 1..n |-> f[i]]
  <1>1. f[n + 1] \in S /\ \A i \in 1..n : f[i] \in S
    OBVIOUS
  <1> HIDE DEF S
  <1>2. s \in Seq(S) /\ Len(s) = n /\ \A i \in 1..n : s[i] = f[i]
    BY <1>1
  <1> HIDE DEF s
  <1>3. Append(s, f[n + 1]) = [i \in 1..(n + 1) |-> IF i \in 1..n THEN s[i] ELSE f[n + 1]]
    BY <1>1, <1>2
  <1>4. \A i \in 1..(n + 1) : (IF i \in 1..n THEN s[i] ELSE f[n + 1]) = f[i]
    BY <1>2
  <1> QED
    BY <1>3, <1>4 DEF s

\* A packet whose record is not changed is the same.
LEMMA SameWhole ==
    ASSUME NEW i, sends'[i] = sends[i]
    PROVE  Whole(i)' = Whole(i)
  BY DEF Whole, Content

\* A packet on record is never changed.
LEMMA RecordKept ==
    ASSUME SizesAssumption, IInv, [Next]_vars
    PROVE  /\ \A i \in 1..Len(sends) : Whole(i)' = Whole(i)
           /\ done' = done \/ (Send /\ done' = done + 1)
           /\ received' = received \/ (Recv /\ received' # received)
  <1>1. CASE PacketSend
    <2>1. \A i \in 1..Len(sends) : sends'[i] = sends[i]
      <3> DEFINE P == [length : 0..MaxPacketSize, start : Nat]
                 l == Len(sends)
      <3>1. sends \in Seq(P) /\ l \in Nat
        BY DEF IInv, TypeOK
      <3>2. UNCHANGED sends \/ \E p : sends' = Append(sends, p)
        BY <1>1 DEF PacketSend
      <3> HIDE DEF P
      <3>3. ASSUME NEW p, sends' = Append(sends, p), NEW i \in 1..l
            PROVE  sends'[i] = sends[i]
        BY <3>1, <3>3
      <3> QED
        BY <3>2, <3>3
    <2> QED
      BY <1>1, <2>1, SameWhole DEF PacketSend, receiverVars
  <1>2. CASE Send
    <2>1. sends' = sends /\ received' = received /\ (done' = done \/ done' = done + 1)
      BY <1>2 DEF Send, SendHeader, SendPayload, receiverVars
    <2> QED
      BY <1>2, <2>1, SameWhole
  <1>3. CASE Recv
    <2>1. sends' = sends /\ done' = done
      BY <1>3 DEF Recv, RecvHeader, RecvPayload, senderVars
    <2> QED
      BY <1>3, <2>1, SameWhole
  <1>4. CASE SenderCloses \/ ReceiverCloses \/ UNCHANGED vars
    <2>1. sends' = sends /\ done' = done /\ received' = received
      BY <1>4 DEF SenderCloses, ReceiverCloses, vars, senderVars, receiverVars
    <2> QED
      BY <2>1, SameWhole
  <1> QED
    BY <1>1, <1>2, <1>3, <1>4 DEF Next

\* What a step of Send adds is the packet it has brought to its end.
LEMMA SendImplements ==
    ASSUME SizesAssumption, IInv, [Next]_vars, Send, done' = done + 1
    PROVE  Channel!Send
  <1> DEFINE Packets == {Content(i, n) : i \in 1..MaxPackets, n \in 0..MaxPacketSize}
             w == [i \in 1..(done + 1) |-> Whole(i)]
  <1>1. done \in Nat /\ done + 1 \in 1..Len(sends) /\ received' = received
    BY SentPackets DEF Send, SendHeader, SendPayload, IInv, SenderProgress, receiverVars
  <1>2. Whole(done + 1) \in Packets
    BY <1>1, SentPackets
  <1>3. [i \in 1..done' |-> Whole(i)'] = w
    <2>1. \A i \in 1..(done + 1) : Whole(i)' = Whole(i)
      BY <1>1, RecordKept
    <2> QED
      BY <2>1
  <1>4. w = [i \in 1..(done + 1) |-> w[i]] /\ w[done + 1] = Whole(done + 1)
        /\ [i \in 1..done |-> w[i]] = [i \in 1..done |-> Whole(i)]
    BY <1>1
  <1>5. w = Append([i \in 1..done |-> Whole(i)], Whole(done + 1))
    <2> HIDE DEF w
    <2>1. [i \in 1..(done + 1) |-> w[i]] = Append([i \in 1..done |-> w[i]], w[done + 1])
      BY <1>1, OneMore
    <2> QED
      BY <1>4, <2>1
  <1> HIDE DEF Packets, w
  <1>6. [i \in 1..done' |-> Whole(i)'] = Append([i \in 1..done |-> Whole(i)], Whole(done + 1))
    BY <1>3, <1>5
  <1> QED
    BY <1>1, <1>2, <1>6 DEF Channel!Send, Packets

\* What a step of Recv returns is the packet the channel has next.
LEMMA RecvImplements ==
    ASSUME SizesAssumption, IInv, [Next]_vars, Recv, received' # received
    PROVE  Channel!Receive
  <1> DEFINE r == Len(received) + 1
             sent == [i \in 1..done |-> Whole(i)]
  <1>1. received' = Append(received, Whole(r)) /\ Len(received) \in Nat
    BY RecvHeaderFinds, RecvPayloadFinds, SentPackets DEF Recv
  <1>2. IInv'
    BY InductiveStep
  <1>3. UNCHANGED senderVars
    BY DEF Recv, RecvHeader, RecvPayload
  <1>4. Len(received') = r
    BY <1>1
  <1>5. r <= done /\ r \in 1..done /\ Len(received) < done
    <2>1. Len(received') <= done'
      BY <1>2, SentPackets DEF IInv, ReceiverProgress
    <2> QED
      BY <1>1, <1>3, <1>4, <2>1, SentPackets DEF senderVars
  <1>6. Len(sent) = done /\ sent[r] = Whole(r)
    BY <1>5, SentPackets
  <1>7. [i \in 1..done' |-> Whole(i)'] = sent
    BY <1>3 DEF senderVars, Whole
  <1> HIDE DEF sent
  <1> QED
    BY <1>1, <1>5, <1>6, <1>7 DEF Channel!Receive, sent

\* packet.c is a channel of whole packets: however the bytes are cut up on their way
\* and wherever an end fails, what has been received is the first packets sent, each
\* as it was sent (packet.c:31, 61).
THEOREM FramingImplementsChannel == Spec => ImplementsChannel
  <1>1. Init => Channel!Init
    BY DEF Init, Channel!Init
  <1>2. ASSUME SizesAssumption, IInv, [Next]_vars
        PROVE  [Channel!Next]_Channel!vars
    <2>1. CASE Send /\ done' = done + 1
      BY <1>2, <2>1, SendImplements DEF Channel!Next
    <2>2. CASE Recv /\ received' # received
      BY <1>2, <2>2, RecvImplements DEF Channel!Next
    <2>3. CASE done' = done /\ received' = received
      <3>1. \A i \in 1..done : Whole(i)' = Whole(i)
        BY <1>2, RecordKept, SentPackets
      <3>2. [i \in 1..done' |-> Whole(i)'] = [i \in 1..done |-> Whole(i)]
        BY <2>3, <3>1
      <3> QED
        BY <2>3, <3>2 DEF Channel!vars
    <2> QED
      BY <1>2, <2>1, <2>2, <2>3, RecordKept
  <1> QED
    BY <1>1, <1>2, SizesAssumption, FramingInvariant, PTL DEF Spec, ImplementsChannel,
           Channel!Spec
===============================================================================
