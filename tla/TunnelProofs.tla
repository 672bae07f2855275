----------------------------- MODULE TunnelProofs -----------------------------
(***************************************************************************)
(* The data path for any number of clients, slots, datagrams and changes   *)
(* of address, and any strays.  Nothing the network does can make a nonce  *)
(* come back, because every datagram under a key carries a counter below   *)
(* the one that key has reached; a stray may become a session's peer but   *)
(* puts nothing into its channel, because no session's key has sealed it.  *)
(***************************************************************************)
EXTENDS Tunnel, TLAPS

\* Every slot's octet is a byte, (uint8_t)(i + 2).
LEMMA OctetByte == ASSUME NEW k \in Nat \ {0} PROVE Octet(k) \in ByteValues
  BY DEF Octet, ByteValues

\* What the server's TUN sender reads is a packet.
LEMMA RoutedType == ASSUME TypeOK PROVE RoutedPackets \subseteq DownPacket
  <1>1. Slots \subseteq Nat \ {0}
    BY DEF TypeOK, Slots
  <1>2. ASSUME NEW w \in serverTun PROVE [dst |-> ClientOctet, answers |-> w[2]] \in DownPacket
    BY DEF TypeOK, DownPacket, ClientOctet, ByteValues
  <1>3. ASSUME NEW k \in Slots PROVE [dst |-> Octet(k), answers |-> NULL] \in DownPacket
    BY <1>1, OctetByte DEF DownPacket
  <1> QED
    BY <1>2, <1>3 DEF RoutedPackets

\* What ClientSend puts into the network.
LEMMA ClientSendAdds ==
    ASSUME TypeOK, NEW c \in Clients, ClientSend(c)
    PROVE  /\ \E d \in UpDatagram :
                 /\ upNet' = upNet \cup {d}
                 /\ d.key = c /\ d.counter = txUp[c] /\ d.sid = sid[c]
                 /\ d.packet.by = c /\ d.from[1] = c /\ d.from[2] = port[c]
           /\ txUp' = [txUp EXCEPT ![c] = @ + 1]
           /\ txUp[c] \in Nat
  <1>1. PICK x \in Data :
           upNet' = upNet \cup {[sid |-> sid[c], key |-> c, counter |-> txUp[c],
                                packet |-> [by |-> c, data |-> x],
                                from |-> <<c, port[c]>>]}
    BY DEF ClientSend
  <1>2. port[c] \in 1..MaxPort /\ sid[c] \in Ids /\ txUp[c] \in Nat
    BY DEF TypeOK
  <1>3. <<c, port[c]>> \in Address
    BY <1>2 DEF Address
  <1>4. [sid |-> sid[c], key |-> c, counter |-> txUp[c], packet |-> [by |-> c, data |-> x],
         from |-> <<c, port[c]>>] \in UpDatagram
    BY <1>2, <1>3 DEF UpDatagram, UpPacket
  <1> QED
    BY <1>1, <1>2, <1>4 DEF ClientSend

\* What ServerSend puts into the network.
LEMMA ServerSendAdds ==
    ASSUME TypeOK, ServerSend
    PROVE  \E d \in DownDatagram, k \in Slots :
              /\ downNet' = downNet \cup {d}
              /\ table[k] \in Clients
              /\ FirstWithOctet(k, d.packet.dst)
              /\ d.key = table[k] /\ d.counter = txDown[table[k]] /\ d.to = peer[table[k]]
              /\ txDown' = [txDown EXCEPT ![table[k]] = @ + 1]
              /\ txDown[table[k]] \in Nat
              /\ peer[table[k]] # NULL
  <1>1. PICK p \in RoutedPackets, k \in Slots :
           /\ FirstWithOctet(k, p.dst)
           /\ downNet' = downNet \cup {[key |-> table[k], counter |-> txDown[table[k]],
                                       packet |-> p, to |-> peer[table[k]]]}
           /\ txDown' = [txDown EXCEPT ![table[k]] = @ + 1]
    BY DEF ServerSend
  <1>2. p \in DownPacket
    BY RoutedType
  <1>3. table[k] \in Clients
    BY DEF TypeOK, Slots
  <1>4. peer[table[k]] # NULL
    BY <1>1 DEF FirstWithOctet
  <1>5. peer[table[k]] \in Source /\ txDown[table[k]] \in Nat
    BY <1>3, <1>4 DEF TypeOK
  <1>6. [key |-> table[k], counter |-> txDown[table[k]], packet |-> p,
         to |-> peer[table[k]]] \in DownDatagram
    BY <1>2, <1>3, <1>5 DEF DownDatagram
  <1> QED
    BY <1>1, <1>3, <1>4, <1>5, <1>6

\* A change of address takes a port above the one the client had.
LEMMA RebindMoves ==
    ASSUME TypeOK, NEW c \in Clients, Rebind(c)
    PROVE  /\ port' \in [Clients -> 1..MaxPort]
           /\ \A e \in Clients : port[e] \in Nat /\ port'[e] \in Nat /\ port[e] <= port'[e]
  <1>1. PICK n \in 1..MaxPort :
           (\A e \in Clients : port[e] < n) /\ port' = [port EXCEPT ![c] = n]
    BY DEF Rebind
  <1> QED
    BY <1>1, BoundsAssumption DEF TypeOK

\* The types hold after every step.
LEMMA TypePreserved == TypeOK /\ [Next]_vars => TypeOK'
  <1> SUFFICES ASSUME TypeOK, [Next]_vars PROVE TypeOK'
    OBVIOUS
  <1> USE DEF udpVars
  <1>1. CASE UNCHANGED vars
    BY <1>1 DEF vars, TypeOK
  <1>2. ASSUME NEW c \in Clients, Register(c) PROVE TypeOK'
    BY <1>2 DEF Register, TypeOK
  <1>3. ASSUME NEW c \in Clients, Rebind(c) PROVE TypeOK'
    BY <1>3, RebindMoves DEF Rebind, TypeOK
  <1>4. ASSUME NEW c \in Clients, ClientSend(c) PROVE TypeOK'
    <2>1. upNet' \subseteq UpDatagram /\ txUp' \in [Clients -> Nat]
      <3>1. PICK d \in UpDatagram : upNet' = upNet \cup {d}
        BY <1>4, ClientSendAdds
      <3>2. txUp' = [txUp EXCEPT ![c] = @ + 1] /\ txUp[c] \in Nat
        BY <1>4, ClientSendAdds
      <3> QED
        BY <3>1, <3>2 DEF TypeOK
    <2>2. UNCHANGED <<sid, table, peer, txDown, port, downNet, udpVars, serverTun, clientTun>>
      BY <1>4 DEF ClientSend
    <2> QED
      BY <2>1, <2>2 DEF TypeOK
  <1>5. ASSUME NEW c \in Clients, ClientReceive(c) PROVE TypeOK'
    BY <1>5 DEF ClientReceive, TypeOK, DownDatagram
  <1>6. CASE ReceiveDatagram
    <2>1. PICK d \in upNet \cup StrayDatagram, k \in Slots :
             held' = [session |-> table[k], datagram |-> d]
      BY <1>6 DEF ReceiveDatagram
    <2>2. held' \in [session : Clients, datagram : UpDatagram \cup StrayDatagram]
      BY <2>1 DEF TypeOK, Slots
    <2> QED
      BY <1>6, <2>2 DEF ReceiveDatagram, TypeOK
  <1>7. CASE LearnPeer
    <2>1. held.session \in Clients /\ held.datagram.from \in Source
      BY <1>7 DEF LearnPeer, TypeOK, UpDatagram, StrayDatagram, Source
    <2> QED
      BY <1>7, <2>1 DEF LearnPeer, TypeOK
  <1>8. CASE DecodeDatagram
    <2>1. held.session \in Clients
          /\ held.datagram.key = held.session => held.datagram.packet \in UpPacket
      BY <1>8, NullAssumption DEF DecodeDatagram, TypeOK, UpDatagram, StrayDatagram
    <2> QED
      BY <1>8, <2>1 DEF DecodeDatagram, TypeOK
  <1>9. CASE ServerSend
    <2>1. downNet' \subseteq DownDatagram /\ txDown' \in [Clients -> Nat]
      <3>1. PICK d \in DownDatagram, k \in Slots :
               /\ downNet' = downNet \cup {d}
               /\ txDown' = [txDown EXCEPT ![table[k]] = @ + 1]
               /\ table[k] \in Clients /\ txDown[table[k]] \in Nat
        BY <1>9, ServerSendAdds
      <3> QED
        BY <3>1 DEF TypeOK
    <2> QED
      BY <1>9, <2>1 DEF ServerSend, TypeOK
  <1> QED
    BY <1>1, <1>2, <1>3, <1>4, <1>5, <1>6, <1>7, <1>8, <1>9 DEF Next

\* A slot, once taken, keeps its session.
LEMMA RegisterAppends ==
    ASSUME TypeOK, NEW c \in Clients, Register(c)
    PROVE  /\ Slots' = Slots \cup {Len(table) + 1}
           /\ Len(table) + 1 \notin Slots
           /\ table'[Len(table) + 1] = c
           /\ \A k \in Slots : table'[k] = table[k]
           /\ Registered' = Registered \cup {c}
  <1>1. Slots' = Slots \cup {Len(table) + 1} /\ Len(table) + 1 \notin Slots
    BY DEF TypeOK, Register, Slots
  <1>2. table'[Len(table) + 1] = c /\ \A k \in Slots : table'[k] = table[k]
    BY DEF TypeOK, Register, Slots
  <1> QED
    BY <1>1, <1>2 DEF Registered

\* The parts of the invariant, one after the other: only the actions named in the
\* cases touch what a part speaks of.
LEMMA RegisteredOncePreserved ==
    ASSUME IInv, [Next]_vars
    PROVE  RegisteredOnce'
  <1>1. CASE UNCHANGED table
    BY <1>1 DEF IInv, RegisteredOnce, Slots
  <1>2. ASSUME NEW c \in Clients, Register(c) PROVE RegisteredOnce'
    <2>1. \A k \in Slots : table[k] # c
      BY <1>2 DEF Register, Registered
    <2> QED
      BY <1>2, <2>1, RegisterAppends DEF IInv, RegisteredOnce
  <1> QED
    BY <1>1, <1>2 DEF Next, vars, udpVars, Rebind, ClientSend, ClientReceive, ReceiveDatagram,
           LearnPeer, DecodeDatagram, ServerSend

\* A client's datagram stays below its counter and keeps its owner's marks.
LEMMA UpProvenancePreserved ==
    ASSUME IInv, [Next]_vars
    PROVE  UpProvenance'
  <1>1. CASE UNCHANGED <<upNet, sid, port, txUp>>
    BY <1>1 DEF IInv, UpProvenance
  <1>2. ASSUME NEW c \in Clients, Rebind(c) PROVE UpProvenance'
    <2>1. \A e \in Clients : port[e] \in Nat /\ port'[e] \in Nat /\ port[e] <= port'[e]
      BY <1>2, RebindMoves DEF IInv
    <2>2. ASSUME NEW d \in upNet PROVE d.key \in Clients /\ d.from[2] \in Nat
      BY BoundsAssumption DEF IInv, TypeOK, UpDatagram, Address
    <2> QED
      BY <1>2, <2>1, <2>2 DEF Rebind, IInv, UpProvenance
  <1>3. ASSUME NEW c \in Clients, ClientSend(c) PROVE UpProvenance'
    <2>1. PICK d \in UpDatagram :
             /\ upNet' = upNet \cup {d}
             /\ d.key = c /\ d.counter = txUp[c] /\ d.sid = sid[c]
             /\ d.packet.by = c /\ d.from[1] = c /\ d.from[2] = port[c]
      BY <1>3, ClientSendAdds DEF IInv
    <2>2. txUp' = [txUp EXCEPT ![c] = @ + 1] /\ txUp[c] \in Nat /\ UNCHANGED <<sid, port>>
      BY <1>3, ClientSendAdds DEF IInv, ClientSend
    <2>3. \A e \in upNet : e.key \in Clients /\ e.counter \in Nat
      BY DEF IInv, TypeOK, UpDatagram
    <2>4. \A e \in Clients : txUp[e] \in Nat /\ txUp[e] <= txUp'[e]
      BY <2>2 DEF IInv, TypeOK
    <2>5. port[c] \in Nat /\ txUp[c] < txUp'[c]
      BY <2>2, BoundsAssumption DEF IInv, TypeOK
    <2>6. \A e \in Clients : txUp'[e] \in Nat
      BY <2>2 DEF IInv, TypeOK
    <2>7. ASSUME NEW e \in upNet PROVE e.counter < txUp'[e.key]
      BY <2>3, <2>4, <2>6 DEF IInv, UpProvenance
    <2> QED
      BY <2>1, <2>2, <2>5, <2>7 DEF IInv, UpProvenance
  <1> QED
    BY <1>1, <1>2, <1>3 DEF Next, vars, udpVars, Register, ClientReceive, ReceiveDatagram,
           LearnPeer, DecodeDatagram, ServerSend

\* A server's datagram stays below its counter, and its slot keeps its octet.
LEMMA DownProvenancePreserved ==
    ASSUME IInv, [Next]_vars
    PROVE  DownProvenance'
  <1>1. CASE UNCHANGED <<downNet, table, txDown>>
    BY <1>1 DEF IInv, DownProvenance, Slots
  <1>2. ASSUME NEW c \in Clients, Register(c) PROVE DownProvenance'
    <2>1. Slots \subseteq Slots' /\ \A k \in Slots : table'[k] = table[k]
      BY <1>2, RegisterAppends DEF IInv
    <2>2. UNCHANGED <<downNet, txDown>>
      BY <1>2 DEF Register
    <2> QED
      BY <2>1, <2>2 DEF IInv, DownProvenance
  <1>3. CASE ServerSend
    <2>1. PICK d \in DownDatagram, k \in Slots :
             /\ downNet' = downNet \cup {d}
             /\ FirstWithOctet(k, d.packet.dst)
             /\ d.key = table[k] /\ d.counter = txDown[table[k]]
             /\ txDown' = [txDown EXCEPT ![table[k]] = @ + 1]
             /\ table[k] \in Clients /\ txDown[table[k]] \in Nat
      BY <1>3, ServerSendAdds DEF IInv
    <2>2. table' = table /\ Slots' = Slots
      BY <1>3 DEF ServerSend, Slots
    <2>3. \A c \in Clients : txDown[c] \in Nat /\ txDown'[c] \in Nat /\ txDown[c] <= txDown'[c]
      BY <2>1 DEF IInv, TypeOK
    <2>4. \A e \in downNet : e.key \in Clients /\ e.counter \in Nat
      BY DEF IInv, TypeOK, DownDatagram
    <2>5. ASSUME NEW e \in downNet PROVE e.counter < txDown'[e.key]
      BY <2>3, <2>4 DEF IInv, DownProvenance
    <2>6. d.counter < txDown'[d.key]
      BY <2>1 DEF IInv, TypeOK
    <2>7. Octet(k) = d.packet.dst
      BY <2>1 DEF FirstWithOctet
    <2> QED
      BY <2>1, <2>2, <2>5, <2>6, <2>7 DEF IInv, DownProvenance
  <1> QED
    BY <1>1, <1>2, <1>3 DEF Next, vars, udpVars, Rebind, ClientSend, ClientReceive,
           ReceiveDatagram, LearnPeer, DecodeDatagram

\* The UDP listener's datagram and session go on fitting together.
LEMMA HeldProvenancePreserved ==
    ASSUME IInv, [Next]_vars
    PROVE  HeldProvenance'
  <1>1. CASE UNCHANGED <<upc, held, sid, table>> /\ upNet \subseteq upNet'
    BY <1>1 DEF IInv, HeldProvenance, Registered, Slots
  <1>2. ASSUME NEW c \in Clients, Register(c) PROVE HeldProvenance'
    <2>1. Registered \subseteq Registered'
      BY <1>2, RegisterAppends DEF IInv
    <2> QED
      BY <1>2, <2>1 DEF Register, udpVars, IInv, HeldProvenance
  <1>3. ASSUME NEW c \in Clients, ClientSend(c) PROVE HeldProvenance'
    <2>1. upNet \subseteq upNet'
      BY <1>3, ClientSendAdds DEF IInv
    <2> QED
      BY <1>1, <1>3, <2>1 DEF ClientSend, udpVars
  <1>4. CASE ReceiveDatagram
    BY <1>4 DEF ReceiveDatagram, FirstWithId, HeldProvenance, Registered, Slots
  <1>5. CASE LearnPeer
    BY <1>5 DEF LearnPeer, IInv, HeldProvenance, Registered, Slots
  <1>6. CASE DecodeDatagram
    BY <1>6 DEF DecodeDatagram, HeldProvenance
  <1> QED
    BY <1>1, <1>2, <1>3, <1>4, <1>5, <1>6
       DEF Next, vars, udpVars, Rebind, ClientReceive, ServerSend

\* A new datagram's counter is above all those its key has sealed.
LEMMA NoncePreserved ==
    ASSUME IInv, [Next]_vars
    PROVE  NonceNeverReused'
  <1>1. CASE UNCHANGED <<upNet, downNet>>
    BY <1>1 DEF IInv, NonceNeverReused
  <1>2. ASSUME NEW c \in Clients, ClientSend(c) PROVE NonceNeverReused'
    <2>1. PICK d \in UpDatagram : upNet' = upNet \cup {d} /\ d.key = c /\ d.counter = txUp[c]
      BY <1>2, ClientSendAdds DEF IInv
    <2>2. \A e \in upNet : e.key = c => e.counter < txUp[c] /\ e.counter \in Nat
      BY DEF IInv, UpProvenance, TypeOK, UpDatagram
    <2>3. txUp[c] \in Nat /\ UNCHANGED downNet
      BY <1>2 DEF IInv, TypeOK, ClientSend
    <2> QED
      BY <2>1, <2>2, <2>3 DEF IInv, NonceNeverReused
  <1>3. CASE ServerSend
    <2>1. PICK d \in DownDatagram, k \in Slots :
             /\ downNet' = downNet \cup {d}
             /\ d.key = table[k] /\ d.counter = txDown[table[k]] /\ txDown[table[k]] \in Nat
      BY <1>3, ServerSendAdds DEF IInv
    <2>2. \A e \in downNet : e.key = d.key => e.counter < txDown[d.key] /\ e.counter \in Nat
      BY DEF IInv, DownProvenance, TypeOK, DownDatagram
    <2>3. UNCHANGED upNet
      BY <1>3 DEF ServerSend
    <2> QED
      BY <2>1, <2>2, <2>3 DEF IInv, NonceNeverReused
  <1> QED
    BY <1>1, <1>2, <1>3 DEF Next, vars, udpVars, Register, Rebind, ClientReceive,
           ReceiveDatagram, LearnPeer, DecodeDatagram

\* The datagrams that could have taught the server an address stay in the network.
LEMMA SourcesKept ==
    ASSUME upNet \subseteq upNet', UNCHANGED sid, NEW c, NEW a, SourceFor(c, a)
    PROVE  SourceFor(c, a)'
  BY DEF SourceFor

\* What the listener learns is the source of the datagram that named the session.
LEMMA PeerPreserved ==
    ASSUME IInv, [Next]_vars
    PROVE  PeerIsSource'
  <1>1. CASE UNCHANGED <<sid, peer, downNet, upc, held>> /\ upNet \subseteq upNet'
    BY <1>1, SourcesKept DEF IInv, PeerIsSource
  <1>2. ASSUME NEW c \in Clients, ClientSend(c) PROVE PeerIsSource'
    BY <1>1, <1>2, ClientSendAdds DEF ClientSend, udpVars, IInv
  <1>3. CASE ReceiveDatagram \/ DecodeDatagram
    <2>1. UNCHANGED <<sid, peer, downNet, upNet>> /\ upc' # "decode"
      BY <1>3 DEF ReceiveDatagram, DecodeDatagram
    <2> QED
      BY <2>1, SourcesKept DEF IInv, PeerIsSource
  <1>4. CASE LearnPeer
    <2>1. /\ held.session \in Clients
          /\ held.datagram \in upNet \cup StrayDatagram
          /\ sid[held.session] = held.datagram.sid
      BY <1>4 DEF LearnPeer, IInv, TypeOK, HeldProvenance
    <2>2. SourceFor(held.session, held.datagram.from)
      BY <2>1 DEF SourceFor, StrayDatagram
    <2>3. peer' = [peer EXCEPT ![held.session] = held.datagram.from]
          /\ UNCHANGED <<sid, upNet, downNet, held>>
      BY <1>4 DEF LearnPeer
    <2>4. \A c \in Clients : peer'[c] # NULL => SourceFor(c, peer'[c])
      BY <2>1, <2>2, <2>3 DEF IInv, TypeOK, PeerIsSource
    <2>5. \A c \in Clients : peer'[c] # NULL => SourceFor(c, peer[c])'
      BY <2>3, <2>4 DEF SourceFor
    <2>6. \A d \in downNet' : SourceFor(d.key, d.to)'
      BY <2>3, SourcesKept DEF IInv, PeerIsSource
    <2>7. peer'[held'.session] = held'.datagram.from
      BY <2>1, <2>3 DEF IInv, TypeOK
    <2> QED
      BY <2>5, <2>6, <2>7 DEF PeerIsSource
  <1>5. CASE ServerSend
    <2>1. PICK d \in DownDatagram, k \in Slots :
             /\ downNet' = downNet \cup {d}
             /\ d.key = table[k] /\ d.to = peer[table[k]]
             /\ peer[table[k]] # NULL /\ table[k] \in Clients
      BY <1>5, ServerSendAdds DEF IInv
    <2>2. UNCHANGED <<sid, peer, upNet, upc, held>>
      BY <1>5 DEF ServerSend, udpVars
    <2>3. SourceFor(d.key, d.to)
      BY <2>1 DEF IInv, PeerIsSource
    <2> QED
      BY <2>1, <2>2, <2>3, SourcesKept DEF IInv, PeerIsSource
  <1> QED
    BY <1>1, <1>2, <1>3, <1>4, <1>5 DEF Next, vars, udpVars, Register, Rebind, ClientReceive

\* What is written to a TUN device was sealed under that session's key.
LEMMA DeliveredPreserved ==
    ASSUME IInv, [Next]_vars
    PROVE  Delivered'
  <1>1. CASE /\ UNCHANGED <<serverTun, clientTun>>
             /\ upNet \subseteq upNet' /\ downNet \subseteq downNet'
             /\ Registered \subseteq Registered'
    BY <1>1 DEF IInv, Delivered
  <1>2. CASE UNCHANGED <<serverTun, clientTun, upNet, downNet, table>>
    BY <1>2 DEF IInv, Delivered, Registered, Slots
  <1>3. ASSUME NEW c \in Clients, Register(c) PROVE Delivered'
    <2>1. Registered \subseteq Registered'
      BY <1>3, RegisterAppends DEF IInv
    <2> QED
      BY <1>1, <1>3, <2>1 DEF Register
  <1>4. ASSUME NEW c \in Clients, ClientSend(c) PROVE Delivered'
    <2>1. upNet \subseteq upNet'
      BY <1>4, ClientSendAdds DEF IInv
    <2> QED
      BY <1>1, <1>4, <2>1 DEF ClientSend, Registered, Slots
  <1>5. ASSUME NEW c \in Clients, ClientReceive(c) PROVE Delivered'
    <2>1. PICK d \in downNet : d.key = c /\ clientTun' = clientTun \cup {<<c, d.packet>>}
      BY <1>5 DEF ClientReceive
    <2>2. UNCHANGED <<upNet, downNet, serverTun, table>>
      BY <1>5 DEF ClientReceive
    <2> QED
      BY <2>1, <2>2 DEF IInv, Delivered, Registered, Slots
  <1>6. CASE DecodeDatagram
    <2>1. /\ held.datagram \in upNet \cup StrayDatagram
          /\ held.session \in Registered /\ held.session \in Clients
      BY <1>6 DEF DecodeDatagram, IInv, TypeOK, HeldProvenance
    <2>2. UNCHANGED <<upNet, downNet, clientTun, table>>
      BY <1>6 DEF DecodeDatagram
    <2>3. CASE held.datagram.key = held.session
      <3>1. serverTun' = serverTun \cup {<<held.session, held.datagram.packet>>}
        BY <1>6, <2>3 DEF DecodeDatagram
      <3>2. held.datagram \in upNet
        BY <2>1, <2>3, NullAssumption DEF StrayDatagram
      <3> QED
        BY <2>1, <2>2, <2>3, <3>1, <3>2 DEF IInv, Delivered, Registered, Slots
    <2>4. CASE held.datagram.key # held.session
      BY <1>2, <1>6, <2>2, <2>4 DEF DecodeDatagram
    <2> QED
      BY <2>3, <2>4
  <1>7. CASE ServerSend
    <2>1. downNet \subseteq downNet'
      BY <1>7, ServerSendAdds DEF IInv
    <2> QED
      BY <1>1, <1>7, <2>1 DEF ServerSend, Registered, Slots
  <1> QED
    BY <1>2, <1>3, <1>4, <1>5, <1>6, <1>7
       DEF Next, vars, udpVars, Rebind, ReceiveDatagram, LearnPeer

\* The invariant of the data path, for any number of clients and slots and any
\* bound on the datagrams.
THEOREM TunnelInvariant == Spec => []IInv
  <1>1. Init => IInv
    <2> SUFFICES ASSUME Init PROVE IInv
      OBVIOUS
    <2>0. Slots = {}
      BY DEF Init, Slots
    <2>1. TypeOK
      <3>1. port \in [Clients -> 1..MaxPort]
        BY BoundsAssumption DEF Init
      <3>2. peer \in [Clients -> Source \cup {NULL}]
        BY DEF Init
      <3>3. txUp \in [Clients -> Nat] /\ txDown \in [Clients -> Nat]
        BY DEF Init
      <3> QED
        BY <3>1, <3>2, <3>3 DEF Init, TypeOK
    <2> QED
      BY <2>0, <2>1 DEF Init, IInv, RegisteredOnce, UpProvenance, DownProvenance,
             HeldProvenance, NonceNeverReused, PeerIsSource, Delivered
  <1>2. IInv /\ [Next]_vars => IInv'
    BY TypePreserved, RegisteredOncePreserved, UpProvenancePreserved, DownProvenancePreserved,
       HeldProvenancePreserved, NoncePreserved, PeerPreserved, DeliveredPreserved DEF IInv
  <1> QED
    BY <1>1, <1>2, PTL DEF Spec

\* No key seals two datagrams with one nonce (session_manager.c:306, client_env.c:123).
THEOREM NoncesUnique == Spec => []NonceNeverReused
  <1>1. IInv => NonceNeverReused
    BY DEF IInv
  <1> QED
    BY <1>1, TunnelInvariant, PTL

\* Whatever strays the server takes for a session, it sends for it only to where a
\* datagram of its id came from, and opens a packet of its client only with that
\* packet's source as the session's address (session_manager.c:203-223).
THEOREM PeersAreSources == Spec => []PeerIsSource
  <1>1. IInv => PeerIsSource
    BY DEF IInv
  <1> QED
    BY <1>1, TunnelInvariant, PTL

\* What reaches a client's TUN device was addressed to its octet
\* (session_manager.c:290-316).
THEOREM OctetsRouted == Spec => []RoutedByOctet
  <1>1. IInv => RoutedByOctet
    BY DEF IInv, Delivered, DownProvenance, RoutedByOctet
  <1> QED
    BY <1>1, TunnelInvariant, PTL

------------------------------------------------------------------------------
(* The data path implements the channels: every step maps to a step of one *)
(* channel or to no step at all.                                           *)

\* A set that gains one datagram gains its packet, in its own channel only.
LEMMA OfUnion ==
    ASSUME NEW net, NEW d, NEW c
    PROVE  Of(c, net \cup {d}) = IF d.key = c THEN Of(c, net) \cup {d.packet} ELSE Of(c, net)
  BY DEF Of

\* Likewise for a packet written to a TUN device.
LEMMA AtUnion ==
    ASSUME NEW tun, NEW w, NEW c
    PROVE  At(c, tun \cup {w}) = IF w[1] = c THEN At(c, tun) \cup {w[2]} ELSE At(c, tun)
  BY DEF At

\* A client that seals a packet puts it into its own channel.
LEMMA ClientSendIsPutUp ==
    ASSUME TypeOK, NEW c \in Clients, ClientSend(c)
    PROVE  Channel!PutUp(c)
  <1>1. PICK d \in UpDatagram : upNet' = upNet \cup {d} /\ d.key = c
    BY ClientSendAdds
  <1>2. d.packet \in UpPacket
    BY DEF UpDatagram
  <1>3. \A e \in Clients : Of(e, upNet') = IF e = c THEN Of(e, upNet) \cup {d.packet}
                                            ELSE Of(e, upNet)
    BY <1>1, OfUnion
  <1>4. UNCHANGED <<table, downNet, serverTun, clientTun>>
    BY DEF ClientSend
  <1> QED
    BY <1>2, <1>3, <1>4 DEF Channel!PutUp, Registered, Slots

\* A client that opens a datagram takes a packet out of its own channel.
LEMMA ClientReceiveIsTakeDown ==
    ASSUME TypeOK, NEW c \in Clients, ClientReceive(c)
    PROVE  Channel!TakeDown(c)
  <1>1. PICK d \in downNet : d.key = c /\ clientTun' = clientTun \cup {<<c, d.packet>>}
    BY DEF ClientReceive
  <1>2. d.packet \in Of(c, downNet)
    BY <1>1 DEF Of
  <1>3. \A e \in Clients : At(e, clientTun') = IF c = e THEN At(e, clientTun) \cup {d.packet}
                                                ELSE At(e, clientTun)
    <2>1. PICK w : w = <<c, d.packet>>
      OBVIOUS
    <2>2. clientTun' = clientTun \cup {w} /\ w[1] = c /\ w[2] = d.packet
      BY <1>1, <2>1
    <2> QED
      BY <2>2, AtUnion
  <1>4. UNCHANGED <<table, upNet, downNet, serverTun>>
    BY DEF ClientReceive
  <1> QED
    BY <1>2, <1>3, <1>4 DEF Channel!TakeDown, Registered, Slots

\* The server takes a packet out of the session's channel, or drops the datagram.
LEMMA DecodeIsTakeUp ==
    ASSUME IInv, DecodeDatagram
    PROVE  (\E c \in Clients : Channel!TakeUp(c)) \/ UNCHANGED Channel!vars
  <1>1. UNCHANGED <<table, upNet, downNet, clientTun>>
    BY DEF DecodeDatagram
  <1>2. CASE held.datagram.key # held.session
    BY <1>1, <1>2 DEF DecodeDatagram, Channel!vars, Registered, Slots
  <1>3. CASE held.datagram.key = held.session
    <2>1. /\ held.session \in Clients /\ held.session \in Registered
          /\ held.datagram \in upNet
      BY <1>3, NullAssumption DEF DecodeDatagram, IInv, TypeOK, HeldProvenance, StrayDatagram
    <2>2. PICK c \in Clients, p \in UpPacket :
             c = held.session /\ p = held.datagram.packet
      BY <2>1 DEF IInv, TypeOK, UpDatagram
    <2>3. /\ c \in Registered /\ p \in Of(c, upNet)
          /\ serverTun' = serverTun \cup {<<c, p>>}
      BY <1>3, <2>1, <2>2 DEF Of, DecodeDatagram
    <2>4. \A e \in Clients : At(e, serverTun') = IF c = e THEN At(e, serverTun) \cup {p}
                                                  ELSE At(e, serverTun)
      <3>1. PICK w : w = <<c, p>>
        OBVIOUS
      <3>2. serverTun' = serverTun \cup {w} /\ w[1] = c /\ w[2] = p
        BY <2>3, <3>1
      <3>3. \A e \in Clients : At(e, serverTun \cup {w}) =
                IF w[1] = e THEN At(e, serverTun) \cup {w[2]} ELSE At(e, serverTun)
        BY AtUnion
      <3> QED
        BY <3>2, <3>3
    <2>5. Channel!TakeUp(c)
      BY <1>1, <2>3, <2>4 DEF Channel!TakeUp, Registered, Slots
    <2> QED
      BY <2>5
  <1> QED
    BY <1>2, <1>3

\* The server puts a packet into the channel of the session it found by octet.
LEMMA ServerSendIsPutDown ==
    ASSUME TypeOK, ServerSend
    PROVE  \E c \in Clients : Channel!PutDown(c)
  <1>1. PICK d \in DownDatagram, k \in Slots :
           downNet' = downNet \cup {d} /\ d.key = table[k] /\ table[k] \in Clients
    BY ServerSendAdds
  <1>2. d.packet \in DownPacket
    BY DEF DownDatagram
  <1>3. \A e \in Clients : Of(e, downNet') = IF e = d.key THEN Of(e, downNet) \cup {d.packet}
                                              ELSE Of(e, downNet)
    BY <1>1, OfUnion
  <1>4. UNCHANGED <<table, upNet, serverTun, clientTun>>
    BY DEF ServerSend
  <1>5. d.key \in Clients /\ d.key \in Registered
    BY <1>1 DEF Registered
  <1>6. Registered' = Registered
    BY <1>4 DEF Registered, Slots
  <1>7. Channel!PutDown(d.key)
    BY <1>2, <1>3, <1>4, <1>5, <1>6 DEF Channel!PutDown
  <1> QED
    BY <1>5, <1>7

\* Registering a session opens the server's end of its channel.
LEMMA RegisterIsOpen ==
    ASSUME TypeOK, NEW c \in Clients, Register(c)
    PROVE  Channel!Open(c)
  BY RegisterAppends DEF Register, Channel!Open

\* The tunnel gives every client a private channel in each direction: nothing comes
\* out that its owner did not put in (tunnel_packet.c:37-55).
THEOREM TunnelImplementsChannel == Spec => ImplementsChannel
  <1>1. Init => Channel!Init
    BY DEF Init, Channel!Init, Channel!Nothing, Of, At, Registered, Slots
  <1>2. IInv /\ [Next]_vars => [Channel!Next]_(Channel!vars)
    <2> SUFFICES ASSUME IInv, [Next]_vars PROVE [Channel!Next]_(Channel!vars)
      OBVIOUS
    <2>0. TypeOK
      BY DEF IInv
    <2>1. CASE UNCHANGED <<table, upNet, downNet, serverTun, clientTun>>
      BY <2>1 DEF Channel!vars, Registered, Slots
    <2>2. ASSUME NEW c \in Clients, Register(c) PROVE Channel!Next
      BY <2>0, <2>2, RegisterIsOpen DEF Channel!Next
    <2>3. ASSUME NEW c \in Clients, ClientSend(c) PROVE Channel!Next
      BY <2>0, <2>3, ClientSendIsPutUp DEF Channel!Next
    <2>4. ASSUME NEW c \in Clients, ClientReceive(c) PROVE Channel!Next
      BY <2>0, <2>4, ClientReceiveIsTakeDown DEF Channel!Next
    <2>5. CASE DecodeDatagram
      BY <2>5, DecodeIsTakeUp DEF Channel!Next
    <2>6. CASE ServerSend
      BY <2>0, <2>6, ServerSendIsPutDown DEF Channel!Next
    <2> QED
      BY <2>1, <2>2, <2>3, <2>4, <2>5, <2>6
         DEF Next, vars, Rebind, ReceiveDatagram, LearnPeer
  <1> QED
    BY <1>1, <1>2, TunnelInvariant, PTL DEF Spec, ImplementsChannel, Channel!Spec

==============================================================================
