-------------------------------- MODULE Tunnel --------------------------------
(***************************************************************************)
(* The data path: a client's TUN sender and UDP receiver, the server's UDP *)
(* listener and TUN sender, and the UDP network between them, which loses, *)
(* reorders and repeats datagrams.  A datagram carries the session id in   *)
(* clear, the counter its nonce is made of, and a packet sealed under the  *)
(* key of one direction of one session.  A session is named by the client  *)
(* it belongs to; its session_id is a random number that may coincide with *)
(* another's.  Anybody else may send datagrams to the server's port too;   *)
(* those carry some session id and nothing any session's key has sealed.   *)
(***************************************************************************)
EXTENDS Integers, Sequences, FiniteSets

CONSTANTS
    Clients,
    Ids,          \* the values session_id can take
    NumSlots,     \* MAX_SESSIONS
    Data,         \* what tells two packets of one client apart
    MaxCounter,   \* bound: datagrams sealed under one key
    MaxDown,      \* bound: datagrams the server seals under all keys
    MaxPort,      \* bound: source ports the NATs in front of the clients use
    StraySources, \* the addresses datagrams of nobody's session come from
    NULL

ASSUME SlotsAssumption == NumSlots \in Nat
ASSUME BoundsAssumption == MaxCounter \in Nat /\ MaxDown \in Nat /\ MaxPort \in Nat \ {0}
ASSUME NullAssumption == NULL \notin Clients \cup StraySources \cup (Clients \X (1..MaxPort))

VARIABLES
    sid,         \* client -> the session_id both ends use
    table,       \* manager->sessions: the registered sessions by slot
    peer,        \* session -> session->udp.peer_addr, NULL if not peer_known
    txUp,        \* client -> tx_nonce of the client's session
    txDown,      \* session -> tx_nonce of the server's session
    port,        \* client -> the source port its datagrams have now
    upNet,       \* datagrams sent towards the server
    downNet,     \* datagrams sent towards clients
    upc, held,   \* where the UDP listener is; the datagram and session it holds
    serverTun,   \* <<session, packet>> written to the server's TUN device
    clientTun    \* <<client, packet>> written to a client's TUN device

udpVars == <<upc, held>>
vars == <<sid, table, peer, txUp, txDown, port, upNet, downNet, udpVars, serverTun, clientTun>>

\* Where a client's datagrams come from, and where anybody's do.
Address == Clients \X (1..MaxPort)
Source == Address \cup StraySources
ByteValues == 0..255

\* (uint8_t)(i + 2) for the slots i = 0, 1, ...; sequences count from 1.
Octet(k) == (k - 1 + 2) % 256

\* The last octet of CLIENT_DEFAULT_VNI "10.8.0.2", the address of every
\* client's TUN device.
ClientOctet == 2

\* A packet a client's TUN device hands out, and one the server's does: a reply
\* to a client's packet, or one that nobody's packet caused.
UpPacket == [by : Clients, data : Data]
DownPacket == [dst : ByteValues, answers : UpPacket \cup {NULL}]

UpDatagram == [sid : Ids, key : Clients, counter : Nat, packet : UpPacket, from : Address]
StrayDatagram == [sid : Ids, key : {NULL}, counter : {0}, packet : {NULL}, from : StraySources]
DownDatagram == [key : Clients, counter : Nat, packet : DownPacket, to : Source]

Init ==
    /\ sid \in [Clients -> Ids]
    /\ table = << >>
    /\ peer = [c \in Clients |-> NULL]
    /\ txUp = [c \in Clients |-> 0]
    /\ txDown = [c \in Clients |-> 0]
    /\ port = [c \in Clients |-> 1]
    /\ upNet = {} /\ downNet = {}
    /\ upc = "select" /\ held = NULL
    /\ serverTun = {} /\ clientTun = {}

Slots == DOMAIN table
Registered == {table[k] : k \in Slots}

\* session_manager_add, once the handshake has succeeded; the client may have
\* begun to send by then.
Register(c) ==
    /\ c \notin Registered
    /\ Len(table) < NumSlots
    /\ table' = Append(table, c)
    /\ UNCHANGED <<sid, peer, txUp, txDown, port, upNet, downNet, udpVars, serverTun, clientTun>>

\* The NAT in front of the client gives its flow another port, one no flow has had.
Rebind(c) ==
    /\ \E n \in 1..MaxPort :
          /\ \A e \in Clients : port[e] < n
          /\ port' = [port EXCEPT ![c] = n]
    /\ UNCHANGED <<sid, table, peer, txUp, txDown, upNet, downNet, udpVars, serverTun, clientTun>>

------------------------------------------------------------------------------
(* The client's two threads. *)

\* Mutant: the counter is read and not incremented.
ClientSendKeepsNonce(c) ==
    /\ txUp[c] < MaxCounter
    /\ \E x \in Data :
          upNet' = upNet \cup {[sid |-> sid[c], key |-> c, counter |-> txUp[c],
                                packet |-> [by |-> c, data |-> x],
                                from |-> <<c, port[c]>>]}
    /\ UNCHANGED <<sid, table, peer, txUp, txDown, port, downNet, udpVars, serverTun, clientTun>>

\* client_tun_sender: tun_read, tunnel_packet_encode with tx_nonce++, send.
ClientSend(c) ==
    /\ txUp[c] < MaxCounter
    /\ \E x \in Data :
          upNet' = upNet \cup {[sid |-> sid[c], key |-> c, counter |-> txUp[c],
                                packet |-> [by |-> c, data |-> x],
                                from |-> <<c, port[c]>>]}
    /\ txUp' = [txUp EXCEPT ![c] = @ + 1]
    /\ UNCHANGED <<sid, table, peer, txDown, port, downNet, udpVars, serverTun, clientTun>>

\* client_udp_receiver: recv on the socket connected to the server, then
\* tunnel_packet_decode with the client's own key, tun_write.  What another key
\* sealed, or none, is dropped; no counter is looked at.
ClientReceive(c) ==
    /\ \E d \in downNet :
          /\ d.to = <<c, port[c]>>
          /\ d.key = c
          /\ clientTun' = clientTun \cup {<<c, d.packet>>}
    /\ UNCHANGED <<sid, table, peer, txUp, txDown, port, upNet, downNet, udpVars, serverTun>>

------------------------------------------------------------------------------
(* The server's UDP listener. *)

\* session_manager_get: the first slot whose session has this session_id.
FirstWithId(k, id) ==
    /\ k \in Slots
    /\ sid[table[k]] = id
    /\ \A j \in Slots : j < k => sid[table[j]] # id

\* recvfrom, tunnel_packet_peek_session_id, session_manager_get, of a client's
\* datagram or of a stray one.  A datagram whose session is not registered changes
\* nothing, nor does one too short to name a session.
ReceiveDatagram ==
    /\ upc = "select"
    /\ \E d \in upNet \cup StrayDatagram, k \in Slots :
          /\ FirstWithId(k, d.sid)
          /\ held' = [session |-> table[k], datagram |-> d]
    /\ upc' = "learn"
    /\ UNCHANGED <<sid, table, peer, txUp, txDown, port, upNet, downNet, serverTun, clientTun>>

\* Mutant: only the first address is learned.
LearnPeerOnce ==
    /\ upc = "learn"
    /\ peer' = [peer EXCEPT ![held.session] = IF @ = NULL THEN held.datagram.from ELSE @]
    /\ upc' = "decode"
    /\ UNCHANGED <<sid, table, txUp, txDown, port, upNet, downNet, held, serverTun, clientTun>>

\* peer_addr and peer_known, under the lock, before the datagram is decoded:
\* whoever sent it is the session's peer now.
LearnPeer ==
    /\ upc = "learn"
    /\ peer' = [peer EXCEPT ![held.session] = held.datagram.from]
    /\ upc' = "decode"
    /\ UNCHANGED <<sid, table, txUp, txDown, port, upNet, downNet, held, serverTun, clientTun>>

\* Mutant: the tag is not verified.
DecodeUnverified ==
    /\ upc = "decode"
    /\ serverTun' = serverTun \cup {<<held.session, held.datagram.packet>>}
    /\ upc' = "select"
    /\ held' = NULL
    /\ UNCHANGED <<sid, table, peer, txUp, txDown, port, upNet, downNet, clientTun>>

\* tunnel_packet_decode with the key of the session found, then tun_write; what
\* another key sealed is dropped.
DecodeDatagram ==
    /\ upc = "decode"
    /\ serverTun' = IF held.datagram.key = held.session
                    THEN serverTun \cup {<<held.session, held.datagram.packet>>}
                    ELSE serverTun
    /\ upc' = "select"
    /\ held' = NULL
    /\ UNCHANGED <<sid, table, peer, txUp, txDown, port, upNet, downNet, clientTun>>

------------------------------------------------------------------------------
(* The server's TUN sender. *)

\* The packets the kernel routes to sencd0: the answer to a packet that came out
\* of it, addressed to that packet's source, or one for any client's address.
RoutedPackets ==
    {[dst |-> ClientOctet, answers |-> w[2]] : w \in serverTun}
        \cup {[dst |-> o, answers |-> NULL] : o \in {Octet(k) : k \in Slots}}

\* Mutant: the first session with a known peer, whatever its octet.
FirstKnown(k, o) ==
    k \in Slots /\ peer[table[k]] # NULL /\ \A j \in Slots : j < k => peer[table[j]] = NULL

\* The scan of session_manager_tun_sender: the first established session with a
\* known peer and this octet.
FirstWithOctet(k, o) ==
    LET Fits(j) == peer[table[j]] # NULL /\ Octet(j) = o
    IN  k \in Slots /\ Fits(k) /\ \A j \in Slots : j < k => ~Fits(j)

\* Mutant: the counter is read and not incremented.
ServerSendKeepsNonce ==
    /\ \E p \in RoutedPackets, k \in Slots :
          LET c == table[k] IN
          /\ FirstWithOctet(k, p.dst)
          /\ txDown[c] < MaxCounter /\ Cardinality(downNet) < MaxDown
          /\ downNet' = downNet \cup {[key |-> c, counter |-> txDown[c], packet |-> p,
                                       to |-> peer[c]]}
    /\ UNCHANGED <<sid, table, peer, txUp, txDown, port, upNet, udpVars, serverTun, clientTun>>

\* tun_read, the scan, tunnel_packet_encode with tx_nonce++ under the lock, and
\* sendto to the address copied there; later is the network's delay.
ServerSend ==
    /\ \E p \in RoutedPackets, k \in Slots :
          LET c == table[k] IN
          /\ FirstWithOctet(k, p.dst)
          /\ txDown[c] < MaxCounter /\ Cardinality(downNet) < MaxDown
          /\ downNet' = downNet \cup {[key |-> c, counter |-> txDown[c], packet |-> p,
                                       to |-> peer[c]]}
          /\ txDown' = [txDown EXCEPT ![c] = @ + 1]
    /\ UNCHANGED <<sid, table, peer, txUp, port, upNet, udpVars, serverTun, clientTun>>

Next ==
    \/ \E c \in Clients : Register(c) \/ Rebind(c) \/ ClientSend(c) \/ ClientReceive(c)
    \/ ReceiveDatagram \/ LearnPeer \/ DecodeDatagram
    \/ ServerSend

Spec == Init /\ [][Next]_vars
------------------------------------------------------------------------------
(* Properties. *)

\* The shape of the state of the two ends, the network and the TUN devices.
TypeOK ==
    /\ sid \in [Clients -> Ids]
    /\ table \in Seq(Clients)
    /\ peer \in [Clients -> Source \cup {NULL}]
    /\ txUp \in [Clients -> Nat]
    /\ txDown \in [Clients -> Nat]
    /\ port \in [Clients -> 1..MaxPort]
    /\ upNet \subseteq UpDatagram
    /\ downNet \subseteq DownDatagram
    /\ upc \in {"select", "learn", "decode"}
    /\ upc # "select" => held \in [session : Clients, datagram : UpDatagram \cup StrayDatagram]
    /\ serverTun \subseteq Clients \X UpPacket
    /\ clientTun \subseteq Clients \X DownPacket

\* A client is registered once, and a slot's session never moves.
RegisteredOnce == \A j, k \in Slots : table[j] = table[k] => j = k

\* What is in the network was made by its owner, with a counter already spent.
UpProvenance ==
    \A d \in upNet :
        /\ d.sid = sid[d.key] /\ d.packet.by = d.key
        /\ d.from[1] = d.key /\ d.from[2] <= port[d.key]
        /\ d.counter < txUp[d.key]

DownProvenance ==
    \A d \in downNet :
        /\ \E k \in Slots : table[k] = d.key /\ Octet(k) = d.packet.dst
        /\ d.counter < txDown[d.key]

\* The session the UDP listener works with is the one the datagram names.
HeldProvenance ==
    upc # "select" =>
        /\ held.datagram \in upNet \cup StrayDatagram
        /\ held.session \in Registered
        /\ sid[held.session] = held.datagram.sid

\* No two datagrams are sealed under the same key with the same nonce: tx_nonce++
\* spends a counter for good on both sides (session_manager.c:306,
\* client_env.c:123), whatever is lost, repeated or sent to another address.
NonceNeverReused ==
    /\ \A d, e \in upNet : d.key = e.key /\ d.counter = e.counter => d = e
    /\ \A d, e \in downNet : d.key = e.key /\ d.counter = e.counter => d = e

\* A datagram naming c's session has come from here: c's own (or, if their ids
\* coincide, another client's), or a stray one.
SourceFor(c, a) ==
    a \in StraySources \/ \E d \in upNet : d.sid = sid[c] /\ d.from = a

\* The server sends for a session only to where a datagram with its id came from, and
\* whatever strays it has followed in between (it learns an address before it decodes
\* the datagram, session_manager.c:216), when it opens a packet of the session's
\* client the session's address is the one that packet came from.
PeerIsSource ==
    /\ \A c \in Clients : peer[c] # NULL => SourceFor(c, peer[c])
    /\ \A d \in downNet : SourceFor(d.key, d.to)
    /\ upc = "decode" => peer[held.session] = held.datagram.from

\* A packet reaches a client's TUN device only if the octet it is addressed to is
\* the one session_manager_add gave that client's session.
RoutedByOctet ==
    \A w \in clientTun : \E k \in Slots : table[k] = w[1] /\ Octet(k) = w[2].dst

\* What came out of a TUN device went in at the other end.
Delivered ==
    /\ \A w \in serverTun : \E d \in upNet : d.key = w[1] /\ d.packet = w[2]
    /\ \A w \in clientTun : \E d \in downNet : d.key = w[1] /\ d.packet = w[2]
    /\ \A w \in serverTun : w[1] \in Registered

\* The inductive invariant of the data path.
IInv ==
    /\ TypeOK
    /\ RegisteredOnce
    /\ UpProvenance
    /\ DownProvenance
    /\ HeldProvenance
    /\ NonceNeverReused
    /\ PeerIsSource
    /\ Delivered

\* The answer to a client's packet comes out at that client (README.md:44, "so
\* tunneled traffic can be routed between them").
AnswersReachAsker ==
    \A w \in clientTun : w[2].answers # NULL => w[2].answers.by = w[1]

\* The data path implements the private channels of TunnelChannel.
Of(c, net) == {d.packet : d \in {e \in net : e.key = c}}
At(c, tun) == {w[2] : w \in {v \in tun : v[1] = c}}

Channel == INSTANCE TunnelChannel WITH
    UpPackets <- UpPacket,
    DownPackets <- DownPacket,
    opened <- Registered,
    upIn <- [c \in Clients |-> Of(c, upNet)],
    upOut <- [c \in Clients |-> At(c, serverTun)],
    downIn <- [c \in Clients |-> Of(c, downNet)],
    downOut <- [c \in Clients |-> At(c, clientTun)]

ImplementsChannel == Channel!Spec
==============================================================================
