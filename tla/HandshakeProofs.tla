---------------------------- MODULE HandshakeProofs ---------------------------
(***************************************************************************)
(* The handshake for any number of clients, connections and identities.    *)
(* Two arguments carry it.  The file never changes from one whole key to   *)
(* another without a fault that is counted in lost: a key that could not   *)
(* be read, a write that failed or a power loss; so only a fault makes the *)
(* server someone else.  And nothing is used for two connections: ids,     *)
(* nonces and keys carry the connection they were drawn for, and a client  *)
(* never takes up a connection again.                                      *)
(***************************************************************************)
EXTENDS Handshake, TLAPS

------------------------------------------------------------------------------
(* The steps, grouped by what they do. *)

\* session_destroy after a failed handshake, whatever made it fail.
Drops == spc \in ServingPc /\ DropInHand

\* The process of a client ends: it turns the server away, or not.
Leaves(c) == Refuse(c) \/ ClientGone(c, "idle")

ServerActs ==
    \/ LoadIdentity \/ GenerateIdentity \/ TruncateIdentity \/ WriteIdentity \/ StartFails
    \/ Accept \/ ServerHello \/ ServerChallenge \/ Establish \/ Drops
    \/ StartServer \/ ServerDies \/ WriteBack \/ PowerLoss

ClientActs(c) ==
    \/ LoadTrust(c) \/ ReceiveHello(c) \/ ReceiveChallenge(c) \/ TruncateTrust(c)
    \/ SaveTrust(c) \/ Respond(c) \/ Join(c) \/ Leaves(c) \/ Connect(c)

\* Next, in these groups.
LEMMA Steps ==
    ASSUME Next
    PROVE  \/ ServerActs
           \/ \E c \in Clients : ClientActs(c)
           \/ ClientHostDies
           \/ \E k \in Conns : NeverArrives(k)
  <1>1. DropClient \/ ServerTimesOut => Drops
    BY DEF DropClient, ServerTimesOut, Drops, ServingPc
  <1>2. ServerStep => ServerActs
    BY <1>1 DEF ServerStep, ServerActs
  <1>3. ASSUME NEW c \in Clients,
               ClientStep(c) \/ Connect(c) \/ ClientEnds(c) \/ ClientTimesOut(c)
        PROVE  ClientActs(c)
    <2>1. ClientFails(c) \/ ClientEnds(c) \/ ClientTimesOut(c) => Leaves(c)
      BY DEF ClientFails, ClientEnds, ClientTimesOut, Leaves
    <2>2. Refuse(c) => Leaves(c)
      BY DEF Leaves
    <2> QED
      BY <1>3, <2>1, <2>2 DEF ClientStep, ClientActs
  <1> QED
    BY <1>1, <1>2, <1>3 DEF Next, ServerActs

------------------------------------------------------------------------------
(* Queues of packets. *)

\* A packet taken off a queue takes its payload with it (packet_receive).
LEMMA TailPayloads ==
    ASSUME NEW q \in Seq(Packet), q # << >>, NEW t
    PROVE  Tail(q) \in Seq(Packet) /\ Payloads(Tail(q), t) \subseteq Payloads(q, t)
  <1>1. Tail(q) \in Seq(Packet)
    OBVIOUS
  <1>2. ASSUME NEW b \in Payloads(Tail(q), t) PROVE b \in Payloads(q, t)
    <2>1. PICK i \in DOMAIN Tail(q) : Tail(q)[i].type = t /\ b = Tail(q)[i].body /\ b # NULL
      BY DEF Payloads
    <2>2. i + 1 \in DOMAIN q /\ Tail(q)[i] = q[i + 1]
      BY <2>1
    <2> QED
      BY <2>1, <2>2 DEF Payloads
  <1> QED
    BY <1>1, <1>2

\* A packet put on a queue adds its own payload (packet_send).
LEMMA AppendPayloads ==
    ASSUME NEW q \in Seq(Packet), NEW m \in Packet, NEW t
    PROVE  /\ Append(q, m) \in Seq(Packet)
           /\ \A b \in Payloads(Append(q, m), t) :
                 b \in Payloads(q, t) \/ (m.type = t /\ b = m.body /\ b # NULL)
  <1>1. Append(q, m) \in Seq(Packet)
    OBVIOUS
  <1>2. ASSUME NEW b \in Payloads(Append(q, m), t), ~(m.type = t /\ b = m.body /\ b # NULL)
        PROVE  b \in Payloads(q, t)
    <2>1. PICK i \in DOMAIN Append(q, m) :
             Append(q, m)[i].type = t /\ b = Append(q, m)[i].body /\ b # NULL
      BY DEF Payloads
    <2>2. i \in 1..Len(q) /\ Append(q, m)[i] = q[i]
      BY <1>2, <2>1
    <2> QED
      BY <2>1, <2>2 DEF Payloads
  <1> QED
    BY <1>1, <1>2

\* The packet at the head of a queue is one of its packets.
LEMMA HeadPayload ==
    ASSUME NEW q \in Seq(Packet), NEW t, ArrivedWhole(q, t)
    PROVE  Head(q) \in Packet /\ Head(q).body \in Payloads(q, t)
  <1>1. q # << >> /\ Head(q).type = t /\ Head(q).body # NULL
    BY DEF ArrivedWhole, Arrived
  <1>2. 1 \in DOMAIN q /\ Head(q) = q[1]
    BY <1>1
  <1>3. Head(q) \in Packet
    BY <1>2
  <1> QED
    BY <1>1, <1>2, <1>3 DEF Payloads

\* An empty queue carries nothing.
LEMMA NoPayloads == ASSUME NEW t PROVE Payloads(<< >>, t) = {}
  BY DEF Payloads

\* What the payloads of each type are (packet.h, auth.h).
LEMMA PayloadTypes ==
    ASSUME NEW q \in Seq(Packet)
    PROVE  /\ Payloads(q, "auth_request") \subseteq Request
           /\ Payloads(q, "auth_response") \subseteq Response
           /\ Payloads(q, "auth_success") \subseteq Success
  <1>1. ASSUME NEW p \in Packet, p.body # NULL
        PROVE  /\ p.type = "auth_request" => p.body \in Request
               /\ p.type = "auth_response" => p.body \in Response
               /\ p.type = "auth_success" => p.body \in Success
    BY <1>1 DEF Packet
  <1>2. ASSUME NEW t, NEW b \in Payloads(q, t)
        PROVE  \E p \in Packet : p.type = t /\ p.body = b /\ b # NULL
    BY DEF Payloads
  <1> QED
    BY <1>1, <1>2

\* Packets without a payload are packets, and so are the constructed ones.
LEMMA PacketShapes ==
    /\ Hello("client_hello") \in Packet /\ Hello("server_hello") \in Packet
    /\ \A b \in Request : \A m \in Constructed("auth_request", b) : m \in Packet
    /\ \A b \in Response : \A m \in Constructed("auth_response", b) : m \in Packet
    /\ \A b \in Success : \A m \in Constructed("auth_success", b) : m \in Packet
  BY DEF Hello, Constructed, Packet

\* Sending to a client.
LEMMA SendsDown ==
    ASSUME TypeOK, NEW k \in Conns, NEW m \in Packet, SendDown(k, m)
    PROVE  /\ down' \in [Conns -> Seq(Packet)]
           /\ \A j \in Conns \ {k} : down'[j] = down[j]
           /\ \A t : \A b \in Payloads(down'[k], t) :
                 b \in Payloads(down[k], t) \/ (m.type = t /\ b = m.body /\ b # NULL)
  <1>1. down \in [Conns -> Seq(Packet)] /\ down[k] \in Seq(Packet)
    BY DEF TypeOK
  <1>2. Append(down[k], m) \in Seq(Packet)
    BY <1>1, AppendPayloads
  <1>3. CASE clientEnd[k] # NULL
    <2>1. down' = [down EXCEPT ![k] = Append(@, m)]
      BY <1>3 DEF SendDown
    <2>2. down' \in [Conns -> Seq(Packet)] /\ down'[k] = Append(down[k], m)
      BY <1>1, <1>2, <2>1
    <2>3. \A j \in Conns \ {k} : down'[j] = down[j]
      BY <1>1, <2>1
    <2> QED
      BY <1>1, <2>2, <2>3, AppendPayloads
  <1>4. CASE clientEnd[k] = NULL
    BY <1>1, <1>4 DEF SendDown
  <1> QED
    BY <1>3, <1>4

\* A packet of one type leaves the payloads of the other types as they were.
LEMMA SendsDownOther ==
    ASSUME TypeOK, NEW k \in Conns, NEW m \in Packet, SendDown(k, m), NEW t, m.type # t,
           NEW j \in Conns
    PROVE  Payloads(down'[j], t) \subseteq Payloads(down[j], t)
  <1>1. CASE j = k
    <2>1. \A b \in Payloads(down'[k], t) : b \in Payloads(down[k], t) \/ m.type = t
      BY SendsDown
    <2> QED
      BY <1>1, <2>1
  <1>2. CASE j # k
    <2>1. down'[j] = down[j]
      BY <1>2, SendsDown
    <2> QED
      BY <2>1
  <1> QED
    BY <1>1, <1>2

\* Sending to the server.
LEMMA SendsUp ==
    ASSUME TypeOK, NEW k \in Conns, NEW m \in Packet, SendUp(k, m)
    PROVE  /\ up' \in [Conns -> Seq(Packet)]
           /\ \A j \in Conns \ {k} : up'[j] = up[j]
           /\ \A t : \A b \in Payloads(up'[k], t) :
                 b \in Payloads(up[k], t) \/ (m.type = t /\ b = m.body /\ b # NULL)
  <1>1. up \in [Conns -> Seq(Packet)] /\ up[k] \in Seq(Packet)
    BY DEF TypeOK
  <1>2. Append(up[k], m) \in Seq(Packet)
    BY <1>1, AppendPayloads
  <1>3. CASE Served(k)
    <2>1. up' = [up EXCEPT ![k] = Append(@, m)]
      BY <1>3 DEF SendUp
    <2>2. up' \in [Conns -> Seq(Packet)] /\ up'[k] = Append(up[k], m)
      BY <1>1, <1>2, <2>1
    <2>3. \A j \in Conns \ {k} : up'[j] = up[j]
      BY <1>1, <2>1
    <2> QED
      BY <1>1, <2>2, <2>3, AppendPayloads
  <1>4. CASE ~Served(k)
    BY <1>1, <1>4 DEF SendUp
  <1> QED
    BY <1>3, <1>4

\* A packet taken by the client, or by the server.
LEMMA TakesDown ==
    ASSUME TypeOK, NEW k \in Conns, down[k] # << >>, down' = [down EXCEPT ![k] = Tail(@)]
    PROVE  /\ down' \in [Conns -> Seq(Packet)]
           /\ \A j \in Conns \ {k} : down'[j] = down[j]
           /\ \A j \in Conns : \A t : Payloads(down'[j], t) \subseteq Payloads(down[j], t)
  <1>1. down \in [Conns -> Seq(Packet)] /\ down[k] \in Seq(Packet)
    BY DEF TypeOK
  <1> QED
    BY <1>1, TailPayloads

\* The same for a packet the server takes.
LEMMA TakesUp ==
    ASSUME TypeOK, NEW k \in Conns, up[k] # << >>, up' = [up EXCEPT ![k] = Tail(@)]
    PROVE  /\ up' \in [Conns -> Seq(Packet)]
           /\ \A j \in Conns \ {k} : up'[j] = up[j]
           /\ \A j \in Conns : \A t : Payloads(up'[j], t) \subseteq Payloads(up[j], t)
  <1>1. up \in [Conns -> Seq(Packet)] /\ up[k] \in Seq(Packet)
    BY DEF TypeOK
  <1> QED
    BY <1>1, TailPayloads

\* The process of the server is gone, or that of a client.
LEMMA ServerEndsClosed ==
    ASSUME TypeOK, CloseServerEnds
    PROVE  /\ up' \in [Conns -> Seq(Packet)]
           /\ serverEnd' \in [Conns -> {"none", "backlog", "open", "closed"}]
           /\ \A k \in Conns : up'[k] = << >>
           /\ \A k \in Conns : serverEnd'[k] = IF Served(k) THEN "closed" ELSE serverEnd[k]
           /\ \A k \in Conns : \A t : Payloads(up'[k], t) = {}
  BY NoPayloads DEF CloseServerEnds, Served, TypeOK

\* A client closes its descriptor: what it had not read is gone.
LEMMA ClientEndClosed ==
    ASSUME TypeOK, NEW c \in Clients, CloseClientEnd(c)
    PROVE  /\ down' \in [Conns -> Seq(Packet)]
           /\ clientEnd' \in [Conns -> Clients \cup {NULL}]
           /\ \A k \in Conns : down'[k] \in {down[k], << >>}
           /\ \A k \in Conns : \A t : Payloads(down'[k], t) \subseteq Payloads(down[k], t)
  <1>1. /\ down' = [k \in Conns |-> IF clientEnd[k] = c THEN << >> ELSE down[k]]
        /\ clientEnd' = [k \in Conns |-> IF clientEnd[k] = c THEN NULL ELSE clientEnd[k]]
    BY DEF CloseClientEnd
  <1>2. down \in [Conns -> Seq(Packet)] /\ clientEnd \in [Conns -> Clients \cup {NULL}]
    BY DEF TypeOK
  <1>3. \A k \in Conns : down'[k] \in {down[k], << >>}
    BY <1>1
  <1>4. down' \in [Conns -> Seq(Packet)]
    BY <1>1, <1>2
  <1>5. clientEnd' \in [Conns -> Clients \cup {NULL}]
    BY <1>1, <1>2
  <1> QED
    BY <1>3, <1>4, <1>5, NoPayloads

------------------------------------------------------------------------------
(* The steps of the server. *)

\* What the challenge puts on the wire (session.c:66).
LEMMA ChallengeSent ==
    ASSUME TypeOK, ServerProgress, ServerChallenge
    PROVE  /\ cur \in Conns /\ ident \in Keys
           /\ \E m \in Packet :
                 /\ SendDown(cur, m) /\ m.type = "auth_request"
                 /\ m.body # NULL => m.body.eph = ServerEph(cur) /\ m.body.key = ident
  <1> DEFINE r == [key |-> ident, eph |-> ServerEph(cur), nonce |-> Nonce(cur),
                   signer |-> ident, signed |-> <<Nonce(cur), ServerEph(cur)>>]
  <1>1. cur \in Conns /\ ident \in Keys
    BY DEF TypeOK, ServerProgress, ServerChallenge, ServingPc
  <1>2. r \in Request
    BY <1>1 DEF Request, Named, ServerEph, Nonce
  <1>3. PICK m \in Constructed("auth_request", r) : SendDown(cur, m)
    BY DEF ServerChallenge
  <1>4. m \in Packet
    BY <1>2, <1>3, PacketShapes
  <1>5. m.type = "auth_request" /\ (m.body # NULL => m.body = r)
    BY <1>3 DEF Constructed
  <1> QED
    BY <1>1, <1>3, <1>4, <1>5

\* The session the server establishes (session.c:370), and how it tells the
\* client (session.c:160).
LEMMA SessionEstablished ==
    ASSUME TypeOK, ServerProgress, ResponsesHonest, Establish
    PROVE  /\ cur \in Conns /\ up[cur] # << >>
           /\ \E s \in Session :
                 /\ offered' = [offered EXCEPT ![cur] = s]
                 /\ s.id = Id(cur)
                 /\ s.up = <<"up", ServerEph(cur), ClientEph(cur)>>
                 /\ s.down = <<"down", ServerEph(cur), ClientEph(cur)>>
                 /\ s.server = ident
                 /\ \A c \in Clients : link[c] = cur => s.client = c
           /\ \E m \in Packet :
                 /\ SendDown(cur, m) /\ m.type = "auth_success"
                 /\ m.body # NULL => m.body.id = Id(cur)
  <1> DEFINE r == Head(up[cur]).body
             s == [id |-> Id(cur), up |-> <<"up", ServerEph(cur), r.eph>>,
                   down |-> <<"down", ServerEph(cur), r.eph>>,
                   server |-> ident, client |-> r.key]
  <1>1. cur \in Conns /\ ident \in Keys /\ up[cur] \in Seq(Packet)
    BY DEF TypeOK, ServerProgress, Establish, ServingPc
  <1>2. ArrivedWhole(up[cur], "auth_response") /\ up[cur] # << >>
    BY DEF Establish, ArrivedWhole, Arrived
  <1>3. r \in Payloads(up[cur], "auth_response") /\ r \in Response
    BY <1>1, <1>2, HeadPayload, PayloadTypes
  <1>4. r.eph = ClientEph(cur) /\ \A c \in Clients : link[c] = cur => r.key = c
    BY <1>1, <1>3 DEF ResponsesHonest
  <1>5. r.key \in Clients
    BY <1>3 DEF Response
  <1>6. s \in Session
    BY <1>1, <1>4, <1>5 DEF Session, SessionKey, Named, ServerEph, ClientEph, Id
  <1>7. offered' = [offered EXCEPT ![cur] = s]
    BY DEF Establish, ServerKeys
  <1>8. PICK m \in Constructed("auth_success", [id |-> Id(cur)]) : SendDown(cur, m)
    BY DEF Establish
  <1>9. [id |-> Id(cur)] \in Success
    BY <1>1 DEF Success, Named, Id
  <1>10. m \in Packet
    BY <1>8, <1>9, PacketShapes
  <1>11. m.type = "auth_success" /\ (m.body # NULL => m.body.id = Id(cur))
    BY <1>8 DEF Constructed
  <1>12. \E x \in Packet : /\ SendDown(cur, x) /\ x.type = "auth_success"
                           /\ x.body # NULL => x.body.id = Id(cur)
    BY <1>8, <1>10, <1>11
  <1> HIDE DEF s
  <1>13. /\ s.id = Id(cur) /\ s.server = ident
         /\ s.up = <<"up", ServerEph(cur), ClientEph(cur)>>
         /\ s.down = <<"down", ServerEph(cur), ClientEph(cur)>>
         /\ \A c \in Clients : link[c] = cur => s.client = c
    BY <1>4 DEF s
  <1> QED
    BY <1>1, <1>2, <1>6, <1>7, <1>12, <1>13

\* What the server says hello with (session.c:131).
LEMMA HelloSent ==
    ASSUME TypeOK, ServerHello
    PROVE  cur \in Conns /\ up[cur] # << >>
           /\ SendDown(cur, Hello("server_hello")) /\ Hello("server_hello") \in Packet
           /\ Hello("server_hello").type = "server_hello" /\ spc = "hello"
  BY PacketShapes DEF TypeOK, ServerHello, ServingPc, Arrived, Hello

\* The server's steps keep the types.
LEMMA ServerTypes ==
    ASSUME BoundsAssumption, NullAssumption, TypeOK, ServerProgress, ResponsesHonest,
           ServerActs
    PROVE  TypeOK'
  <1> USE DEF NoKey
  <1>1. CASE LoadIdentity
    BY <1>1 DEF LoadIdentity, TypeOK, ServingPc, fileVars, clientVars, wireVars, sessionVars
  <1>2. CASE GenerateIdentity
    <2>1. made + 1 \in Keys /\ made + 1 \in 0..MaxKeys
      BY <1>2, BoundsAssumption DEF GenerateIdentity, TypeOK, Keys
    <2> QED
      BY <1>2, <2>1 DEF GenerateIdentity, TypeOK, ServingPc, clientVars, wireVars, sessionVars
  <1>3. CASE TruncateIdentity
    BY <1>3 DEF TruncateIdentity, TypeOK, ServingPc, clientVars, wireVars, sessionVars
  <1>4. CASE WriteIdentity
    BY <1>4 DEF WriteIdentity, TypeOK, ServingPc, clientVars, wireVars, sessionVars
  <1>5. CASE StartServer
    BY <1>5 DEF StartServer, TypeOK, ServingPc, fileVars, clientVars, wireVars, sessionVars
  <1>6. CASE WriteBack
    BY <1>6 DEF WriteBack, TypeOK, ServingPc, serverVars, clientVars, wireVars, sessionVars
  <1>7. CASE StartFails \/ ServerDies \/ PowerLoss
    <2>1. CloseServerEnds
      BY <1>7 DEF StartFails, ServerDies, PowerLoss, ServerGone
    <2>2. cur' = NULL /\ NULL \notin Conns
      BY <1>7, NullAssumption DEF StartFails, ServerDies, PowerLoss, ServerGone
    <2>3. up' \in [Conns -> Seq(Packet)]
          /\ serverEnd' \in [Conns -> {"none", "backlog", "open", "closed"}]
      BY <2>1, ServerEndsClosed
    <2> QED
      BY <1>7, <2>1, <2>2, <2>3
      DEF StartFails, ServerDies, PowerLoss, ServerGone, TypeOK, ServingPc, fileVars,
          clientVars, sessionVars
  <1>8. CASE Accept
    BY <1>8 DEF Accept, TypeOK, ServingPc, fileVars, clientVars, sessionVars
  <1>9. CASE ServerHello
    <2>1. cur \in Conns /\ up[cur] # << >> /\ up' = [up EXCEPT ![cur] = Tail(@)]
      BY <1>9, HelloSent DEF ServerHello
    <2>2. up' \in [Conns -> Seq(Packet)]
      BY <2>1, TakesUp
    <2>3. down' \in [Conns -> Seq(Packet)]
      BY <1>9, HelloSent, SendsDown
    <2> QED
      BY <1>9, <2>1, <2>2, <2>3 DEF ServerHello, TypeOK, ServingPc, fileVars, clientVars,
             sessionVars
  <1>10. CASE ServerChallenge
    <2>1. down' \in [Conns -> Seq(Packet)]
      BY <1>10, ChallengeSent, SendsDown
    <2> QED
      BY <1>10, <2>1 DEF ServerChallenge, TypeOK, ServingPc, fileVars, clientVars, sessionVars
  <1>11. CASE Establish
    <2>1. PICK s \in Session : offered' = [offered EXCEPT ![cur] = s]
      BY <1>11, SessionEstablished
    <2>2. offered' \in [Conns -> Session \cup {NULL}]
      BY <2>1 DEF TypeOK
    <2>3. down' \in [Conns -> Seq(Packet)]
      BY <1>11, SessionEstablished, SendsDown
    <2>4. up' = [up EXCEPT ![cur] = Tail(@)]
      BY <1>11 DEF Establish
    <2>5. up' \in [Conns -> Seq(Packet)]
      BY <1>11, <2>4, SessionEstablished, TakesUp
    <2>6. cur' = NULL /\ NULL \notin Conns
      BY <1>11, NullAssumption DEF Establish
    <2> QED
      BY <1>11, <2>2, <2>3, <2>5, <2>6 DEF Establish, TypeOK, ServingPc, fileVars, clientVars
  <1>12. CASE Drops
    <2>1. cur' = NULL /\ NULL \notin Conns
      BY <1>12, NullAssumption DEF Drops, DropInHand
    <2>2. up' \in [Conns -> Seq(Packet)]
      BY <1>12 DEF Drops, DropInHand, TypeOK
    <2> QED
      BY <1>12, <2>1, <2>2 DEF Drops, DropInHand, TypeOK, ServingPc, fileVars, clientVars,
             sessionVars
  <1> QED
    BY <1>1, <1>2, <1>3, <1>4, <1>5, <1>6, <1>7, <1>8, <1>9, <1>10, <1>11, <1>12 DEF ServerActs

------------------------------------------------------------------------------
(* The steps of a client. *)

\* A client in its handshake has a connection.
LEMMA Linked ==
    ASSUME TypeOK, LinksOwned, NEW c \in Clients, cpc[c] \in HandshakePc
    PROVE  link[c] \in Conns /\ link[c] # NULL /\ joined[link[c]] = NULL
  BY DEF TypeOK, LinksOwned

\* The challenge a client receives (session.c:197).
LEMMA ChallengeReceived ==
    ASSUME TypeOK, LinksOwned, NEW c \in Clients, ReceiveChallenge(c) \/ Refuse(c)
    PROVE  /\ link[c] \in Conns /\ down[link[c]] # << >>
           /\ Head(down[link[c]]).body \in Payloads(down[link[c]], "auth_request")
           /\ Head(down[link[c]]).body \in Request /\ Head(down[link[c]]).body # NULL
  <1>1. cpc[c] = "challenge" /\ ArrivedWhole(down[link[c]], "auth_request")
    BY DEF ReceiveChallenge, Refuse
  <1>2. link[c] \in Conns
    BY <1>1, Linked DEF HandshakePc
  <1>3. down[link[c]] \in Seq(Packet)
    BY <1>2 DEF TypeOK
  <1> QED
    BY <1>1, <1>2, <1>3, HeadPayload, PayloadTypes DEF ArrivedWhole, Arrived

\* What a client answers (session.c:270).
LEMMA ResponseSent ==
    ASSUME TypeOK, LinksOwned, ChallengeHeld, NEW c \in Clients, Respond(c)
    PROVE  /\ link[c] \in Conns
           /\ \E m \in Packet :
                 /\ SendUp(link[c], m) /\ m.type = "auth_response"
                 /\ m.body # NULL => m.body.eph = ClientEph(link[c]) /\ m.body.key = c
  <1> DEFINE r == [key |-> c, eph |-> ClientEph(link[c]), signer |-> c,
                   signed |-> <<challenge[c].nonce, ClientEph(link[c])>>]
  <1>1. cpc[c] = "respond"
    BY DEF Respond
  <1>2. link[c] \in Conns
    BY <1>1, Linked DEF HandshakePc
  <1>3. challenge[c] \in Request
    BY <1>1 DEF TypeOK, ChallengeHeld
  <1>4. challenge[c].nonce \in Named("nonce")
    BY <1>3 DEF Request
  <1>5. r \in Response
    BY <1>2, <1>4 DEF Response, Named, ClientEph
  <1>6. PICK m \in Constructed("auth_response", r) : SendUp(link[c], m)
    BY DEF Respond
  <1>7. m \in Packet
    BY <1>5, <1>6, PacketShapes
  <1>8. m.type = "auth_response" /\ (m.body # NULL => m.body = r)
    BY <1>6 DEF Constructed
  <1> QED
    BY <1>2, <1>6, <1>7, <1>8

\* The session a client joins (session.c:291) is the one its server offered.
LEMMA SessionJoined ==
    ASSUME TypeOK, LinksOwned, RequestsHonest, OffersHonest, SuccessesHonest, ChallengeHeld,
           NEW c \in Clients, Join(c)
    PROVE  /\ link[c] \in Conns /\ down[link[c]] # << >> /\ joined[link[c]] = NULL
           /\ offered[link[c]] \in Session /\ offered[link[c]] # NULL
           /\ joined' = [joined EXCEPT ![link[c]] = offered[link[c]]]
  <1> DEFINE k == link[c]
  <1>1. cpc[c] = "success" /\ ArrivedWhole(down[k], "auth_success")
    BY DEF Join
  <1>2. k \in Conns /\ k # NULL /\ joined[k] = NULL
    BY <1>1, Linked DEF HandshakePc
  <1>3. down[k] \in Seq(Packet) /\ down[k] # << >>
    BY <1>1, <1>2 DEF TypeOK, ArrivedWhole, Arrived
  <1>4. Head(down[k]).body \in Payloads(down[k], "auth_success")
    BY <1>1, <1>3, HeadPayload
  <1>5. Head(down[k]).body.id = Id(k) /\ offered[k] # NULL
    BY <1>2, <1>4 DEF SuccessesHonest
  <1>6. challenge[c] \in Request /\ challenge[c] # NULL
    BY <1>1 DEF TypeOK, ChallengeHeld
  <1>7. challenge[c] \in Challenges(k)
    BY <1>6 DEF Challenges, Received
  <1>8. challenge[c].eph = ServerEph(k) /\ challenge[c].key = offered[k].server
    BY <1>2, <1>5, <1>7 DEF RequestsHonest
  <1>9. /\ offered[k].id = Id(k) /\ offered[k].client = c
        /\ offered[k].up = <<"up", ServerEph(k), ClientEph(k)>>
        /\ offered[k].down = <<"down", ServerEph(k), ClientEph(k)>>
    BY <1>2, <1>5 DEF OffersHonest
  <1>10. offered[k] \in Session
    BY <1>2, <1>5 DEF TypeOK
  <1>11. offered[k] = [id |-> Head(down[k]).body.id,
                       up |-> <<"up", challenge[c].eph, ClientEph(k)>>,
                       down |-> <<"down", challenge[c].eph, ClientEph(k)>>,
                       server |-> challenge[c].key, client |-> c]
    BY <1>5, <1>8, <1>9, <1>10 DEF Session
  <1>12. joined' = [joined EXCEPT ![k] =
                     [id |-> Head(down[k]).body.id,
                      up |-> <<"up", challenge[c].eph, ClientEph(k)>>,
                      down |-> <<"down", challenge[c].eph, ClientEph(k)>>,
                      server |-> challenge[c].key, client |-> c]]
    BY DEF Join, ClientKeys
  <1> QED
    BY <1>2, <1>3, <1>5, <1>10, <1>11, <1>12

\* A client's steps keep the types.
LEMMA ClientTypes ==
    ASSUME BoundsAssumption, TypeOK, LinksOwned, RequestsHonest, OffersHonest,
           SuccessesHonest, ChallengeHeld, NEW c \in Clients,
           ClientActs(c)
    PROVE  TypeOK'
  <1> USE DEF NoKey
  <1>1. CASE Connect(c)
    <2>1. opened + 1 \in Conns /\ opened + 1 \in 0..MaxConns /\ opened' = opened + 1
      BY <1>1, BoundsAssumption DEF Connect, TypeOK, Conns
    <2> QED
      BY <1>1, <2>1 DEF Connect, TypeOK, HandshakePc, ServingPc, serverVars, fileVars,
             sessionVars
  <1>2. CASE LoadTrust(c)
    <2>1. link[c] \in Conns
      BY <1>2, Linked DEF LoadTrust, HandshakePc
    <2>2. up' \in [Conns -> Seq(Packet)]
      BY <1>2, <2>1, SendsUp, PacketShapes DEF LoadTrust
    <2> QED
      BY <1>2, <2>2 DEF LoadTrust, TypeOK, HandshakePc, serverVars, fileVars, sessionVars
  <1>3. CASE ReceiveHello(c)
    <2>1. link[c] \in Conns /\ down[link[c]] # << >>
      BY <1>3, Linked DEF ReceiveHello, HandshakePc, Arrived
    <2>2. down' \in [Conns -> Seq(Packet)]
      BY <1>3, <2>1, TakesDown DEF ReceiveHello
    <2> QED
      BY <1>3, <2>2 DEF ReceiveHello, TypeOK, HandshakePc, serverVars, fileVars, sessionVars
  <1>4. CASE ReceiveChallenge(c)
    <2>1. Head(down[link[c]]).body \in Request /\ link[c] \in Conns /\ down[link[c]] # << >>
      BY <1>4, ChallengeReceived
    <2>2. down' \in [Conns -> Seq(Packet)]
      BY <1>4, <2>1, TakesDown DEF ReceiveChallenge
    <2>3. Head(down[link[c]]).body.key \in Keys
      BY <2>1 DEF Request
    <2> QED
      BY <1>4, <2>1, <2>2, <2>3
      DEF ReceiveChallenge, TypeOK, HandshakePc, serverVars, fileVars, sessionVars
  <1>5. CASE Leaves(c)
    <2>1. CloseClientEnd(c)
      BY <1>5 DEF Leaves, Refuse, ClientGone
    <2>2. down' \in [Conns -> Seq(Packet)] /\ clientEnd' \in [Conns -> Clients \cup {NULL}]
      BY <2>1, ClientEndClosed
    <2>3. silent' \subseteq Conns
      BY <2>1 DEF CloseClientEnd, TypeOK
    <2>4. /\ \E q \in {"idle", "refused"} : cpc' = [cpc EXCEPT ![c] = q]
          /\ trusted' = [trusted EXCEPT ![c] = NoKey]
          /\ link' = [link EXCEPT ![c] = NULL] /\ challenge' = [challenge EXCEPT ![c] = NULL]
          /\ trust' = trust /\ up' = up /\ opened' = opened /\ serverEnd' = serverEnd
          /\ UNCHANGED <<serverVars, fileVars, sessionVars>>
      BY <1>5 DEF Leaves, Refuse, ClientGone, CloseClientEnd
    <2> QED
      BY <2>2, <2>3, <2>4 DEF TypeOK, HandshakePc, serverVars, fileVars, sessionVars
  <1>6. CASE TruncateTrust(c)
    BY <1>6 DEF TruncateTrust, TypeOK, HandshakePc, serverVars, fileVars, wireVars, sessionVars
  <1>7. CASE SaveTrust(c)
    BY <1>7 DEF SaveTrust, TypeOK, HandshakePc, serverVars, fileVars, wireVars, sessionVars
  <1>8. CASE Respond(c)
    <2>1. up' \in [Conns -> Seq(Packet)]
      BY <1>8, ResponseSent, SendsUp
    <2> QED
      BY <1>8, <2>1 DEF Respond, TypeOK, HandshakePc, serverVars, fileVars, sessionVars
  <1>9. CASE Join(c)
    <2>1. link[c] \in Conns /\ down[link[c]] # << >>
          /\ offered[link[c]] \in Session
          /\ joined' = [joined EXCEPT ![link[c]] = offered[link[c]]]
      BY <1>9, SessionJoined
    <2>2. down' \in [Conns -> Seq(Packet)]
      BY <1>9, <2>1, TakesDown DEF Join
    <2>3. joined' \in [Conns -> Session \cup {NULL}]
      BY <2>1 DEF TypeOK
    <2> QED
      BY <1>9, <2>2, <2>3 DEF Join, TypeOK, HandshakePc, serverVars, fileVars
  <1> QED
    BY <1>1, <1>2, <1>3, <1>4, <1>5, <1>6, <1>7, <1>8, <1>9 DEF ClientActs

\* So does a host that loses its power.
LEMMA HostTypes ==
    ASSUME TypeOK, ClientHostDies \/ \E k \in Conns : NeverArrives(k)
    PROVE  TypeOK'
  <1>1. << >> \in Seq(Packet)
    OBVIOUS
  <1>2. CASE ClientHostDies
    BY <1>1, <1>2 DEF ClientHostDies, TypeOK, NoKey, serverVars, fileVars, sessionVars
  <1>3. ASSUME NEW k \in Conns, NeverArrives(k) PROVE TypeOK'
    BY <1>1, <1>3 DEF NeverArrives, TypeOK, serverVars, fileVars, clientVars, sessionVars
  <1> QED
    BY <1>2, <1>3

\* The packets a host without power had sent are lost or arrive.
LEMMA ArriveOrNot ==
    ASSUME TypeOK, NEW j \in Conns, NeverArrives(j), NEW k \in Conns
    PROVE  up'[k] \in {up[k], << >>} /\ down'[k] \in {down[k], << >>}
  BY DEF NeverArrives, TypeOK

------------------------------------------------------------------------------
(* What is on the wires and with the clients. *)

\* A step other than ServerChallenge makes no challenge (session.c:66).
LEMMA ChallengesKept ==
    ASSUME TypeOK, ServerProgress, LinksOwned, ResponsesHonest, ChallengeHeld, Next,
           ~ServerChallenge, NEW k \in Conns
    PROVE  Challenges(k)' \subseteq Challenges(k)
  <1> USE DEF serverVars, fileVars, clientVars, wireVars, sessionVars
  <1>1. SUFFICES ASSUME NEW r \in Challenges(k)'
                 PROVE  r \in Challenges(k)
    OBVIOUS
  <1>2. ASSUME UNCHANGED <<link, challenge>>,
               Payloads(down'[k], "auth_request") \subseteq Payloads(down[k], "auth_request")
        PROVE  r \in Challenges(k)
    BY <1>1, <1>2 DEF Challenges, Received
  <1>3. CASE StartServer \/ LoadIdentity \/ GenerateIdentity \/ TruncateIdentity \/ WriteIdentity
             \/ StartFails \/ ServerDies \/ WriteBack \/ PowerLoss \/ Accept \/ Drops
    <2>1. UNCHANGED <<link, challenge, down>>
      BY <1>3 DEF StartServer, LoadIdentity, GenerateIdentity, TruncateIdentity, WriteIdentity,
                  StartFails, ServerDies, WriteBack, PowerLoss, Accept, Drops, DropInHand
    <2> QED
      BY <1>2, <2>1
  <1>4. CASE ServerHello
    <2>1. UNCHANGED <<link, challenge>>
      BY <1>4 DEF ServerHello
    <2>2. Payloads(down'[k], "auth_request") \subseteq Payloads(down[k], "auth_request")
      BY <1>4, HelloSent, SendsDownOther
    <2> QED
      BY <1>2, <2>1, <2>2
  <1>5. CASE Establish
    <2>1. UNCHANGED <<link, challenge>>
      BY <1>5 DEF Establish
    <2>2. PICK m \in Packet : SendDown(cur, m) /\ m.type = "auth_success"
      BY <1>5, SessionEstablished
    <2>3. cur \in Conns
      BY <1>5, SessionEstablished
    <2>4. Payloads(down'[k], "auth_request") \subseteq Payloads(down[k], "auth_request")
      BY <2>2, <2>3, SendsDownOther
    <2> QED
      BY <1>2, <2>1, <2>4
  <1>6. ASSUME NEW c \in Clients, LoadTrust(c) \/ TruncateTrust(c) \/ SaveTrust(c) \/ Respond(c)
        PROVE  r \in Challenges(k)
    <2>1. UNCHANGED <<link, challenge, down>>
      BY <1>6 DEF LoadTrust, TruncateTrust, SaveTrust, Respond
    <2> QED
      BY <1>2, <2>1
  <1>7. ASSUME NEW c \in Clients, ReceiveHello(c) PROVE r \in Challenges(k)
    <2>1. link[c] \in Conns /\ down[link[c]] # << >>
      BY <1>7, Linked DEF ReceiveHello, HandshakePc, Arrived
    <2>2. down' = [down EXCEPT ![link[c]] = Tail(@)] /\ UNCHANGED <<link, challenge>>
      BY <1>7 DEF ReceiveHello
    <2> QED
      BY <1>2, <2>1, <2>2, TakesDown
  <1>8. ASSUME NEW c \in Clients, ReceiveChallenge(c) PROVE r \in Challenges(k)
    <2> DEFINE m == Head(down[link[c]]).body
    <2>1. /\ link[c] \in Conns /\ down[link[c]] # << >>
          /\ m \in Payloads(down[link[c]], "auth_request")
      BY <1>8, ChallengeReceived
    <2>2. /\ down' = [down EXCEPT ![link[c]] = Tail(@)] /\ link' = link
          /\ challenge' = [challenge EXCEPT ![c] = m]
      BY <1>8 DEF ReceiveChallenge
    <2>3. Payloads(down'[k], "auth_request") \subseteq Payloads(down[k], "auth_request")
      BY <2>1, <2>2, TakesDown
    <2>4. CASE r \in Payloads(down'[k], "auth_request")
      BY <2>3, <2>4 DEF Challenges
    <2>5. CASE r \in Received(k)'
      <3>1. PICK e \in Clients : link'[e] = k /\ r = challenge'[e] /\ r # NULL
        BY <2>5 DEF Received
      <3>2. CASE e = c
        BY <2>1, <2>2, <3>1, <3>2 DEF TypeOK, Challenges
      <3>3. CASE e # c
        BY <2>2, <3>1, <3>3 DEF TypeOK, Challenges, Received
      <3> QED
        BY <3>2, <3>3
    <2> QED
      BY <1>1, <2>4, <2>5 DEF Challenges
  <1>9. ASSUME Payloads(down'[k], "auth_request") \subseteq Payloads(down[k], "auth_request"),
               \A e \in Clients : challenge'[e] # NULL =>
                   challenge'[e] = challenge[e] /\ link'[e] = link[e]
        PROVE  r \in Challenges(k)
    BY <1>1, <1>9 DEF Challenges, Received
  <1>10. ASSUME NEW c \in Clients, Join(c) \/ Leaves(c) PROVE r \in Challenges(k)
    <2>1. /\ challenge' = [challenge EXCEPT ![c] = NULL]
          /\ link' \in {link, [link EXCEPT ![c] = NULL]}
      BY <1>10 DEF Join, Leaves, Refuse, ClientGone
    <2>2. \A e \in Clients : challenge'[e] # NULL =>
             challenge'[e] = challenge[e] /\ link'[e] = link[e]
      BY <2>1 DEF TypeOK
    <2>3. CASE Join(c)
      <3>1. link[c] \in Conns /\ down[link[c]] # << >>
        BY <2>3, Linked DEF Join, HandshakePc, ArrivedWhole, Arrived
      <3>2. down' = [down EXCEPT ![link[c]] = Tail(@)]
        BY <2>3 DEF Join
      <3> QED
        BY <1>9, <2>2, <3>1, <3>2, TakesDown
    <2>4. CASE Leaves(c)
      <3>1. CloseClientEnd(c)
        BY <2>4 DEF Leaves, Refuse, ClientGone
      <3> QED
        BY <1>9, <2>2, <3>1, ClientEndClosed
    <2> QED
      BY <1>10, <2>3, <2>4
  <1>11. ASSUME NEW c \in Clients, Connect(c) PROVE r \in Challenges(k)
    <2>1. /\ UNCHANGED <<challenge, down>> /\ link' = [link EXCEPT ![c] = opened']
          /\ challenge[c] = NULL
      BY <1>11 DEF Connect, LinksOwned, ChallengeHeld
    <2>2. Received(k)' \subseteq Received(k)
      <3>1. ASSUME NEW x \in Received(k)' PROVE x \in Received(k)
        <4>1. PICK e \in Clients : link'[e] = k /\ x = challenge'[e] /\ x # NULL
          BY <3>1 DEF Received
        <4>2. e # c
          BY <2>1, <4>1
        <4> QED
          BY <2>1, <4>1, <4>2 DEF TypeOK, Received
      <3> QED
        BY <3>1
    <2> QED
      BY <1>1, <2>1, <2>2 DEF Challenges
  <1>12. CASE ClientHostDies
    <2>1. Payloads(down'[k], "auth_request") = {} /\ \A e \in Clients : challenge'[e] = NULL
      BY <1>12, NoPayloads DEF ClientHostDies
    <2> QED
      BY <1>9, <2>1
  <1>13. ASSUME NEW j \in Conns, NeverArrives(j) PROVE r \in Challenges(k)
    <2>1. UNCHANGED <<link, challenge>> /\ down'[k] \in {down[k], << >>}
      BY <1>13, ArriveOrNot DEF NeverArrives
    <2> QED
      BY <1>2, <2>1, NoPayloads
  <1> QED
    BY <1>3, <1>4, <1>5, <1>6, <1>7, <1>8, <1>10, <1>11, <1>12, <1>13, Steps DEF ServerActs,
           ClientActs

\* ServerChallenge makes the one challenge of the connection served.
LEMMA ChallengeAdded ==
    ASSUME TypeOK, ServerProgress, ServerChallenge, NEW k \in Conns, NEW r \in Challenges(k)'
    PROVE  \/ r \in Challenges(k)
           \/ k = cur /\ r.eph = ServerEph(cur) /\ r.key = ident
  <1>1. UNCHANGED <<link, challenge>>
    BY DEF ServerChallenge, clientVars
  <1>2. CASE r \in Payloads(down'[k], "auth_request")
    <2>1. cur \in Conns
      BY ChallengeSent
    <2>2. PICK m \in Packet :
             /\ SendDown(cur, m) /\ m.type = "auth_request"
             /\ m.body # NULL => m.body.eph = ServerEph(cur) /\ m.body.key = ident
      BY ChallengeSent
    <2>3. /\ \A j \in Conns \ {cur} : down'[j] = down[j]
          /\ \A b \in Payloads(down'[cur], "auth_request") :
                b \in Payloads(down[cur], "auth_request") \/ (b = m.body /\ b # NULL)
      BY <2>1, <2>2, SendsDown
    <2>4. CASE k # cur
      BY <1>2, <2>3, <2>4 DEF Challenges
    <2>5. CASE k = cur
      BY <1>2, <2>2, <2>3, <2>5 DEF Challenges
    <2> QED
      BY <2>4, <2>5
  <1>3. CASE r \in Received(k)'
    BY <1>1, <1>3 DEF Received, Challenges
  <1> QED
    BY <1>2, <1>3 DEF Challenges

\* A step other than some client's Respond makes no response (session.c:270).
LEMMA ResponsesKept ==
    ASSUME TypeOK, LinksOwned, Next, \A c \in Clients : ~Respond(c), NEW k \in Conns
    PROVE  Payloads(up'[k], "auth_response") \subseteq Payloads(up[k], "auth_response")
  <1> USE DEF serverVars, fileVars, clientVars, wireVars, sessionVars
  <1>1. CASE UNCHANGED up
    BY <1>1
  <1>2. CASE StartFails \/ ServerDies \/ PowerLoss
    BY <1>2, ServerEndsClosed DEF StartFails, ServerDies, PowerLoss, ServerGone
  <1>3. CASE ServerHello \/ Establish
    <2>1. cur \in Conns /\ up[cur] # << >> /\ up' = [up EXCEPT ![cur] = Tail(@)]
      BY <1>3 DEF ServerHello, Establish, TypeOK, ServingPc, ArrivedWhole, Arrived
    <2> QED
      BY <2>1, TakesUp
  <1>4. CASE Drops
    <2>1. up'[k] \in {up[k], << >>}
      BY <1>4 DEF Drops, DropInHand, TypeOK
    <2> QED
      BY <2>1, NoPayloads
  <1>5. ASSUME NEW c \in Clients, LoadTrust(c)
        PROVE  Payloads(up'[k], "auth_response") \subseteq Payloads(up[k], "auth_response")
    <2>1. link[c] \in Conns /\ SendUp(link[c], Hello("client_hello"))
      BY <1>5, Linked DEF LoadTrust, HandshakePc
    <2>2. Hello("client_hello") \in Packet /\ Hello("client_hello").type = "client_hello"
      BY PacketShapes DEF Hello
    <2> QED
      BY <2>1, <2>2, SendsUp
  <1>6. \/ UNCHANGED up
        \/ StartFails \/ ServerDies \/ PowerLoss \/ ServerHello \/ Establish \/ Drops
        \/ \E c \in Clients : LoadTrust(c)
        \/ \E j \in Conns : NeverArrives(j)
    <2>1. StartServer \/ LoadIdentity \/ GenerateIdentity \/ TruncateIdentity \/ WriteIdentity
             \/ WriteBack \/ Accept \/ ServerChallenge => UNCHANGED up
      BY DEF StartServer, LoadIdentity, GenerateIdentity, TruncateIdentity, WriteIdentity,
             WriteBack, Accept, ServerChallenge
    <2>2. ASSUME NEW c \in Clients, ClientActs(c), ~LoadTrust(c), ~Respond(c)
          PROVE  UNCHANGED up
      BY <2>2 DEF ClientActs, ReceiveHello, ReceiveChallenge, TruncateTrust, SaveTrust, Join,
                  Leaves, Refuse, ClientGone, Connect
    <2>3. ClientHostDies => UNCHANGED up
      BY DEF ClientHostDies
    <2> QED
      BY <2>1, <2>2, <2>3, Steps DEF ServerActs
  <1>7. ASSUME NEW j \in Conns, NeverArrives(j)
        PROVE  Payloads(up'[k], "auth_response") \subseteq Payloads(up[k], "auth_response")
    <2>1. up'[k] \in {up[k], << >>}
      BY <1>7, ArriveOrNot
    <2> QED
      BY <2>1, NoPayloads
  <1> QED
    BY <1>1, <1>2, <1>3, <1>4, <1>5, <1>6, <1>7

\* A step other than Establish makes no AUTH_SUCCESS (session.c:160).
LEMMA SuccessesKept ==
    ASSUME TypeOK, ServerProgress, LinksOwned, Next, ~Establish, NEW k \in Conns
    PROVE  Payloads(down'[k], "auth_success") \subseteq Payloads(down[k], "auth_success")
  <1> USE DEF serverVars, fileVars, clientVars, wireVars, sessionVars
  <1>1. CASE UNCHANGED down
    <2>1. down'[k] = down[k]
      BY <1>1
    <2> QED
      BY <2>1, Zenon
  <1>2. CASE ServerHello
    BY <1>2, HelloSent, SendsDownOther
  <1>3. CASE ServerChallenge
    <2>1. cur \in Conns
      BY <1>3, ChallengeSent
    <2>2. PICK m \in Packet : SendDown(cur, m) /\ m.type = "auth_request"
      BY <1>3, ChallengeSent
    <2> QED
      BY <2>1, <2>2, SendsDownOther
  <1>4. ASSUME NEW c \in Clients, ReceiveHello(c) \/ ReceiveChallenge(c) \/ Join(c)
        PROVE  Payloads(down'[k], "auth_success") \subseteq Payloads(down[k], "auth_success")
    <2>1. link[c] \in Conns /\ down[link[c]] # << >>
      BY <1>4, Linked DEF ReceiveHello, ReceiveChallenge, Join, HandshakePc, ArrivedWhole,
             Arrived
    <2>2. down' = [down EXCEPT ![link[c]] = Tail(@)]
      BY <1>4 DEF ReceiveHello, ReceiveChallenge, Join
    <2> QED
      BY <2>1, <2>2, TakesDown
  <1>5. ASSUME NEW c \in Clients, CloseClientEnd(c)
        PROVE  Payloads(down'[k], "auth_success") \subseteq Payloads(down[k], "auth_success")
    BY <1>5, ClientEndClosed
  <1>6. \/ UNCHANGED down
        \/ ServerHello \/ ServerChallenge
        \/ \E c \in Clients : ReceiveHello(c) \/ ReceiveChallenge(c) \/ Join(c)
        \/ \E c \in Clients : CloseClientEnd(c)
        \/ ClientHostDies \/ \E j \in Conns : NeverArrives(j)
    <2>1. StartServer \/ LoadIdentity \/ GenerateIdentity \/ TruncateIdentity \/ WriteIdentity
             \/ StartFails \/ ServerDies \/ WriteBack \/ PowerLoss \/ Accept \/ Drops
          => UNCHANGED down
      BY DEF StartServer, LoadIdentity, GenerateIdentity, TruncateIdentity, WriteIdentity,
             StartFails, ServerDies, WriteBack, PowerLoss, Accept, Drops, DropInHand
    <2>2. ASSUME NEW c \in Clients,
                 Connect(c) \/ LoadTrust(c) \/ TruncateTrust(c) \/ SaveTrust(c) \/ Respond(c)
          PROVE  UNCHANGED down
      BY <2>2 DEF Connect, LoadTrust, TruncateTrust, SaveTrust, Respond
    <2>3. ASSUME NEW c \in Clients, Leaves(c)
          PROVE  CloseClientEnd(c)
      BY <2>3 DEF Leaves, Refuse, ClientGone
    <2> QED
      BY <2>1, <2>2, <2>3, Steps DEF ServerActs, ClientActs
  <1>7. CASE ClientHostDies
    BY <1>7, NoPayloads DEF ClientHostDies
  <1>8. ASSUME NEW j \in Conns, NeverArrives(j)
        PROVE  Payloads(down'[k], "auth_success") \subseteq Payloads(down[k], "auth_success")
    <2>1. down'[k] \in {down[k], << >>}
      BY <1>8, ArriveOrNot
    <2> QED
      BY <2>1, NoPayloads
  <1> QED
    BY <1>1, <1>2, <1>3, <1>4, <1>5, <1>6, <1>7, <1>8

------------------------------------------------------------------------------
(* Each part of the invariant. *)

\* What a step can do to the server's variables and to its ends.
LEMMA ProgressStep ==
    ASSUME BoundsAssumption, NullAssumption, TypeOK, ServerProgress, LinksOwned, Next
    PROVE  ServerProgress'
  <1> USE DEF serverVars, fileVars, clientVars, wireVars, sessionVars, NoKey
  <1>1. CASE StartServer \/ LoadIdentity \/ TruncateIdentity \/ WriteIdentity \/ WriteBack
    BY <1>1 DEF StartServer, LoadIdentity, TruncateIdentity, WriteIdentity, WriteBack,
                ServerProgress, ServingPc, TypeOK
  <1>2. CASE GenerateIdentity
    BY <1>2 DEF GenerateIdentity, ServerProgress, ServingPc, TypeOK
  <1>3. CASE StartFails \/ ServerDies \/ PowerLoss
    BY <1>3 DEF StartFails, ServerDies, PowerLoss, ServerGone, ServerProgress, ServingPc
  <1>4. CASE Accept
    BY <1>4 DEF Accept, ServerProgress, ServingPc, TypeOK
  <1>5. CASE ServerHello \/ ServerChallenge
    BY <1>5 DEF ServerHello, ServerChallenge, ServerProgress, ServingPc
  <1>6. CASE Establish \/ Drops
    BY <1>6 DEF Establish, Drops, DropInHand, ServerProgress, ServingPc
  <1>7. ASSUME NEW c \in Clients, ClientActs(c), ~Connect(c) PROVE ServerProgress'
    <2>1. UNCHANGED <<spc, ident, cur, file, serverEnd>>
      BY <1>7 DEF ClientActs, LoadTrust, ReceiveHello, ReceiveChallenge, TruncateTrust,
             SaveTrust, Respond, Join, Leaves, Refuse, ClientGone
    <2> QED
      BY <2>1 DEF ServerProgress
  <1>8. ASSUME NEW c \in Clients, Connect(c) PROVE ServerProgress'
    <2>1. /\ UNCHANGED <<spc, ident, cur, file>>
          /\ serverEnd' = [serverEnd EXCEPT ![opened + 1] = "backlog"]
      BY <1>8 DEF Connect
    <2>2. spc \in ServingPc => cur \in Conns /\ cur # opened + 1
      <3> SUFFICES ASSUME spc \in ServingPc PROVE cur \in Conns /\ cur # opened + 1
        OBVIOUS
      <3>1. cur \in Conns /\ serverEnd[cur] = "open"
        BY DEF TypeOK, ServerProgress
      <3>2. opened + 1 \in Conns => serverEnd[opened + 1] = "none"
        BY DEF TypeOK, LinksOwned
      <3> QED
        BY <3>1, <3>2
    <2> QED
      BY <2>1, <2>2 DEF ServerProgress, TypeOK
  <1>9. CASE ClientHostDies \/ \E k \in Conns : NeverArrives(k)
    BY <1>9 DEF ClientHostDies, NeverArrives, ServerProgress
  <1> QED
    BY <1>1, <1>2, <1>3, <1>4, <1>5, <1>6, <1>7, <1>8, <1>9, Steps DEF ServerActs

\* A client's connection is the one it had, none, or a new one.
LEMMA LinkSteps ==
    ASSUME TypeOK, Next, NEW c \in Clients
    PROVE  \/ link'[c] = link[c]
           \/ link'[c] = NULL
           \/ Connect(c) /\ link'[c] = opened + 1
  <1> USE DEF serverVars, fileVars, clientVars, wireVars, sessionVars
  <1>1. ASSUME NEW e \in Clients, Connect(e) \/ Leaves(e)
        PROVE  \/ link'[c] = link[c]
               \/ link'[c] = NULL
               \/ Connect(c) /\ link'[c] = opened + 1
    BY <1>1 DEF Connect, Leaves, Refuse, ClientGone, TypeOK
  <1>2. ServerActs \/ (\E k \in Conns : NeverArrives(k)) => UNCHANGED link
    BY DEF ServerActs, LoadIdentity, GenerateIdentity, TruncateIdentity, WriteIdentity,
           StartFails, Accept, ServerHello, ServerChallenge, Establish, Drops, DropInHand,
           StartServer, ServerDies, WriteBack, PowerLoss, NeverArrives
  <1>3. ASSUME NEW e \in Clients, ClientActs(e), ~Connect(e), ~Leaves(e) PROVE UNCHANGED link
    BY <1>3 DEF ClientActs, LoadTrust, ReceiveHello, ReceiveChallenge, TruncateTrust,
                SaveTrust, Respond, Join
  <1>4. ClientHostDies => link'[c] = NULL
    BY DEF ClientHostDies
  <1> QED
    BY <1>1, <1>2, <1>3, <1>4, Steps

\* An end that the server has accepted stays accepted or is closed, and only
\* Establish offers a session.
LEMMA EndsStep ==
    ASSUME TypeOK, ServerProgress, LinksOwned, Next, NEW k \in Conns
    PROVE  /\ serverEnd[k] \in {"open", "closed"} => serverEnd'[k] \in {"open", "closed"}
           /\ ~Establish => offered'[k] = offered[k]
  <1> USE DEF serverVars, fileVars, clientVars, wireVars, sessionVars
  <1>1. CASE UNCHANGED <<serverEnd, offered>>
    BY <1>1
  <1>2. CASE StartFails \/ ServerDies \/ PowerLoss
    BY <1>2 DEF StartFails, ServerDies, PowerLoss, ServerGone, CloseServerEnds, Served
  <1>3. CASE Accept \/ Drops \/ Establish
    BY <1>3 DEF Accept, Drops, DropInHand, Establish, TypeOK
  <1>4. ASSUME NEW c \in Clients, Connect(c)
        PROVE  /\ serverEnd[k] \in {"open", "closed"} => serverEnd'[k] \in {"open", "closed"}
               /\ offered'[k] = offered[k]
    <2>1. UNCHANGED offered /\ serverEnd' = [serverEnd EXCEPT ![opened + 1] = "backlog"]
      BY <1>4 DEF Connect
    <2>2. k = opened + 1 => serverEnd[k] = "none"
      BY DEF LinksOwned, TypeOK
    <2> QED
      BY <2>1, <2>2 DEF TypeOK
  <1>5. \/ UNCHANGED <<serverEnd, offered>>
        \/ StartFails \/ ServerDies \/ PowerLoss \/ Accept \/ Drops \/ Establish
        \/ \E c \in Clients : Connect(c)
    <2>1. StartServer \/ LoadIdentity \/ GenerateIdentity \/ TruncateIdentity \/ WriteIdentity
             \/ WriteBack \/ ServerHello \/ ServerChallenge => UNCHANGED <<serverEnd, offered>>
      BY DEF StartServer, LoadIdentity, GenerateIdentity, TruncateIdentity, WriteIdentity,
             WriteBack, ServerHello, ServerChallenge
    <2>2. ASSUME NEW c \in Clients, ClientActs(c), ~Connect(c)
          PROVE  UNCHANGED <<serverEnd, offered>>
      BY <2>2 DEF ClientActs, LoadTrust, ReceiveHello, ReceiveChallenge, TruncateTrust,
             SaveTrust, Respond, Join, Leaves, Refuse, ClientGone
    <2>3. ClientHostDies \/ (\E j \in Conns : NeverArrives(j)) => UNCHANGED <<serverEnd, offered>>
      BY DEF ClientHostDies, NeverArrives
    <2> QED
      BY <2>1, <2>2, <2>3, Steps DEF ServerActs
  <1> QED
    BY <1>1, <1>2, <1>3, <1>4, <1>5

\* Challenges name the identity of the server that made them.
LEMMA RequestsStep ==
    ASSUME NullAssumption, TypeOK, ServerProgress, LinksOwned, RequestsHonest,
           ResponsesHonest, OffersHonest, ChallengeHeld, Next
    PROVE  RequestsHonest'
  <1> USE DEF serverVars, fileVars, clientVars, wireVars, sessionVars
  <1> SUFFICES ASSUME NEW k \in Conns, NEW r \in Challenges(k)'
               PROVE  /\ r.eph = ServerEph(k)
                      /\ cur' = k => spc' = "response" /\ r.key = ident'
                      /\ offered'[k] # NULL => r.key = offered'[k].server
                      /\ serverEnd'[k] \notin {"none", "backlog"}
    BY DEF RequestsHonest
  <1>1. CASE ServerChallenge
    <2>1. /\ cur \in Conns /\ spc = "challenge" /\ spc' = "response"
          /\ UNCHANGED <<ident, cur, offered, serverEnd>>
      BY <1>1, ChallengeSent DEF ServerChallenge
    <2>2. cur = k => offered[k] = NULL /\ serverEnd[k] = "open" /\ r \notin Challenges(k)
      BY <2>1 DEF OffersHonest, ServerProgress, ServingPc, RequestsHonest
    <2>3. CASE r \in Challenges(k)
      BY <2>1, <2>2, <2>3 DEF RequestsHonest
    <2>4. CASE k = cur /\ r.eph = ServerEph(cur) /\ r.key = ident
      BY <2>1, <2>2, <2>4
    <2> QED
      BY <1>1, <2>3, <2>4, ChallengeAdded
  <1>2. CASE ~ServerChallenge
    <2>1. r \in Challenges(k)
      BY <1>2, ChallengesKept
    <2>2. /\ r.eph = ServerEph(k)
          /\ cur = k => spc = "response" /\ r.key = ident
          /\ offered[k] # NULL => r.key = offered[k].server
          /\ serverEnd[k] \in {"open", "closed"}
      BY <2>1 DEF RequestsHonest, TypeOK
    <2>3. serverEnd'[k] \in {"open", "closed"}
      BY <2>2, EndsStep
    <2>4. offered'[k] # NULL => r.key = offered'[k].server
      <3>1. CASE Establish
        <4>1. PICK s \in Session : offered' = [offered EXCEPT ![cur] = s] /\ s.server = ident
          BY <3>1, SessionEstablished
        <4> QED
          BY <2>2, <4>1 DEF TypeOK
      <3>2. CASE ~Establish
        BY <2>2, <3>2, EndsStep
      <3> QED
        BY <3>1, <3>2
    <2>5. cur' = k => spc' = "response" /\ r.key = ident'
      <3>1. CASE Accept
        <4>1. PICK j \in Conns : serverEnd[j] = "backlog" /\ cur' = j
          BY <3>1 DEF Accept
        <4> QED
          BY <2>2, <4>1
      <3>2. CASE StartFails \/ ServerDies \/ PowerLoss \/ Establish \/ Drops
        <4>1. cur' = NULL
          BY <3>2 DEF StartFails, ServerDies, PowerLoss, ServerGone, Establish, Drops,
                 DropInHand
        <4> QED
          BY <4>1, NullAssumption
      <3>3. CASE StartServer \/ LoadIdentity \/ GenerateIdentity \/ TruncateIdentity
                   \/ WriteIdentity \/ ServerHello
        <4>1. UNCHANGED cur /\ spc # "response"
          BY <3>3 DEF StartServer, LoadIdentity, GenerateIdentity, TruncateIdentity,
                      WriteIdentity, ServerHello
        <4> QED
          BY <2>2, <4>1
      <3>4. CASE UNCHANGED <<spc, ident, cur>>
        BY <2>2, <3>4
      <3>5. WriteBack => UNCHANGED <<spc, ident, cur>>
        BY DEF WriteBack
      <3>6. ASSUME NEW c \in Clients, ClientActs(c)
            PROVE  UNCHANGED <<spc, ident, cur>>
        BY <3>6 DEF ClientActs, LoadTrust, ReceiveHello, ReceiveChallenge, TruncateTrust,
                    SaveTrust, Respond, Join, Leaves, Refuse, ClientGone, Connect
      <3>7. ClientHostDies \/ (\E j \in Conns : NeverArrives(j)) => UNCHANGED <<spc, ident, cur>>
        BY DEF ClientHostDies, NeverArrives
      <3> QED
        BY <1>2, <3>1, <3>2, <3>3, <3>4, <3>5, <3>6, <3>7, Steps DEF ServerActs
    <2> QED
      BY <2>2, <2>3, <2>4, <2>5
  <1> QED
    BY <1>1, <1>2

\* Nothing has happened on a connection that does not exist yet.
LEMMA UnopenedStep ==
    ASSUME BoundsAssumption, NullAssumption, TypeOK, ServerProgress, LinksOwned,
           ResponsesHonest, ChallengeHeld, Next, NEW k \in Conns, k > opened'
    PROVE  /\ serverEnd'[k] = "none" /\ up'[k] = << >> /\ down'[k] = << >>
           /\ offered'[k] = NULL /\ joined'[k] = NULL
  <1> USE DEF serverVars, fileVars, clientVars, wireVars, sessionVars
  <1>1. opened' \in {opened, opened + 1}
    <2>1. ServerActs => UNCHANGED opened
      BY DEF ServerActs, LoadIdentity, GenerateIdentity, TruncateIdentity, WriteIdentity,
             StartFails, Accept, ServerHello, ServerChallenge, Establish, Drops, DropInHand,
             StartServer, ServerDies, WriteBack, PowerLoss
    <2>2. ASSUME NEW c \in Clients, ClientActs(c)
          PROVE  opened' \in {opened, opened + 1}
      BY <2>2 DEF ClientActs, LoadTrust, ReceiveHello, ReceiveChallenge, TruncateTrust,
             SaveTrust, Respond, Join, Leaves, Refuse, ClientGone, Connect
    <2>3. ClientHostDies \/ (\E j \in Conns : NeverArrives(j)) => UNCHANGED opened
      BY DEF ClientHostDies, NeverArrives
    <2> QED
      BY <2>1, <2>2, <2>3, Steps
  <1>2. k > opened
    BY <1>1 DEF TypeOK, Conns
  <1>3. /\ serverEnd[k] = "none" /\ up[k] = << >> /\ down[k] = << >>
        /\ offered[k] = NULL /\ joined[k] = NULL
    BY <1>2 DEF LinksOwned
  <1>4. spc \in ServingPc => cur \in Conns /\ cur # k
    BY <1>3 DEF TypeOK, ServerProgress
  <1>5. \A c \in Clients : cpc[c] \in HandshakePc => link[c] \in Conns /\ link[c] # k
    BY <1>2, Linked DEF LinksOwned, TypeOK, Conns
  <1>6. CASE StartServer \/ LoadIdentity \/ GenerateIdentity \/ TruncateIdentity \/ WriteIdentity
             \/ WriteBack
    BY <1>3, <1>6 DEF StartServer, LoadIdentity, GenerateIdentity, TruncateIdentity,
                      WriteIdentity, WriteBack
  <1>7. CASE StartFails \/ ServerDies \/ PowerLoss
    BY <1>3, <1>7 DEF StartFails, ServerDies, PowerLoss, ServerGone, CloseServerEnds, Served
  <1>8. CASE Accept
    BY <1>3, <1>8 DEF Accept, TypeOK
  <1>9. CASE ServerHello \/ ServerChallenge \/ Establish \/ Drops
    <2>1. cur \in Conns /\ cur # k
      BY <1>4, <1>9 DEF ServerHello, ServerChallenge, Establish, Drops, DropInHand, ServingPc
    <2>2. down'[k] = down[k]
      BY <1>9, <2>1, HelloSent, ChallengeSent, SessionEstablished, SendsDown DEF Drops,
             DropInHand
    <2> QED
      BY <1>3, <1>9, <2>1, <2>2
      DEF ServerHello, ServerChallenge, Establish, Drops, DropInHand, TypeOK
  <1>10. ASSUME NEW c \in Clients, ClientActs(c), ~Connect(c)
         PROVE  /\ serverEnd'[k] = "none" /\ up'[k] = << >> /\ down'[k] = << >>
                /\ offered'[k] = NULL /\ joined'[k] = NULL
    <2>1. CASE LoadTrust(c) \/ Respond(c)
      <3>1. link[c] \in Conns /\ link[c] # k
        BY <1>5, <2>1 DEF LoadTrust, Respond, HandshakePc
      <3>2. up'[k] = up[k]
        BY <2>1, <3>1, ResponseSent, SendsUp, PacketShapes DEF LoadTrust
      <3> QED
        BY <1>3, <2>1, <3>2 DEF LoadTrust, Respond
    <2>2. CASE ReceiveHello(c) \/ ReceiveChallenge(c) \/ Join(c)
      <3>1. link[c] \in Conns /\ link[c] # k
        BY <1>5, <2>2 DEF ReceiveHello, ReceiveChallenge, Join, HandshakePc
      <3> QED
        BY <1>3, <2>2, <3>1 DEF ReceiveHello, ReceiveChallenge, Join, TypeOK
    <2>3. CASE Leaves(c)
      BY <1>3, <2>3, ClientEndClosed DEF Leaves, Refuse, ClientGone
    <2>4. CASE TruncateTrust(c) \/ SaveTrust(c)
      BY <1>3, <2>4 DEF TruncateTrust, SaveTrust
    <2> QED
      BY <1>10, <2>1, <2>2, <2>3, <2>4 DEF ClientActs
  <1>11. ASSUME NEW c \in Clients, Connect(c)
         PROVE  /\ serverEnd'[k] = "none" /\ up'[k] = << >> /\ down'[k] = << >>
                /\ offered'[k] = NULL /\ joined'[k] = NULL
    BY <1>3, <1>11 DEF Connect, TypeOK, Conns
  <1>12. CASE ClientHostDies
    BY <1>3, <1>12 DEF ClientHostDies
  <1>13. ASSUME NEW j \in Conns, NeverArrives(j)
         PROVE  /\ serverEnd'[k] = "none" /\ up'[k] = << >> /\ down'[k] = << >>
                /\ offered'[k] = NULL /\ joined'[k] = NULL
    BY <1>3, <1>13, ArriveOrNot DEF NeverArrives
  <1> QED
    BY <1>6, <1>7, <1>8, <1>9, <1>10, <1>11, <1>12, <1>13, Steps DEF ServerActs

\* A connection keeps its one client (connection.c, client_listener).
LEMMA LinksStep ==
    ASSUME BoundsAssumption, NullAssumption, TypeOK, ServerProgress, LinksOwned,
           ResponsesHonest, ChallengeHeld, Next
    PROVE  LinksOwned'
  <1> USE DEF serverVars, fileVars, clientVars, wireVars, sessionVars
  <1>1. ASSUME NEW k \in Conns, k > opened'
        PROVE  /\ serverEnd'[k] = "none" /\ up'[k] = << >> /\ down'[k] = << >>
               /\ offered'[k] = NULL /\ joined'[k] = NULL
    BY <1>1, UnopenedStep
  <1>2. CASE ServerActs
    <2>1. UNCHANGED <<cpc, link, opened, joined>>
      BY <1>2 DEF ServerActs, LoadIdentity, GenerateIdentity, TruncateIdentity, WriteIdentity,
             StartFails, Accept, ServerHello, ServerChallenge, Establish, Drops, DropInHand,
             StartServer, ServerDies, WriteBack, PowerLoss
    <2> QED
      BY <1>1, <2>1 DEF LinksOwned
  <1>3. ASSUME NEW c \in Clients, ClientActs(c), ~Join(c), ~Leaves(c), ~Connect(c)
        PROVE  LinksOwned'
    <2>1. /\ UNCHANGED <<link, opened, joined>>
          /\ cpc[c] \in HandshakePc /\ \E q \in HandshakePc : cpc' = [cpc EXCEPT ![c] = q]
      BY <1>3 DEF ClientActs, LoadTrust, ReceiveHello, ReceiveChallenge, TruncateTrust,
                  SaveTrust, Respond, HandshakePc
    <2> QED
      BY <1>1, <2>1 DEF LinksOwned, TypeOK, HandshakePc
  <1>4. ASSUME NEW c \in Clients, Join(c) PROVE LinksOwned'
    <2>1. /\ UNCHANGED <<link, opened>> /\ cpc[c] \in HandshakePc
          /\ cpc' = [cpc EXCEPT ![c] = "established"]
          /\ \A k \in Conns \ {link[c]} : joined'[k] = joined[k]
      BY <1>4 DEF Join, HandshakePc, TypeOK
    <2>2. link[c] \in Conns /\ link[c] # NULL
      BY <2>1, Linked
    <2>3. \A e \in Clients : e # c /\ link[e] # NULL => link[e] \in Conns \ {link[c]}
      BY <2>2 DEF LinksOwned, TypeOK
    <2>4. \A e \in Clients : cpc'[e] = IF e = c THEN "established" ELSE cpc[e]
      BY <2>1 DEF TypeOK
    <2>5. \A e \in Clients : cpc'[e] \in HandshakePc => link'[e] # NULL /\ joined'[link'[e]] = NULL
      BY <2>1, <2>3, <2>4 DEF LinksOwned, HandshakePc
    <2>6. \A e \in Clients : cpc'[e] \in {"idle", "refused"} => link'[e] = NULL
      BY <2>1, <2>4 DEF LinksOwned
    <2> QED
      BY <1>1, <2>1, <2>5, <2>6 DEF LinksOwned
  <1>5. ASSUME NEW c \in Clients, Leaves(c) PROVE LinksOwned'
    <2>1. /\ UNCHANGED <<opened, joined>> /\ link' = [link EXCEPT ![c] = NULL]
          /\ \E q \in {"idle", "refused"} : cpc' = [cpc EXCEPT ![c] = q]
      BY <1>5 DEF Leaves, Refuse, ClientGone
    <2> QED
      BY <1>1, <2>1 DEF LinksOwned, TypeOK, HandshakePc
  <1>6. ASSUME NEW c \in Clients, Connect(c) PROVE LinksOwned'
    <2>1. /\ opened' = opened + 1 /\ joined' = joined /\ cpc' = [cpc EXCEPT ![c] = "load"]
          /\ link' = [link EXCEPT ![c] = opened + 1]
      BY <1>6 DEF Connect
    <2>2. opened \in Nat /\ opened + 1 \in Conns /\ joined[opened + 1] = NULL
      BY <1>6, BoundsAssumption DEF Connect, TypeOK, LinksOwned, Conns
    <2>3. \A e \in Clients : link'[e] = (IF e = c THEN opened + 1 ELSE link[e])
                             /\ cpc'[e] = (IF e = c THEN "load" ELSE cpc[e])
      BY <2>1 DEF TypeOK
    <2>4. opened + 1 # NULL
      BY <2>2, NullAssumption
    <2>5. \A e \in Clients : link[e] # NULL => link[e] \in Nat /\ link[e] <= opened
      BY DEF LinksOwned, TypeOK, Conns
    <2>6. \A e \in Clients : link'[e] # NULL => link'[e] <= opened'
      BY <2>1, <2>2, <2>3, <2>5
    <2>7. \A d, e \in Clients : link'[d] = link'[e] /\ link'[d] # NULL => d = e
      BY <2>2, <2>3, <2>4, <2>5 DEF LinksOwned
    <2>8. \A e \in Clients : cpc'[e] \in HandshakePc => link'[e] # NULL /\ joined'[link'[e]] = NULL
      BY <2>1, <2>2, <2>3, <2>4 DEF LinksOwned
    <2>9. \A e \in Clients : cpc'[e] \in {"idle", "refused"} => link'[e] = NULL
      BY <2>3 DEF LinksOwned
    <2> QED
      BY <1>1, <2>6, <2>7, <2>8, <2>9 DEF LinksOwned
  <1>7. CASE ClientHostDies
    BY <1>1, <1>7 DEF ClientHostDies, LinksOwned, HandshakePc
  <1>8. ASSUME NEW j \in Conns, NeverArrives(j) PROVE LinksOwned'
    <2>1. UNCHANGED <<cpc, link, opened, joined>>
      BY <1>8 DEF NeverArrives
    <2> QED
      BY <1>1, <2>1 DEF LinksOwned
  <1> QED
    BY <1>2, <1>3, <1>4, <1>5, <1>6, <1>7, <1>8, Steps DEF ClientActs

\* A response was made for the connection it is on, by its client.
LEMMA ResponsesStep ==
    ASSUME TypeOK, LinksOwned, ResponsesHonest, ChallengeHeld, Next
    PROVE  ResponsesHonest'
  <1> SUFFICES ASSUME NEW k \in Conns, NEW r \in Payloads(up[k], "auth_response")'
               PROVE  r.eph = ClientEph(k) /\ \A c \in Clients : link'[c] = k => r.key = c
    BY DEF ResponsesHonest
  <1>1. CASE \A c \in Clients : ~Respond(c)
    <2>1. r \in Payloads(up[k], "auth_response")
      BY <1>1, ResponsesKept
    <2>2. up[k] # << >>
      BY <2>1, NoPayloads
    <2>3. ASSUME NEW c \in Clients, link'[c] = k PROVE link[c] = k \/ link'[c] = NULL
      <3>1. k # opened + 1
        BY <2>2 DEF LinksOwned, TypeOK
      <3> QED
        BY <2>3, <3>1, LinkSteps
    <2>4. NULL \notin Conns
      BY NullAssumption
    <2> QED
      BY <2>1, <2>3, <2>4 DEF ResponsesHonest
  <1>2. ASSUME NEW c \in Clients, Respond(c)
        PROVE  r.eph = ClientEph(k) /\ \A e \in Clients : link'[e] = k => r.key = e
    <2>1. link' = link
      BY <1>2 DEF Respond
    <2>2. link[c] \in Conns /\ cpc[c] \in HandshakePc
      BY <1>2, ResponseSent DEF Respond, HandshakePc
    <2>3. link[c] # NULL
      BY <2>2, Linked
    <2>4. PICK m \in Packet : /\ SendUp(link[c], m)
                              /\ m.body # NULL => m.body.eph = ClientEph(link[c]) /\ m.body.key = c
      BY <1>2, ResponseSent
    <2>5. CASE r \in Payloads(up[k], "auth_response")
      BY <2>1, <2>5 DEF ResponsesHonest
    <2>6. CASE k = link[c] /\ r = m.body /\ r # NULL
      BY <2>1, <2>3, <2>4, <2>6 DEF LinksOwned
    <2>7. r \in Payloads(up[k], "auth_response") \/ (k = link[c] /\ r = m.body /\ r # NULL)
      BY <2>2, <2>4, SendsUp
    <2> QED
      BY <2>5, <2>6, <2>7
  <1> QED
    BY <1>1, <1>2

\* The server does not go back to a connection it has offered a session on.
LEMMA OffersStep ==
    ASSUME NullAssumption, TypeOK, ServerProgress, LinksOwned, ResponsesHonest, OffersHonest,
    Next
    PROVE  OffersHonest'
  <1> USE DEF serverVars, fileVars, clientVars, wireVars, sessionVars
  <1> SUFFICES ASSUME NEW k \in Conns, offered'[k] # NULL
               PROVE  /\ offered'[k].id = Id(k)
                      /\ offered'[k].up = <<"up", ServerEph(k), ClientEph(k)>>
                      /\ offered'[k].down = <<"down", ServerEph(k), ClientEph(k)>>
                      /\ \A c \in Clients : link'[c] = k => offered'[k].client = c
                      /\ cur' # k /\ serverEnd'[k] \notin {"none", "backlog"}
    BY DEF OffersHonest
  <1>1. NULL \notin Conns
    BY NullAssumption
  <1>2. ASSUME offered'[k] = offered[k]
        PROVE  /\ offered'[k].id = Id(k)
               /\ offered'[k].up = <<"up", ServerEph(k), ClientEph(k)>>
               /\ offered'[k].down = <<"down", ServerEph(k), ClientEph(k)>>
               /\ \A c \in Clients : link'[c] = k => offered'[k].client = c
               /\ cur' # k /\ serverEnd'[k] \notin {"none", "backlog"}
    <2>1. offered[k] # NULL
      BY <1>2
    <2>2. cur # k /\ serverEnd[k] \in {"open", "closed"}
      BY <2>1 DEF OffersHonest, TypeOK
    <2>3. serverEnd'[k] \in {"open", "closed"}
      BY <2>2, EndsStep
    <2>4. cur' # k
      <3>1. cur' \in {cur, NULL} \/ \E j \in Conns : serverEnd[j] = "backlog" /\ cur' = j
        <4>1. ServerActs
              => cur' \in {cur, NULL} \/ \E j \in Conns : serverEnd[j] = "backlog" /\ cur' = j
          BY DEF ServerActs, LoadIdentity, GenerateIdentity, TruncateIdentity, WriteIdentity,
             StartFails, Accept, ServerHello, ServerChallenge, Establish, Drops, DropInHand,
             StartServer, ServerDies, WriteBack, PowerLoss, ServerGone
        <4>2. ASSUME NEW c \in Clients, ClientActs(c)
              PROVE  cur' = cur
          BY <4>2 DEF ClientActs, LoadTrust, ReceiveHello, ReceiveChallenge, TruncateTrust,
                      SaveTrust, Respond, Join, Leaves, Refuse, ClientGone, Connect
        <4>3. ClientHostDies \/ (\E j \in Conns : NeverArrives(j)) => cur' = cur
          BY DEF ClientHostDies, NeverArrives
        <4> QED
          BY <4>1, <4>2, <4>3, Steps
      <3> QED
        BY <1>1, <2>2, <3>1
    <2>5. ASSUME NEW c \in Clients, link'[c] = k PROVE offered[k].client = c
      <3>1. k # opened + 1
        BY <2>1 DEF LinksOwned, TypeOK
      <3>2. link[c] = k
        BY <1>1, <2>5, <3>1, LinkSteps
      <3> QED
        BY <2>1, <3>2 DEF OffersHonest
    <2> QED
      BY <1>2, <2>1, <2>3, <2>4, <2>5 DEF OffersHonest
  <1>3. CASE ~Establish
    BY <1>2, <1>3, EndsStep
  <1>4. CASE Establish
    <2>1. PICK s \in Session :
             /\ offered' = [offered EXCEPT ![cur] = s]
             /\ s.id = Id(cur)
             /\ s.up = <<"up", ServerEph(cur), ClientEph(cur)>>
             /\ s.down = <<"down", ServerEph(cur), ClientEph(cur)>>
             /\ \A c \in Clients : link[c] = cur => s.client = c
      BY <1>4, SessionEstablished
    <2>2. cur \in Conns /\ cur' = NULL /\ UNCHANGED <<link, serverEnd>> /\ serverEnd[cur] = "open"
      BY <1>4, SessionEstablished DEF Establish, ServerProgress, ServingPc
    <2>3. CASE k = cur
      BY <1>1, <2>1, <2>2, <2>3 DEF TypeOK
    <2>4. CASE k # cur
      BY <1>2, <2>1, <2>4 DEF TypeOK
    <2> QED
      BY <2>3, <2>4
  <1> QED
    BY <1>3, <1>4

\* AUTH_SUCCESS follows the session (session.c:160).
LEMMA SuccessesStep ==
    ASSUME NullAssumption, TypeOK, ServerProgress, LinksOwned, ResponsesHonest, OffersHonest,
           SuccessesHonest, Next
    PROVE  SuccessesHonest'
  <1> SUFFICES ASSUME NEW k \in Conns, NEW r \in Payloads(down[k], "auth_success")'
               PROVE  r.id = Id(k) /\ offered'[k] # NULL
    BY DEF SuccessesHonest
  <1>1. CASE ~Establish
    BY <1>1, SuccessesKept, EndsStep DEF SuccessesHonest
  <1>2. CASE Establish
    <2>1. PICK s \in Session : offered' = [offered EXCEPT ![cur] = s]
      BY <1>2, SessionEstablished
    <2>2. cur \in Conns /\ s # NULL
      BY <1>2, SessionEstablished, NullAssumption
    <2>3. PICK m \in Packet : SendDown(cur, m) /\ (m.body # NULL => m.body.id = Id(cur))
      BY <1>2, SessionEstablished
    <2>4. CASE r \in Payloads(down[k], "auth_success")
      BY <2>1, <2>2, <2>4 DEF SuccessesHonest, TypeOK
    <2>5. CASE k = cur /\ r = m.body /\ r # NULL
      BY <2>1, <2>2, <2>3, <2>5 DEF TypeOK
    <2>6. r \in Payloads(down[k], "auth_success") \/ (k = cur /\ r = m.body /\ r # NULL)
      BY <2>2, <2>3, SendsDown
    <2> QED
      BY <2>4, <2>5, <2>6
  <1> QED
    BY <1>1, <1>2

\* A client keeps the challenge it answers, and the key it has taken for the
\* server's (session.c:218-230).
LEMMA ChallengeStep ==
    ASSUME NullAssumption, TypeOK, LinksOwned, ChallengeHeld, Next
    PROVE  ChallengeHeld'
  <1> USE DEF serverVars, fileVars, clientVars, wireVars, sessionVars
  <1>1. CASE ServerActs
    <2>1. UNCHANGED <<cpc, link, trusted, challenge>>
      BY <1>1 DEF ServerActs, LoadIdentity, GenerateIdentity, TruncateIdentity, WriteIdentity,
             StartFails, Accept, ServerHello, ServerChallenge, Establish, Drops, DropInHand,
             StartServer, ServerDies, WriteBack, PowerLoss
    <2> QED
      BY <2>1 DEF ChallengeHeld
  <1>2. ASSUME NEW c \in Clients, LoadTrust(c) PROVE ChallengeHeld'
    BY <1>2 DEF LoadTrust, ChallengeHeld, TypeOK
  <1>3. ASSUME NEW c \in Clients, ReceiveChallenge(c) PROVE ChallengeHeld'
    <2> DEFINE m == Head(down[link[c]]).body
    <2>1. m # NULL /\ link[c] \in Conns /\ link[c] # NULL
      BY <1>3, ChallengeReceived, Linked DEF ReceiveChallenge, HandshakePc
    <2>2. /\ link' = link /\ challenge' = [challenge EXCEPT ![c] = m]
          /\ trusted' = [trusted EXCEPT ![c] = m.key]
          /\ \E s \in {"trust", "respond"} : cpc' = [cpc EXCEPT ![c] = s]
      BY <1>3 DEF ReceiveChallenge
    <2> HIDE DEF m
    <2> QED
      BY <2>1, <2>2 DEF ChallengeHeld, TypeOK
  <1>4. ASSUME NEW c \in Clients, \/ ReceiveHello(c) \/ TruncateTrust(c)
                                  \/ SaveTrust(c) \/ Respond(c)
        PROVE  ChallengeHeld'
    <2>1. UNCHANGED <<link, trusted, challenge>>
      BY <1>4 DEF ReceiveHello, TruncateTrust, SaveTrust, Respond
    <2> DEFINE Goes(s) == /\ cpc' = [cpc EXCEPT ![c] = s]
                          /\ s \in {"trust", "save", "respond", "success"} =>
                                cpc[c] \in {"trust", "save", "respond", "success"}
                          /\ s \in {"load", "hello", "challenge"} => cpc[c] = "hello"
    <2>2. \E s : Goes(s)
      <3>1. CASE ReceiveHello(c)
        <4>1. Goes("challenge")
          BY <3>1 DEF ReceiveHello
        <4> QED
          BY <4>1
      <3>2. CASE TruncateTrust(c)
        <4>1. Goes("save") \/ Goes("respond")
          BY <3>2 DEF TruncateTrust
        <4> QED
          BY <4>1
      <3>3. CASE SaveTrust(c)
        <4>1. Goes("respond")
          BY <3>3 DEF SaveTrust
        <4> QED
          BY <4>1
      <3>4. CASE Respond(c)
        <4>1. Goes("success")
          BY <3>4 DEF Respond
        <4> QED
          BY <4>1
      <3> QED
        BY <1>4, <3>1, <3>2, <3>3, <3>4
    <2> QED
      BY <2>1, <2>2 DEF ChallengeHeld, TypeOK
  <1>5. ASSUME NEW c \in Clients, Join(c) \/ Leaves(c) PROVE ChallengeHeld'
    <2>1. /\ challenge' = [challenge EXCEPT ![c] = NULL]
          /\ \E q \in {"established", "idle", "refused"} : cpc' = [cpc EXCEPT ![c] = q]
          /\ \/ link' = link /\ trusted' = trusted
             \/ /\ link' = [link EXCEPT ![c] = NULL]
                /\ trusted' = [trusted EXCEPT ![c] = NoKey]
      BY <1>5 DEF Join, Leaves, Refuse, ClientGone
    <2> QED
      BY <2>1 DEF ChallengeHeld, TypeOK
  <1>6. ASSUME NEW c \in Clients, Connect(c) PROVE ChallengeHeld'
    <2>1. challenge[c] = NULL
      BY <1>6 DEF Connect, LinksOwned, ChallengeHeld
    <2> QED
      BY <1>6, <2>1 DEF Connect, ChallengeHeld, TypeOK
  <1>7. CASE ClientHostDies
    BY <1>7 DEF ClientHostDies, ChallengeHeld
  <1>8. ASSUME NEW j \in Conns, NeverArrives(j) PROVE ChallengeHeld'
    <2>1. UNCHANGED <<cpc, link, trusted, challenge>>
      BY <1>8 DEF NeverArrives
    <2> QED
      BY <2>1 DEF ChallengeHeld
  <1> QED
    BY <1>1, <1>2, <1>3, <1>4, <1>5, <1>6, <1>7, <1>8, Steps DEF ClientActs

\* The file changes only while it holds no key, or by a fault.
LEMMA FileStep ==
    ASSUME TypeOK, ServerProgress, Next, ~lost'
    PROVE  /\ ~lost
           /\ file' = file \/ (file = NoKey /\ spc = "write" /\ WriteIdentity)
  <1> USE DEF serverVars, fileVars, clientVars, wireVars, sessionVars
  <1>1. ServerActs
        => ~lost /\ (file' = file \/ (file = NoKey /\ spc = "write" /\ WriteIdentity))
    <2>1. WriteIdentity => file = NoKey
      BY DEF WriteIdentity, ServerProgress
    <2>2. PowerLoss => ~lost /\ file' = file
      BY DEF PowerLoss
    <2>3. WriteIdentity => ~lost /\ spc = "write"
      BY DEF WriteIdentity
    <2>4. TruncateIdentity => ~lost /\ file' = file
      BY DEF TruncateIdentity
    <2>5. LoadIdentity \/ GenerateIdentity \/ StartFails \/ Accept \/ ServerHello
             \/ ServerChallenge \/ Establish \/ Drops \/ StartServer \/ ServerDies
             \/ WriteBack => ~lost /\ file' = file
      BY DEF LoadIdentity, GenerateIdentity, StartFails, Accept, ServerHello, ServerChallenge,
             Establish, Drops, DropInHand, StartServer, ServerDies, WriteBack
    <2> QED
      BY <2>1, <2>2, <2>3, <2>4, <2>5 DEF ServerActs
  <1>2. ASSUME NEW c \in Clients, ClientActs(c)
        PROVE  ~lost /\ file' = file
    BY <1>2 DEF ClientActs, LoadTrust, ReceiveHello, ReceiveChallenge, TruncateTrust,
           SaveTrust, Respond, Join, Leaves, Refuse, ClientGone, Connect
  <1>3. ClientHostDies \/ (\E j \in Conns : NeverArrives(j)) => ~lost /\ file' = file
    BY DEF ClientHostDies, NeverArrives
  <1> QED
    BY <1>1, <1>2, <1>3, Steps

\* Every key shown is a key, so none is shown while the file holds none.
LEMMA ChallengeKeys ==
    ASSUME TypeOK, NEW k \in Conns, NEW r \in Challenges(k)
    PROVE  r \in Request /\ r.key \in Keys /\ r.key # NoKey
  <1>1. r \in Request
    BY PayloadTypes DEF Challenges, Received, TypeOK
  <1> QED
    BY <1>1 DEF Request, Keys, NoKey

\* The server is shown as what its file says (crypto.c:70-103, session.c:66).
LEMMA KeyStep ==
    ASSUME NullAssumption, TypeOK, ServerProgress, LinksOwned, ResponsesHonest, ChallengeHeld,
           OneKey, Next
    PROVE  OneKey'
  <1> USE DEF serverVars, fileVars, clientVars, wireVars, sessionVars
  <1> SUFFICES ASSUME ~lost'
               PROVE  /\ spc' \in {"accept"} \cup ServingPc => ident' = file'
                      /\ \A k \in Conns : \A r \in Challenges(k)' : r.key = file'
    BY DEF OneKey
  <1>1. ~lost /\ (file' = file \/ (file = NoKey /\ spc = "write" /\ WriteIdentity))
    BY FileStep
  <1>2. /\ spc \in {"accept"} \cup ServingPc => ident = file
        /\ \A k \in Conns : \A r \in Challenges(k) : r.key = file
    BY <1>1 DEF OneKey
  <1>3. \A k \in Conns : \A r \in Challenges(k) : r.key = file'
    BY <1>1, <1>2, ChallengeKeys
  <1>4. spc' \in {"accept"} \cup ServingPc => ident' = file'
    <2>1. CASE LoadIdentity \/ WriteIdentity
      BY <1>1, <2>1 DEF LoadIdentity, WriteIdentity, ServingPc
    <2>2. CASE StartServer \/ GenerateIdentity \/ TruncateIdentity \/ StartFails \/ ServerDies
               \/ PowerLoss
      BY <2>2 DEF StartServer, GenerateIdentity, TruncateIdentity, StartFails, ServerDies,
                  PowerLoss, ServerGone, ServingPc
    <2>3. CASE WriteBack \/ Accept \/ ServerHello \/ ServerChallenge \/ Establish \/ Drops
      <3>1. UNCHANGED <<ident, file>>
            /\ (spc' \in {"accept"} \cup ServingPc => spc \in {"accept"} \cup ServingPc)
        BY <2>3 DEF WriteBack, Accept, ServerHello, ServerChallenge, Establish, Drops,
               DropInHand,
                    ServingPc
      <3> QED
        BY <1>2, <3>1
    <2>4. ASSUME NEW c \in Clients, ClientActs(c)
          PROVE  spc' \in {"accept"} \cup ServingPc => ident' = file'
      <3>1. UNCHANGED <<spc, ident, file>>
        BY <2>4 DEF ClientActs, LoadTrust, ReceiveHello, ReceiveChallenge, TruncateTrust,
                    SaveTrust, Respond, Join, Leaves, Refuse, ClientGone, Connect
      <3> QED
        BY <1>2, <3>1
    <2>5. CASE ClientHostDies \/ \E j \in Conns : NeverArrives(j)
      <3>1. UNCHANGED <<spc, ident, file>>
        BY <2>5 DEF ClientHostDies, NeverArrives
      <3> QED
        BY <1>2, <3>1
    <2> QED
      BY <2>1, <2>2, <2>3, <2>4, <2>5, Steps DEF ServerActs
  <1>5. ASSUME NEW k \in Conns, NEW r \in Challenges(k)' PROVE r.key = file'
    <2>1. CASE ServerChallenge
      <3>1. ident = file /\ file' = file
        BY <1>2, <2>1 DEF ServerChallenge, ServingPc
      <3> QED
        BY <1>3, <2>1, <3>1, ChallengeAdded
    <2>2. CASE ~ServerChallenge
      BY <1>3, <2>2, ChallengesKept
    <2> QED
      BY <2>1, <2>2
  <1> QED
    BY <1>4, <1>5

\* What a home directory trusts is what the server's file says.
LEMMA TrustStep ==
    ASSUME TypeOK, ServerProgress, LinksOwned, OneKey, TrustIsCurrent, Next
    PROVE  TrustIsCurrent'
  <1> USE DEF serverVars, fileVars, clientVars, wireVars, sessionVars
  <1> SUFFICES ASSUME ~lost'
               PROVE  /\ trust' # NoKey => trust' = file'
                      /\ \A c \in Clients : trusted'[c] # NoKey => trusted'[c] = file'
    BY DEF TrustIsCurrent
  <1>1. ~lost /\ (file' = file \/ (file = NoKey /\ WriteIdentity))
    BY FileStep
  <1>2. /\ trust # NoKey => trust = file'
        /\ \A c \in Clients : trusted[c] # NoKey => trusted[c] = file'
    BY <1>1 DEF TrustIsCurrent
  <1>3. CASE UNCHANGED <<trust, trusted>>
    BY <1>2, <1>3
  <1>4. ASSUME NEW c \in Clients, LoadTrust(c) \/ Leaves(c)
        PROVE  /\ trust' # NoKey => trust' = file'
               /\ \A e \in Clients : trusted'[e] # NoKey => trusted'[e] = file'
    BY <1>2, <1>4 DEF LoadTrust, Leaves, Refuse, ClientGone, TypeOK
  <1>5. ASSUME NEW c \in Clients, TruncateTrust(c) \/ SaveTrust(c)
        PROVE  /\ trust' # NoKey => trust' = file'
               /\ \A e \in Clients : trusted'[e] # NoKey => trusted'[e] = file'
    BY <1>2, <1>5 DEF TruncateTrust, SaveTrust, TypeOK
  <1>6. ASSUME NEW c \in Clients, ReceiveChallenge(c)
        PROVE  /\ trust' # NoKey => trust' = file'
               /\ \A e \in Clients : trusted'[e] # NoKey => trusted'[e] = file'
    <2> DEFINE m == Head(down[link[c]]).body
    <2>1. m \in Payloads(down[link[c]], "auth_request") /\ link[c] \in Conns
      BY <1>6, ChallengeReceived
    <2>2. m.key = file
      BY <1>1, <2>1 DEF OneKey, Challenges
    <2>3. file' = file /\ trust' = trust /\ trusted' = [trusted EXCEPT ![c] = m.key]
      BY <1>6 DEF ReceiveChallenge
    <2> HIDE DEF m
    <2> QED
      BY <1>2, <2>2, <2>3 DEF TypeOK
  <1>7. \/ UNCHANGED <<trust, trusted>>
        \/ \E c \in Clients : \/ LoadTrust(c) \/ Leaves(c) \/ TruncateTrust(c)
                              \/ SaveTrust(c) \/ ReceiveChallenge(c)
        \/ ClientHostDies
    <2>1. ServerActs
          => UNCHANGED <<trust, trusted>>
      BY DEF ServerActs, LoadIdentity, GenerateIdentity, TruncateIdentity, WriteIdentity,
             StartFails, Accept, ServerHello, ServerChallenge, Establish, Drops, DropInHand,
             StartServer, ServerDies, WriteBack, PowerLoss
    <2>2. ASSUME NEW c \in Clients, Connect(c) \/ ReceiveHello(c) \/ Respond(c) \/ Join(c)
          PROVE  UNCHANGED <<trust, trusted>>
      BY <2>2 DEF Connect, ReceiveHello, Respond, Join
    <2>3. (\E j \in Conns : NeverArrives(j)) => UNCHANGED <<trust, trusted>>
      BY DEF NeverArrives
    <2> QED
      BY <2>1, <2>2, <2>3, Steps DEF ClientActs
  <1>8. CASE ClientHostDies
    BY <1>2, <1>8 DEF ClientHostDies
  <1> QED
    BY <1>3, <1>4, <1>5, <1>6, <1>7, <1>8

\* A client turns the server away only when it trusts another key (session.c:220).
LEMMA RefusedStep ==
    ASSUME TypeOK, ServerProgress, LinksOwned, OneKey, TrustIsCurrent, RefusedOnlyAfterLoss,
    Next
    PROVE  RefusedOnlyAfterLoss'
  <1> USE DEF serverVars, fileVars, clientVars, wireVars, sessionVars
  <1> SUFFICES ASSUME NEW c \in Clients, cpc'[c] = "refused", ~lost'
               PROVE  FALSE
    BY DEF RefusedOnlyAfterLoss, TypeOK
  <1>1. ~lost
    BY FileStep
  <1>2. cpc[c] # "refused"
    BY <1>1 DEF RefusedOnlyAfterLoss
  <1>3. ~Refuse(c)
    <2> SUFFICES ASSUME Refuse(c) PROVE FALSE
      OBVIOUS
    <2> DEFINE m == Head(down[link[c]]).body
    <2>1. m \in Payloads(down[link[c]], "auth_request") /\ link[c] \in Conns
      BY ChallengeReceived
    <2>2. m.key = file
      BY <1>1, <2>1 DEF OneKey, Challenges
    <2>3. trusted[c] # NoKey /\ trusted[c] # m.key
      BY DEF Refuse
    <2>4. trusted[c] = file
      BY <1>1, <2>3 DEF TrustIsCurrent
    <2> QED
      BY <2>2, <2>3, <2>4
  <1>4. ServerActs => cpc' = cpc
    BY DEF ServerActs, LoadIdentity, GenerateIdentity, TruncateIdentity, WriteIdentity,
           StartFails, Accept, ServerHello, ServerChallenge, Establish, Drops, DropInHand,
           StartServer, ServerDies, WriteBack, PowerLoss
  <1>5. ASSUME NEW e \in Clients, ClientActs(e) PROVE e = c => Refuse(c)
    BY <1>2, <1>5 DEF ClientActs, LoadTrust, ReceiveHello, ReceiveChallenge, TruncateTrust,
                SaveTrust, Respond, Join, Leaves, ClientGone, Connect, TypeOK
  <1>6. ASSUME NEW e \in Clients, ClientActs(e), e # c PROVE cpc'[c] = cpc[c]
    BY <1>6 DEF ClientActs, LoadTrust, ReceiveHello, ReceiveChallenge, TruncateTrust,
                SaveTrust, Respond, Join, Leaves, Refuse, ClientGone, Connect, TypeOK
  <1>7. ClientHostDies => cpc'[c] = "idle"
    BY DEF ClientHostDies
  <1>8. (\E j \in Conns : NeverArrives(j)) => cpc' = cpc
    BY DEF NeverArrives
  <1> QED
    BY <1>2, <1>3, <1>4, <1>5, <1>6, <1>7, <1>8, Steps

\* An end goes without a word only where the other one stays (packet.c:159).
LEMMA SilentStep ==
    ASSUME BoundsAssumption, NullAssumption, TypeOK, ServerProgress, LinksOwned, SilentEnds,
    Next
    PROVE  SilentEnds'
  <1> USE DEF serverVars, fileVars, clientVars, wireVars, sessionVars, Served
  <1>1. CASE UNCHANGED <<clientEnd, serverEnd, silent>>
    BY <1>1 DEF SilentEnds
  <1>2. CASE StartFails \/ ServerDies \/ PowerLoss
    BY <1>2 DEF StartFails, ServerDies, PowerLoss, ServerGone, CloseServerEnds, SilentEnds,
           TypeOK
  <1>3. CASE Accept
    BY <1>3 DEF Accept, SilentEnds, TypeOK
  <1>4. CASE Drops
    <2>1. cur \in Conns
      BY <1>4 DEF Drops, TypeOK
    <2> QED
      BY <1>4, <2>1 DEF Drops, DropInHand, SilentEnds, TypeOK
  <1>5. ASSUME NEW c \in Clients, Leaves(c) PROVE SilentEnds'
    <2>1. CloseClientEnd(c) /\ UNCHANGED serverEnd
      BY <1>5 DEF Leaves, Refuse, ClientGone
    <2> QED
      BY <2>1 DEF CloseClientEnd, SilentEnds, TypeOK
  <1>6. ASSUME NEW c \in Clients, Connect(c) PROVE SilentEnds'
    <2>1. opened + 1 \in Conns /\ serverEnd[opened + 1] = "none"
      BY <1>6, BoundsAssumption DEF Connect, TypeOK, LinksOwned, Conns
    <2>2. opened + 1 \notin silent
      BY <2>1 DEF SilentEnds
    <2> QED
      BY <1>6, <2>1, <2>2 DEF Connect, SilentEnds, TypeOK
  <1>7. CASE ClientHostDies
    BY <1>7 DEF ClientHostDies, SilentEnds
  <1>8. \/ UNCHANGED <<clientEnd, serverEnd, silent>>
        \/ StartFails \/ ServerDies \/ PowerLoss \/ Accept \/ Drops \/ ClientHostDies
        \/ \E c \in Clients : Leaves(c) \/ Connect(c)
    <2>1. LoadIdentity \/ GenerateIdentity \/ TruncateIdentity \/ WriteIdentity \/ StartServer
             \/ WriteBack \/ ServerHello \/ ServerChallenge \/ Establish
          => UNCHANGED <<clientEnd, serverEnd, silent>>
      BY DEF LoadIdentity, GenerateIdentity, TruncateIdentity, WriteIdentity, StartServer,
             WriteBack, ServerHello, ServerChallenge, Establish
    <2>2. ASSUME NEW c \in Clients, ClientActs(c), ~Leaves(c), ~Connect(c)
          PROVE  UNCHANGED <<clientEnd, serverEnd, silent>>
      BY <2>2 DEF ClientActs, LoadTrust, ReceiveHello, ReceiveChallenge, TruncateTrust,
                  SaveTrust, Respond, Join
    <2>3. (\E j \in Conns : NeverArrives(j)) => UNCHANGED <<clientEnd, serverEnd, silent>>
      BY DEF NeverArrives
    <2> QED
      BY <2>1, <2>2, <2>3, Steps DEF ServerActs
  <1> QED
    BY <1>1, <1>2, <1>3, <1>4, <1>5, <1>6, <1>7, <1>8

------------------------------------------------------------------------------
(* The two ends of a connection are in step. *)

\* A packet sent is one more on the way, and of the type that comes next.
LEMMA SentInOrder ==
    ASSUME NEW q \in Seq(Packet), NEW m \in Packet, NEW types, NEW taken \in Nat,
           NEW sent \in Nat, Carries(q, types, taken, sent), m.type = types[sent + 1]
    PROVE  Carries(Append(q, m), types, taken, sent + 1)
  <1> DEFINE r == Append(q, m)
  <1>1. /\ Len(q) = sent - taken /\ Len(q) \in Nat
        /\ \A i \in 1..Len(q) : q[i].type = types[taken + i]
    BY DEF Carries
  <1>2. /\ Len(r) = Len(q) + 1 /\ DOMAIN r = 1..Len(q) + 1
        /\ r[Len(q) + 1] = m
        /\ \A i \in 1..Len(q) : r[i] = q[i]
    OBVIOUS
  <1> HIDE DEF r
  <1>3. ASSUME NEW i \in 1..Len(q) + 1 PROVE r[i].type = types[taken + i]
    <2>1. CASE i = Len(q) + 1
      <3>1. taken + i = sent + 1
        BY <1>1, <2>1
      <3> QED
        BY <1>2, <2>1, <3>1
    <2>2. CASE i # Len(q) + 1
      <3>1. i \in 1..Len(q)
        BY <1>1, <2>2
      <3> QED
        BY <1>1, <1>2, <3>1
    <2> QED
      BY <2>1, <2>2
  <1>4. Len(r) = (sent + 1) - taken
    BY <1>1, <1>2
  <1> QED
    BY <1>2, <1>3, <1>4 DEF Carries, r

\* The packet taken is the one that has waited longest.
LEMMA TakenInOrder ==
    ASSUME NEW q \in Seq(Packet), NEW types, NEW taken \in Nat, NEW sent \in Nat,
           Carries(q, types, taken, sent), q # << >>
    PROVE  /\ Carries(Tail(q), types, taken + 1, sent)
           /\ Head(q).type = types[taken + 1]
           /\ taken < sent
  <1>1. /\ Len(q) = sent - taken /\ Len(q) \in Nat /\ Len(q) >= 1
        /\ \A i \in 1..Len(q) : q[i].type = types[taken + i]
    BY DEF Carries
  <1>2. /\ Len(Tail(q)) = Len(q) - 1 /\ DOMAIN Tail(q) = 1..Len(q) - 1
        /\ \A i \in 1..Len(q) - 1 : Tail(q)[i] = q[i + 1]
        /\ Head(q) = q[1]
    OBVIOUS
  <1>3. ASSUME NEW i \in 1..Len(q) - 1 PROVE Tail(q)[i].type = types[(taken + 1) + i]
    <2>1. i + 1 \in 1..Len(q) /\ taken + (i + 1) = (taken + 1) + i
      BY <1>1
    <2> QED
      BY <1>1, <1>2, <2>1
  <1>4. Len(Tail(q)) = sent - (taken + 1)
    BY <1>1, <1>2
  <1>5. 1 \in 1..Len(q) /\ taken < sent
    BY <1>1
  <1> QED
    BY <1>1, <1>2, <1>3, <1>4, <1>5 DEF Carries

\* Steps elsewhere leave a connection's two ends in step.
LEMMA InStepElsewhere ==
    ASSUME NEW c \in Clients, NEW k, k = link[c], InStep(c),
           cpc'[c] = cpc[c], link'[c] = k, clientEnd'[k] = clientEnd[k],
           serverEnd'[k] = serverEnd[k], offered'[k] = offered[k],
           up'[k] = up[k], down'[k] = down[k],
           UNCHANGED <<cur, spc>> \/ (cur # k /\ cur' # k)
    PROVE  InStep(c)'
  <1>1. /\ ServerTaken(k)' = ServerTaken(k) /\ ServerSent(k)' = ServerSent(k)
        /\ ClientTaken(c)' = ClientTaken(c) /\ ClientSent(c)' = ClientSent(c)
    BY DEF ServerTaken, ServerSent, ClientTaken, ClientSent
  <1>2. Carries(up[k], UpTypes, ServerTaken(k), ClientSent(c))'
    BY <1>1 DEF InStep, Carries, UpTypes
  <1>3. Carries(down[k], DownTypes, ClientTaken(c), ServerSent(k))'
    BY <1>1 DEF InStep, Carries, DownTypes
  <1>4. /\ clientEnd'[k] = c
        /\ serverEnd'[k] = "backlog" \/ (serverEnd'[k] = "open" /\ (cur' = k \/ offered'[k] # NULL))
    BY DEF InStep
  <1> QED
    BY <1>2, <1>3, <1>4 DEF InStep

\* What the server takes and sends at a connection keeps it in step with the
\* connection's client (session.c:116, 90, 374, 160).
LEMMA ServerMovesOn ==
    ASSUME NullAssumption, TypeOK, ServerProgress, OffersHonest, ResponsesHonest,
           NEW c \in Clients, cpc[c] \in HandshakePc, NEW k \in Conns, k = link[c],
           InStep(c), cur = k, ServerHello \/ ServerChallenge \/ Establish
    PROVE  InStep(c)'
  <1> USE DEF clientVars
  <1> DEFINE got == ClientTaken(c)
             put == ClientSent(c)
  <1>1. /\ spc \in ServingPc /\ serverEnd[k] = "open" /\ offered[k] = NULL
        /\ clientEnd[k] = c /\ c # NULL
        /\ up[k] \in Seq(Packet) /\ down[k] \in Seq(Packet) /\ k # NULL
    BY NullAssumption DEF ServerHello, ServerChallenge, Establish, ServingPc, ServerProgress,
                          OffersHonest, InStep, TypeOK
  <1>2. /\ Carries(up[k], UpTypes, ServerTaken(k), put)
        /\ Carries(down[k], DownTypes, got, ServerSent(k))
    BY DEF InStep
  <1>3. got \in Nat /\ put \in Nat /\ got' = got /\ put' = put
    BY DEF ClientTaken, ClientSent, ServerHello, ServerChallenge, Establish
  <1>4. UNCHANGED <<link, clientEnd, serverEnd>>
    BY DEF ServerHello, ServerChallenge, Establish
  <1> HIDE DEF got, put
  <1>5. ASSUME NEW m \in Packet, SendDown(k, m) PROVE down'[k] = Append(down[k], m)
    BY <1>1, <1>5 DEF SendDown, TypeOK
  <1>6. SUFFICES /\ Carries(up'[k], UpTypes, ServerTaken(k)', put)
                 /\ Carries(down'[k], DownTypes, got, ServerSent(k)')
                 /\ cur' = k \/ offered'[k] # NULL
    BY <1>1, <1>3, <1>4 DEF InStep, got, put, Carries
  <1>7. CASE ServerHello
    <2> DEFINE m == Hello("server_hello")
    <2>1. /\ spc = "hello" /\ spc' = "challenge" /\ UNCHANGED <<cur, offered>>
          /\ up' = [up EXCEPT ![k] = Tail(@)] /\ up[k] # << >>
          /\ m \in Packet /\ m.type = "server_hello" /\ SendDown(k, m)
      BY <1>7, HelloSent DEF ServerHello, sessionVars
    <2> HIDE DEF m
    <2>2. /\ ServerTaken(k) = 0 /\ ServerSent(k) = 0
          /\ ServerTaken(k)' = 0 + 1 /\ ServerSent(k)' = 0 + 1
      BY <1>1, <2>1 DEF ServerTaken, ServerSent
    <2>3. up'[k] = Tail(up[k]) /\ down'[k] = Append(down[k], m)
      BY <1>5, <2>1 DEF TypeOK
    <2>4. Carries(Tail(up[k]), UpTypes, 0 + 1, put)
      BY <1>1, <1>2, <1>3, <2>1, <2>2, TakenInOrder
    <2>5. m.type = DownTypes[0 + 1]
      BY <2>1 DEF DownTypes
    <2>6. Carries(Append(down[k], m), DownTypes, got, 0 + 1)
      BY <1>1, <1>2, <1>3, <2>1, <2>2, <2>5, SentInOrder
    <2> QED
      BY <2>1, <2>2, <2>3, <2>4, <2>6
  <1>8. CASE ServerChallenge
    <2>1. /\ spc = "challenge" /\ spc' = "response" /\ UNCHANGED <<cur, offered, up>>
      BY <1>8 DEF ServerChallenge, sessionVars
    <2>2. PICK m \in Packet : m.type = "auth_request" /\ SendDown(k, m)
      BY <1>8, ChallengeSent
    <2>3. /\ ServerTaken(k) = 1 /\ ServerSent(k) = 1
          /\ ServerTaken(k)' = 1 /\ ServerSent(k)' = 1 + 1
      BY <1>1, <2>1 DEF ServerTaken, ServerSent
    <2>4. m.type = DownTypes[1 + 1]
      BY <2>2 DEF DownTypes
    <2>5. Carries(Append(down[k], m), DownTypes, got, 1 + 1)
      BY <1>1, <1>2, <1>3, <2>2, <2>3, <2>4, SentInOrder
    <2> QED
      BY <1>2, <1>5, <2>1, <2>2, <2>3, <2>5
  <1>9. CASE Establish
    <2>1. /\ spc = "response" /\ up' = [up EXCEPT ![k] = Tail(@)] /\ up[k] # << >>
      BY <1>9 DEF Establish, ArrivedWhole, Arrived
    <2>2. PICK x \in Session : offered' = [offered EXCEPT ![k] = x]
      BY <1>9, SessionEstablished
    <2>3. PICK m \in Packet : m.type = "auth_success" /\ SendDown(k, m)
      BY <1>9, SessionEstablished
    <2>4. offered'[k] # NULL
      BY <2>2, NullAssumption DEF TypeOK
    <2>5. /\ ServerTaken(k) = 1 /\ ServerSent(k) = 2
          /\ ServerTaken(k)' = 1 + 1 /\ ServerSent(k)' = 2 + 1
      BY <1>1, <2>1, <2>4 DEF ServerTaken, ServerSent
    <2>6. up'[k] = Tail(up[k]) /\ down'[k] = Append(down[k], m)
      BY <1>5, <2>1, <2>3 DEF TypeOK
    <2>7. Carries(Tail(up[k]), UpTypes, 1 + 1, put)
      BY <1>1, <1>2, <1>3, <2>1, <2>5, TakenInOrder
    <2>8. m.type = DownTypes[2 + 1]
      BY <2>3 DEF DownTypes
    <2>9. Carries(Append(down[k], m), DownTypes, got, 2 + 1)
      BY <1>1, <1>2, <1>3, <2>3, <2>5, <2>8, SentInOrder
    <2> QED
      BY <2>4, <2>5, <2>6, <2>7, <2>9
  <1> QED
    BY <1>7, <1>8, <1>9

\* So does what a client takes and sends (session.c:331, 348, 199, 270).
LEMMA ClientMovesOn ==
    ASSUME NullAssumption, TypeOK, LinksOwned, ChallengeHeld, NEW c \in Clients,
           cpc[c] \in HandshakePc, NEW k \in Conns, k = link[c], InStep(c),
           ClientActs(c), cpc'[c] \in HandshakePc
    PROVE  InStep(c)'
  <1> USE DEF serverVars, sessionVars
  <1> DEFINE got == ServerTaken(k)
             put == ServerSent(k)
  <1>1. /\ LoadTrust(c) \/ ReceiveHello(c) \/ ReceiveChallenge(c)
              \/ TruncateTrust(c) \/ SaveTrust(c) \/ Respond(c)
    BY DEF ClientActs, Leaves, Refuse, ClientGone, Join, Connect, HandshakePc, TypeOK
  <1>2. /\ UNCHANGED <<spc, cur, offered, link, clientEnd, serverEnd>>
        /\ up[k] \in Seq(Packet) /\ down[k] \in Seq(Packet) /\ Served(k)
    BY <1>1 DEF LoadTrust, ReceiveHello, ReceiveChallenge, TruncateTrust, SaveTrust, Respond,
                wireVars, InStep, Served, TypeOK
  <1>3. /\ Carries(up[k], UpTypes, got, ClientSent(c))
        /\ Carries(down[k], DownTypes, ClientTaken(c), put)
    BY DEF InStep
  <1>4. got \in Nat /\ put \in Nat /\ got' = got /\ put' = put
    BY <1>2 DEF ServerTaken, ServerSent
  <1> HIDE DEF got, put
  <1>5. SUFFICES /\ Carries(up'[k], UpTypes, got, ClientSent(c)')
                 /\ Carries(down'[k], DownTypes, ClientTaken(c)', put)
    BY <1>2, <1>4 DEF InStep, got, put, Carries
  <1>6. ASSUME NEW m \in Packet, SendUp(k, m) PROVE up'[k] = Append(up[k], m)
    BY <1>2, <1>6 DEF SendUp, TypeOK
  <1>7. CASE LoadTrust(c)
    <2> DEFINE m == Hello("client_hello")
    <2>1. /\ cpc[c] = "load" /\ cpc'[c] = "hello" /\ UNCHANGED down /\ SendUp(k, m)
      BY <1>7 DEF LoadTrust, TypeOK
    <2>2. m \in Packet /\ m.type = "client_hello"
      BY PacketShapes DEF Hello
    <2> HIDE DEF m
    <2>3. /\ ClientSent(c) = 0 /\ ClientSent(c)' = 0 + 1
          /\ ClientTaken(c) = 0 /\ ClientTaken(c)' = 0
      BY <2>1 DEF ClientSent, ClientTaken
    <2>4. m.type = UpTypes[0 + 1]
      BY <2>2 DEF UpTypes
    <2>5. Carries(Append(up[k], m), UpTypes, got, 0 + 1)
      BY <1>2, <1>3, <1>4, <2>2, <2>3, <2>4, SentInOrder
    <2> QED
      BY <1>3, <1>6, <2>1, <2>2, <2>3, <2>5
  <1>8. CASE ReceiveHello(c)
    <2>1. /\ cpc[c] = "hello" /\ cpc'[c] = "challenge" /\ UNCHANGED up /\ down[k] # << >>
          /\ down'[k] = Tail(down[k])
      BY <1>8 DEF ReceiveHello, Arrived, TypeOK
    <2>2. /\ ClientSent(c) = 1 /\ ClientSent(c)' = 1
          /\ ClientTaken(c) = 0 /\ ClientTaken(c)' = 0 + 1
      BY <2>1 DEF ClientSent, ClientTaken
    <2>3. Carries(down[k], DownTypes, 0, put)
      BY <1>3, <2>2
    <2>4. Carries(Tail(down[k]), DownTypes, 0 + 1, put)
      BY <1>2, <1>4, <2>1, <2>3, TakenInOrder
    <2> QED
      BY <1>3, <2>1, <2>2, <2>4
  <1>9. CASE ReceiveChallenge(c)
    <2>1. /\ cpc[c] = "challenge" /\ cpc'[c] \in {"trust", "respond"} /\ UNCHANGED up
          /\ down[k] # << >> /\ down'[k] = Tail(down[k])
      BY <1>9 DEF ReceiveChallenge, ArrivedWhole, Arrived, TypeOK
    <2>2. /\ ClientSent(c) = 1 /\ ClientSent(c)' = 1
          /\ ClientTaken(c) = 1 /\ ClientTaken(c)' = 1 + 1
      BY <2>1 DEF ClientSent, ClientTaken
    <2>3. Carries(down[k], DownTypes, 1, put)
      BY <1>3, <2>2
    <2>4. Carries(Tail(down[k]), DownTypes, 1 + 1, put)
      BY <1>2, <1>4, <2>1, <2>3, TakenInOrder
    <2> QED
      BY <1>3, <2>1, <2>2, <2>4
  <1>10. CASE TruncateTrust(c) \/ SaveTrust(c)
    <2>1. /\ cpc[c] \in {"trust", "save"} /\ cpc'[c] \in {"save", "respond"}
          /\ UNCHANGED <<up, down>>
      BY <1>10 DEF TruncateTrust, SaveTrust, TypeOK, wireVars
    <2>2. ClientSent(c)' = ClientSent(c) /\ ClientTaken(c)' = ClientTaken(c)
      BY <2>1 DEF ClientSent, ClientTaken
    <2> QED
      BY <1>3, <2>1, <2>2
  <1>11. CASE Respond(c)
    <2>1. cpc[c] = "respond" /\ cpc'[c] = "success" /\ UNCHANGED down
      BY <1>11 DEF Respond, TypeOK
    <2>2. PICK m \in Packet : m.type = "auth_response" /\ SendUp(k, m)
      BY <1>11, ResponseSent
    <2>3. /\ ClientSent(c) = 1 /\ ClientSent(c)' = 1 + 1
          /\ ClientTaken(c) = 2 /\ ClientTaken(c)' = 2
      BY <2>1 DEF ClientSent, ClientTaken
    <2>4. m.type = UpTypes[1 + 1]
      BY <2>2 DEF UpTypes
    <2>5. Carries(Append(up[k], m), UpTypes, got, 1 + 1)
      BY <1>2, <1>3, <1>4, <2>2, <2>3, <2>4, SentInOrder
    <2> QED
      BY <1>3, <1>6, <2>1, <2>2, <2>3, <2>5
  <1> QED
    BY <1>1, <1>7, <1>8, <1>9, <1>10, <1>11

\* The steps of the server away from a connection, and of the other clients.
LEMMA InStepStep ==
    ASSUME BoundsAssumption, NullAssumption, TypeOK, ServerProgress, LinksOwned,
           OffersHonest, ResponsesHonest, ChallengeHeld, EndsInStep, SilentEnds, Next
    PROVE  EndsInStep'
  <1> USE DEF serverVars, fileVars, clientVars, wireVars, sessionVars, Served
  <1>1. SUFFICES ASSUME NEW c \in Clients, cpc'[c] \in HandshakePc,
                        Served(link[c])'
                 PROVE  InStep(c)'
    BY DEF EndsInStep
  <1> DEFINE k == link[c]
             Before == /\ cpc[c] \in HandshakePc /\ k \in Conns /\ k # NULL /\ k <= opened
                       /\ Served(k) /\ InStep(c) /\ clientEnd[k] = c
                       /\ serverEnd[k] # "none"
  <1>2. cpc[c] \in HandshakePc /\ Served(k) => Before
    BY Linked DEF EndsInStep, InStep, LinksOwned
  <1>3. CASE StartServer \/ LoadIdentity \/ GenerateIdentity \/ TruncateIdentity
             \/ WriteIdentity \/ WriteBack
    <2>1. UNCHANGED <<cpc, link, clientEnd, serverEnd, offered, up, down, cur>>
      BY <1>3 DEF StartServer, LoadIdentity, GenerateIdentity, TruncateIdentity, WriteIdentity,
                  WriteBack
    <2>2. Before
      BY <1>1, <1>2, <2>1
    <2>3. spc' = spc \/ cur \notin Conns
      BY <1>3 DEF StartServer, LoadIdentity, GenerateIdentity, TruncateIdentity, WriteIdentity,
                  WriteBack, TypeOK, ServingPc
    <2> QED
      BY <2>1, <2>2, <2>3, InStepElsewhere
  <1>4. CASE StartFails \/ ServerDies \/ PowerLoss
    <2>1. CloseServerEnds /\ UNCHANGED <<cpc, link>>
      BY <1>4 DEF StartFails, ServerDies, PowerLoss, ServerGone
    <2>2. k \in Conns
      BY <1>1, <2>1, Linked
    <2>3. serverEnd'[k] = IF Served(k) THEN "closed" ELSE serverEnd[k]
      BY <2>1, <2>2 DEF CloseServerEnds
    <2> QED
      BY <1>1, <2>1, <2>3
  <1>5. CASE Accept
    <2>1. PICK j \in Conns : /\ serverEnd[j] = "backlog" /\ cur' = j
                             /\ serverEnd' = [serverEnd EXCEPT ![j] = "open"]
      BY <1>5 DEF Accept
    <2>2. /\ spc = "accept" /\ spc' = "hello" /\ cur \notin Conns
          /\ UNCHANGED <<cpc, link, clientEnd, offered, up, down>>
      BY <1>5 DEF Accept, TypeOK, ServingPc
    <2>3. serverEnd'[k] = IF k = j THEN "open" ELSE serverEnd[k]
      BY <1>1, <2>1, <2>2, Linked DEF TypeOK
    <2>4. Before
      BY <1>1, <1>2, <2>1, <2>2, <2>3
    <2>5. CASE k # j
      BY <2>1, <2>2, <2>3, <2>4, <2>5, InStepElsewhere
    <2>6. CASE k = j
      <3>1. /\ ServerTaken(k)' = ServerTaken(k) /\ ServerSent(k)' = ServerSent(k)
            /\ ClientTaken(c)' = ClientTaken(c) /\ ClientSent(c)' = ClientSent(c)
        BY <2>1, <2>2, <2>4, <2>6 DEF ServerTaken, ServerSent, ClientTaken, ClientSent
      <3>2. /\ Carries(up[k], UpTypes, ServerTaken(k), ClientSent(c))
            /\ Carries(down[k], DownTypes, ClientTaken(c), ServerSent(k))
        BY <2>4 DEF InStep
      <3>3. Carries(up[k], UpTypes, ServerTaken(k), ClientSent(c))'
        BY <2>2, <3>1, <3>2 DEF Carries, UpTypes
      <3>4. Carries(down[k], DownTypes, ClientTaken(c), ServerSent(k))'
        BY <2>2, <3>1, <3>2 DEF Carries, DownTypes
      <3> QED
        BY <2>1, <2>2, <2>3, <2>4, <2>6, <3>3, <3>4 DEF InStep
    <2> QED
      BY <2>5, <2>6
  <1>6. CASE ServerHello \/ ServerChallenge \/ Establish
    <2>1. cur \in Conns /\ UNCHANGED <<cpc, link, clientEnd, serverEnd>>
      BY <1>6, HelloSent, ChallengeSent, SessionEstablished
      DEF ServerHello, ServerChallenge, Establish
    <2>2. Before
      BY <1>1, <1>2, <2>1
    <2>3. CASE cur = k
      BY <1>6, <2>2, <2>3, ServerMovesOn
    <2>4. CASE cur # k
      <3>1. down'[k] = down[k]
        BY <1>6, <2>1, <2>2, <2>4, HelloSent, ChallengeSent, SessionEstablished, SendsDown
      <3>2. up'[k] = up[k] /\ offered'[k] = offered[k] /\ cur' # k
        BY <1>6, <2>1, <2>2, <2>4 DEF ServerHello, ServerChallenge, Establish, TypeOK
      <3> QED
        BY <2>1, <2>2, <2>4, <3>1, <3>2, InStepElsewhere
    <2> QED
      BY <2>3, <2>4
  <1>7. CASE Drops
    <2>1. /\ cur \in Conns /\ cur' = NULL /\ UNCHANGED <<cpc, link, clientEnd, offered, down>>
          /\ serverEnd' = [serverEnd EXCEPT ![cur] = "closed"]
          /\ up' = [up EXCEPT ![cur] = << >>]
      BY <1>7 DEF Drops, DropInHand, TypeOK, ServingPc
    <2>2. k # cur
      BY <1>1, <2>1 DEF TypeOK
    <2>3. serverEnd'[k] = serverEnd[k] /\ up'[k] = up[k]
      BY <2>1, <2>2 DEF TypeOK
    <2>4. Before
      BY <1>1, <1>2, <2>1, <2>3
    <2> QED
      BY <2>1, <2>2, <2>3, <2>4, InStepElsewhere
  <1>8. ASSUME ClientActs(c), ~Leaves(c), ~Connect(c) PROVE InStep(c)'
    <2>1. cpc[c] \in HandshakePc /\ UNCHANGED <<link, serverEnd>>
      BY <1>8 DEF ClientActs, LoadTrust, ReceiveHello, ReceiveChallenge, TruncateTrust,
                  SaveTrust, Respond, Join, HandshakePc
    <2>2. Before
      BY <1>1, <1>2, <2>1
    <2> QED
      BY <1>1, <1>8, <2>2, ClientMovesOn
  <1>9. ASSUME Leaves(c) PROVE InStep(c)'
    BY <1>1, <1>9 DEF Leaves, Refuse, ClientGone, TypeOK, HandshakePc
  <1>10. ASSUME Connect(c) PROVE InStep(c)'
    <2>1. PICK n \in Conns : n = opened + 1 /\ n # NULL
      BY <1>10, BoundsAssumption, NullAssumption DEF Connect, TypeOK, Conns
    <2>2. /\ serverEnd[n] = "none" /\ up[n] = << >> /\ down[n] = << >> /\ offered[n] = NULL
      BY <2>1 DEF LinksOwned, TypeOK, Conns
    <2>3. cur # n
      BY <2>1, <2>2 DEF TypeOK, ServerProgress
    <2>4. /\ cpc'[c] = "load" /\ link'[c] = n /\ clientEnd'[n] = c /\ serverEnd'[n] = "backlog"
          /\ UNCHANGED <<cur, spc, up, down, offered>>
      BY <1>10, <2>1 DEF Connect, TypeOK
    <2>5. /\ ServerTaken(n)' = 0 /\ ServerSent(n)' = 0
          /\ ClientTaken(c)' = 0 /\ ClientSent(c)' = 0
      BY <2>2, <2>3, <2>4 DEF ServerTaken, ServerSent, ClientTaken, ClientSent
    <2>6. Carries(up[n], UpTypes, ServerTaken(n), ClientSent(c))'
      BY <2>2, <2>4, <2>5 DEF Carries
    <2>7. Carries(down[n], DownTypes, ClientTaken(c), ServerSent(n))'
      BY <2>2, <2>4, <2>5 DEF Carries
    <2> QED
      BY <2>4, <2>6, <2>7 DEF InStep
  <1>11. ASSUME NEW e \in Clients, e # c, ClientActs(e)
         PROVE  InStep(c)'
    <2>1. cpc'[c] = cpc[c] /\ link'[c] = k /\ UNCHANGED <<cur, spc, offered>>
      BY <1>11 DEF ClientActs, LoadTrust, ReceiveHello, ReceiveChallenge, TruncateTrust,
             SaveTrust, Respond, Join, Leaves, Refuse, ClientGone, Connect, TypeOK
    <2>2. k \in Conns /\ k # NULL /\ k <= opened /\ link[e] # k
      BY <1>1, <1>11, <2>1, Linked DEF LinksOwned
    <2>3. serverEnd'[k] = serverEnd[k]
      <3>1. ~Connect(e) => UNCHANGED serverEnd
        BY <1>11 DEF ClientActs, LoadTrust, ReceiveHello, ReceiveChallenge, TruncateTrust,
                     SaveTrust, Respond, Join, Leaves, Refuse, ClientGone
      <3>2. Connect(e) => serverEnd' = [serverEnd EXCEPT ![opened + 1] = "backlog"]
        BY DEF Connect
      <3> QED
        BY <2>2, <3>1, <3>2 DEF TypeOK, Conns
    <2>4. Before
      BY <1>1, <1>2, <2>1, <2>3
    <2>5. /\ up'[k] = up[k] /\ down'[k] = down[k] /\ clientEnd'[k] = clientEnd[k]
      <3>1. CASE LoadTrust(e) \/ Respond(e)
        <4>1. UNCHANGED <<down, clientEnd>> /\ link[e] \in Conns
          BY <3>1, Linked DEF LoadTrust, Respond, HandshakePc
        <4>2. up'[k] = up[k]
          BY <2>2, <3>1, <4>1, ResponseSent, SendsUp, PacketShapes DEF LoadTrust
        <4> QED
          BY <4>1, <4>2
      <3>2. CASE ReceiveHello(e) \/ ReceiveChallenge(e) \/ Join(e)
        <4>1. /\ UNCHANGED <<up, clientEnd>> /\ link[e] \in Conns
              /\ down' = [down EXCEPT ![link[e]] = Tail(@)]
          BY <3>2, Linked DEF ReceiveHello, ReceiveChallenge, Join, HandshakePc
        <4> QED
          BY <2>2, <4>1 DEF TypeOK
      <3>3. CASE Leaves(e)
        <4>1. CloseClientEnd(e) /\ UNCHANGED up
          BY <3>3 DEF Leaves, Refuse, ClientGone
        <4> QED
          BY <1>11, <2>2, <2>4, <4>1 DEF CloseClientEnd
      <3>4. CASE TruncateTrust(e) \/ SaveTrust(e)
        BY <3>4 DEF TruncateTrust, SaveTrust
      <3>5. CASE Connect(e)
        <4>1. UNCHANGED <<up, down>> /\ clientEnd' = [clientEnd EXCEPT ![opened + 1] = e]
          BY <3>5 DEF Connect
        <4> QED
          BY <2>2, <4>1 DEF TypeOK, Conns
      <3> QED
        BY <1>11, <3>1, <3>2, <3>3, <3>4, <3>5 DEF ClientActs
    <2> QED
      BY <2>1, <2>3, <2>4, <2>5, InStepElsewhere
  <1>12. CASE ClientHostDies
    BY <1>1, <1>12 DEF ClientHostDies, HandshakePc
  <1>13. ASSUME NEW j \in Conns, NeverArrives(j) PROVE InStep(c)'
    <2>1. UNCHANGED <<spc, cur, cpc, link, clientEnd, serverEnd, offered>>
      BY <1>13 DEF NeverArrives
    <2>2. Before
      BY <1>1, <1>2, <2>1
    <2>3. k # j
      BY <1>13, <2>2 DEF NeverArrives, SilentEnds, TypeOK
    <2>4. up'[k] = up[k] /\ down'[k] = down[k]
      BY <1>13, <2>2, <2>3 DEF NeverArrives, TypeOK
    <2> QED
      BY <2>1, <2>2, <2>4, InStepElsewhere
  <1> QED
    BY <1>3, <1>4, <1>5, <1>6, <1>7, <1>8, <1>9, <1>10, <1>11, <1>12, <1>13,
           Steps DEF ServerActs

------------------------------------------------------------------------------
(* The invariant, and what follows. *)

\* IInv is inductive.
LEMMA InductiveStep == ASSUME IInv, [Next]_vars PROVE IInv'
  <1> USE BoundsAssumption, NullAssumption DEF IInv
  <1>1. CASE Next
    <2>1. TypeOK'
      BY <1>1, ServerTypes, ClientTypes, HostTypes, Steps
    <2>2. ServerProgress' /\ LinksOwned'
      BY <1>1, ProgressStep, LinksStep
    <2>3. RequestsHonest' /\ ResponsesHonest' /\ OffersHonest' /\ SuccessesHonest'
      BY <1>1, RequestsStep, ResponsesStep, OffersStep, SuccessesStep
    <2>4. ChallengeHeld' /\ OneKey' /\ TrustIsCurrent'
      BY <1>1, ChallengeStep, KeyStep, TrustStep
    <2>5. RefusedOnlyAfterLoss'
      BY <1>1, RefusedStep
    <2>6. EndsInStep' /\ SilentEnds'
      BY <1>1, InStepStep, SilentStep
    <2> QED
      BY <2>1, <2>2, <2>3, <2>4, <2>5, <2>6
  <1>2. CASE UNCHANGED vars
    <2> USE <1>2 DEF vars, serverVars, fileVars, clientVars, wireVars, sessionVars
    <2>1. TypeOK'
      BY DEF TypeOK
    <2>2. ServerProgress' /\ LinksOwned' /\ ChallengeHeld' /\ SilentEnds'
      BY DEF ServerProgress, LinksOwned, ChallengeHeld, SilentEnds, Served
    <2>3. ASSUME NEW k \in Conns
          PROVE  /\ Challenges(k)' = Challenges(k)
                 /\ \A t : Payloads(up[k], t)' = Payloads(up[k], t)
                 /\ \A t : Payloads(down[k], t)' = Payloads(down[k], t)
      BY DEF Challenges, Received, Payloads
    <2>4. RequestsHonest' /\ ResponsesHonest' /\ OffersHonest' /\ SuccessesHonest'
      BY <2>3 DEF RequestsHonest, ResponsesHonest, OffersHonest, SuccessesHonest
    <2>5. OneKey' /\ TrustIsCurrent' /\ RefusedOnlyAfterLoss'
      BY <2>3 DEF OneKey, TrustIsCurrent, RefusedOnlyAfterLoss
    <2>6. EndsInStep'
      <3>1. ASSUME NEW c \in Clients, InStep(c) PROVE InStep(c)'
        BY <3>1, InStepElsewhere DEF InStep
      <3> QED
        BY <3>1 DEF EndsInStep, Served
    <2> QED
      BY <2>1, <2>2, <2>4, <2>5, <2>6
  <1> QED
    BY <1>1, <1>2

\* It holds before the server has ever been started.
LEMMA InitInv == ASSUME Init PROVE IInv
  <1> USE DEF NoKey, Init
  <1>1. TypeOK
    <2>1. << >> \in Seq(Packet) /\ NULL \notin Conns /\ 0 \in 0..MaxKeys /\ 0 \in 0..MaxConns
      BY NullAssumption, BoundsAssumption
    <2>2. up \in [Conns -> Seq(Packet)] /\ down \in [Conns -> Seq(Packet)]
      BY <2>1
    <2> QED
      BY <2>1, <2>2 DEF TypeOK, ServingPc
  <1>2. \A k \in Conns : Challenges(k) = {}
    BY NoPayloads DEF Challenges, Received
  <1>3. \A k \in Conns, t \in {"auth_response", "auth_success"} :
           Payloads(up[k], t) = {} /\ Payloads(down[k], t) = {}
    BY NoPayloads
  <1>4. ServerProgress /\ LinksOwned
    BY DEF ServerProgress, LinksOwned, ServingPc, HandshakePc
  <1>5. RequestsHonest /\ ResponsesHonest /\ OffersHonest /\ SuccessesHonest
    BY <1>2, <1>3 DEF RequestsHonest, ResponsesHonest, OffersHonest, SuccessesHonest
  <1>6. ChallengeHeld /\ OneKey /\ TrustIsCurrent /\ RefusedOnlyAfterLoss
    BY <1>2 DEF ChallengeHeld, OneKey, TrustIsCurrent, RefusedOnlyAfterLoss, ServingPc
  <1>7. EndsInStep /\ SilentEnds
    BY DEF EndsInStep, SilentEnds, HandshakePc
  <1> QED
    BY <1>1, <1>4, <1>5, <1>6, <1>7 DEF IInv

\* The invariant of the handshake, for any number of clients, connections and
\* identities.
THEOREM HandshakeInvariant == Spec => []IInv
  <1>1. Init => IInv
    BY InitInv
  <1>2. IInv /\ [Next]_vars => IInv'
    BY InductiveStep
  <1> QED
    BY <1>1, <1>2, PTL DEF Spec

\* As long as no fault has destroyed the server's key, every client of a home
\* directory trusts the key in the server's file (crypto.c:70, session.c:226).
THEOREM TrustIsAlwaysCurrent == Spec => []TrustIsCurrent
  <1>1. IInv => TrustIsCurrent
    BY DEF IInv
  <1> QED
    BY <1>1, HandshakeInvariant, PTL

\* And none turns the server away (session.c:220).
THEOREM NeverRefusedBeforeLoss == Spec => []RefusedOnlyAfterLoss
  <1>1. IInv => RefusedOnlyAfterLoss
    BY DEF IInv
  <1> QED
    BY <1>1, HandshakeInvariant, PTL

\* Neither end of a handshake ever waits for the other while the other waits for
\* it, though neither recv has a timeout (packet.c:159).
THEOREM NobodyWaits == Spec => []NobodyWaitsForTheOther
  <1>1. IInv => NobodyWaitsForTheOther
    <2> SUFFICES ASSUME IInv, NEW c \in Clients, Awaited(c) # "none",
                        serverEnd[link[c]] = "open", down[link[c]] = << >>
                 PROVE  ServerHasTheNextMove(link[c])
      BY DEF NobodyWaitsForTheOther
    <2> DEFINE k == link[c]
    <2>1. cpc[c] \in {"hello", "challenge", "success"} /\ cpc[c] \in HandshakePc
      BY DEF Awaited, HandshakePc
    <2>2. InStep(c)
      BY <2>1 DEF IInv, EndsInStep, Served
    <2>3. /\ cur = k \/ offered[k] # NULL
          /\ Carries(up[k], UpTypes, ServerTaken(k), ClientSent(c))
          /\ Carries(down[k], DownTypes, ClientTaken(c), ServerSent(k))
      BY <2>2 DEF InStep
    <2>4. k \in Conns /\ up[k] \in Seq(Packet)
      BY <2>1, Linked DEF IInv, TypeOK
    <2>5. ServerSent(k) = ClientTaken(c)
      <3>1. Len(down[k]) = 0
        OBVIOUS
      <3>2. ServerSent(k) - ClientTaken(c) = 0
        BY <2>3, <3>1 DEF Carries
      <3>3. ServerSent(k) \in Nat /\ ClientTaken(c) \in Nat
        BY DEF ServerSent, ClientTaken
      <3> QED
        BY <3>2, <3>3
    <2>6. ClientTaken(c) = (IF cpc[c] = "hello" THEN 0 ELSE IF cpc[c] = "challenge" THEN 1 ELSE 2)
      BY <2>1 DEF ClientTaken
    <2>7. offered[k] = NULL /\ cur = k
      BY <2>3, <2>5, <2>6 DEF ServerSent
    <2>8. spc \in ServingPc
      BY <2>4, <2>7 DEF IInv, TypeOK
    <2>9. CASE cpc[c] = "challenge"
      BY <2>5, <2>6, <2>7, <2>8, <2>9 DEF ServerSent, ServingPc, ServerHasTheNextMove
    <2>10. CASE cpc[c] = "hello"
      <3>1. spc = "hello"
        BY <2>5, <2>6, <2>7, <2>8, <2>10 DEF ServerSent, ServingPc
      <3>2. ServerTaken(k) = 0 /\ ClientSent(c) = 1
        BY <2>7, <2>10, <3>1 DEF ServerTaken, ClientSent
      <3>3. Len(up[k]) = 1 /\ up[k][1].type = UpTypes[1]
        BY <2>3, <2>4, <3>2 DEF Carries
      <3> QED
        BY <2>4, <2>7, <3>1, <3>3 DEF ServerHasTheNextMove, Arrived, UpTypes
    <2>11. CASE cpc[c] = "success"
      <3>1. spc = "response"
        BY <2>5, <2>6, <2>7, <2>8, <2>11 DEF ServerSent, ServingPc
      <3>2. ServerTaken(k) = 1 /\ ClientSent(c) = 2
        BY <2>7, <2>11, <3>1 DEF ServerTaken, ClientSent
      <3>3. Len(up[k]) = 1 /\ up[k][1].type = UpTypes[2]
        BY <2>3, <2>4, <3>2 DEF Carries
      <3> QED
        BY <2>4, <2>7, <3>1, <3>3 DEF ServerHasTheNextMove, Arrived, UpTypes
    <2> QED
      BY <2>1, <2>9, <2>10, <2>11
  <1> QED
    BY <1>1, HandshakeInvariant, PTL

\* Every step of the handshake offers a session, joins one, or does neither.
LEMMA AgreementStep == ASSUME IInv, [Next]_vars PROVE [Agreement!Next]_Agreement!vars
  <1> USE DEF serverVars, fileVars, clientVars, wireVars, sessionVars
  <1>1. CASE Establish
    <2>1. PICK s \in Session : offered' = [offered EXCEPT ![cur] = s] /\ s.id = Id(cur)
      BY <1>1, SessionEstablished DEF IInv
    <2>2. cur \in Conns
      BY <1>1, SessionEstablished DEF IInv
    <2>3. offered[cur] = NULL
      BY <2>2 DEF IInv, OffersHonest
    <2>4. \A j \in Conns : offered[j] # s
      <3>1. s # NULL
        BY NullAssumption
      <3>2. ASSUME NEW j \in Conns, offered[j] = s PROVE FALSE
        <4>1. offered[j].id = Id(j)
          BY <3>1, <3>2 DEF IInv, OffersHonest
        <4>2. j = cur
          BY <2>1, <3>2, <4>1 DEF Id
        <4> QED
          BY <2>3, <3>1, <3>2, <4>2
      <3> QED
        BY <3>2
    <2>5. joined' = joined
      BY <1>1 DEF Establish
    <2>6. Agreement!Offer(cur)
      BY <2>1, <2>2, <2>3, <2>4, <2>5 DEF Agreement!Offer, IInv, TypeOK
    <2> QED
      BY <2>2, <2>6 DEF Agreement!Next
  <1>2. ASSUME NEW c \in Clients, Join(c) PROVE Agreement!Next
    <2>1. /\ link[c] \in Conns /\ offered[link[c]] # NULL /\ joined[link[c]] = NULL
          /\ joined' = [joined EXCEPT ![link[c]] = offered[link[c]]]
      BY <1>2, SessionJoined DEF IInv
    <2>2. offered' = offered
      BY <1>2 DEF Join
    <2> QED
      BY <2>1, <2>2 DEF Agreement!Next, Agreement!Join
  <1>3. CASE UNCHANGED <<offered, joined>>
    BY <1>3 DEF Agreement!vars
  <1>4. \/ Establish \/ (\E c \in Clients : Join(c)) \/ UNCHANGED <<offered, joined>>
    <2>1. UNCHANGED vars => UNCHANGED <<offered, joined>>
      BY DEF vars
    <2>2. StartServer \/ LoadIdentity \/ GenerateIdentity \/ TruncateIdentity \/ WriteIdentity
             \/ StartFails \/ ServerDies \/ WriteBack \/ PowerLoss \/ Accept \/ ServerHello
             \/ ServerChallenge \/ Drops => UNCHANGED <<offered, joined>>
      BY DEF StartServer, LoadIdentity, GenerateIdentity, TruncateIdentity, WriteIdentity,
             StartFails, ServerDies, WriteBack, PowerLoss, Accept, ServerHello,
             ServerChallenge, Drops, DropInHand
    <2>3. ASSUME NEW c \in Clients, ClientActs(c), ~Join(c)
          PROVE  UNCHANGED <<offered, joined>>
      BY <2>3 DEF ClientActs, LoadTrust, ReceiveHello, ReceiveChallenge, TruncateTrust,
                  SaveTrust, Respond, Leaves, Refuse, ClientGone, Connect
    <2>4. ClientHostDies \/ (\E j \in Conns : NeverArrives(j)) => UNCHANGED <<offered, joined>>
      BY DEF ClientHostDies, NeverArrives
    <2> QED
      BY <2>1, <2>2, <2>3, <2>4, Steps DEF ServerActs
  <1> QED
    BY <1>1, <1>2, <1>3, <1>4

\* The two ends of every handshake agree on the session (session.c:183, 327).
THEOREM HandshakeImplementsAgreement == Spec => ImplementsAgreement
  <1>1. Init => Agreement!Init
    BY DEF Init, Agreement!Init
  <1>2. IInv /\ [Next]_vars => [Agreement!Next]_Agreement!vars
    BY AgreementStep
  <1> QED
    BY <1>1, <1>2, HandshakeInvariant, PTL DEF Spec, ImplementsAgreement, Agreement!Spec
===============================================================================
