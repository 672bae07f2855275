------------------------------- MODULE Handshake ------------------------------
(***************************************************************************)
(* The handshake, both ends of it, across restarts: the server's identity  *)
(* file, the file in which the clients of one home directory keep the key  *)
(* of the server they trust, and the packets of each connection.  Either   *)
(* end may die at any step, a read or a write may fail without notice, and *)
(* either host may lose its power: what it has not yet written back is     *)
(* gone then, and the other end is told nothing.                           *)
(***************************************************************************)
EXTENDS Naturals, Sequences, FiniteSets

CONSTANTS
    Clients,     \* processes that connect, all with the same home directory
    MaxConns,    \* bound: connections
    MaxKeys,     \* bound: identities the server generates
    NULL

ASSUME BoundsAssumption == MaxConns \in Nat /\ MaxKeys \in Nat

VARIABLES
    spc, ident, cur,        \* the server: where it is, its key, the connection it serves
    file, disk,             \* server_identity.key: what processes read, what a power loss leaves
    made, lost,             \* keys generated so far; whether a fault has destroyed one
    cpc, link, trusted,     \* a client: where it is, its connection, trusted_peer_key
    challenge,              \* the AUTH_REQUEST a client has received
    trust,                  \* server_trusted.key
    opened,                 \* connections made so far
    up, down,               \* packets on their way to the server, to the client
    clientEnd, serverEnd,   \* the two ends of a connection
    silent,                 \* connections with one end, which nobody told that the other is gone
    offered, joined         \* the session AUTH_SUCCESS was sent for, the one a client took

serverVars == <<spc, ident, cur>>
fileVars == <<file, disk, made, lost>>
clientVars == <<cpc, link, trusted, challenge>>
wireVars == <<opened, up, down, clientEnd, serverEnd, silent>>
sessionVars == <<offered, joined>>
vars == <<serverVars, fileVars, clientVars, trust, wireVars, sessionVars>>

Conns == 1..MaxConns

\* A public key is the number of the identity it belongs to.  A file that is
\* missing, truncated or short holds NoKey: every load treats these alike.
NoKey == 0
Keys == 1..MaxKeys

\* Nonces, ephemeral keys and session ids are drawn at random, so no two are the
\* same; they are named by what they are and the connection they are drawn for.
Nonce(k) == <<"nonce", k>>
Id(k) == <<"id", k>>
ServerEph(k) == <<"server_eph", k>>
ClientEph(k) == <<"client_eph", k>>

\* Mutant: the server derives its keys as a client does.
KeysOfClient(own, peer) == [tx |-> <<"up", own, peer>>, rx |-> <<"down", own, peer>>]

\* crypto_kx: one key for each direction, the same at both ends.
ServerKeys(own, peer) == [rx |-> <<"up", own, peer>>, tx |-> <<"down", own, peer>>]
ClientKeys(own, peer) == [tx |-> <<"up", peer, own>>, rx |-> <<"down", peer, own>>]

Named(what) == {what} \X Conns
SessionKey(way) == {way} \X Named("server_eph") \X Named("client_eph")
Session == [id : Named("id"), up : SessionKey("up"), down : SessionKey("down"),
            server : Keys, client : Clients]

ASSUME NullAssumption == NULL \notin Clients \cup Conns \cup Session

Request == [key : Keys, eph : Named("server_eph"), nonce : Named("nonce"),
            signer : Keys, signed : Named("nonce") \X Named("server_eph")]
Response == [key : Clients, eph : Named("client_eph"),
             signer : Clients, signed : Named("nonce") \X Named("client_eph")]
Success == [id : Named("id")]
Packet ==
    [type : {"client_hello", "server_hello"}, body : {NULL}]
        \cup [type : {"auth_request"}, body : Request \cup {NULL}]
        \cup [type : {"auth_response"}, body : Response \cup {NULL}]
        \cup [type : {"auth_success"}, body : Success \cup {NULL}]

\* packet_construct: without memory for the payload it makes a packet without
\* one, which its callers send.
Constructed(t, b) == {[type |-> t, body |-> b], [type |-> t, body |-> NULL]}
Hello(t) == [type |-> t, body |-> NULL]

Init ==
    /\ spc = "down" /\ ident = NoKey /\ cur = NULL
    /\ file = NoKey /\ disk = NoKey /\ made = 0 /\ lost = FALSE
    /\ cpc = [c \in Clients |-> "idle"]
    /\ link = [c \in Clients |-> NULL]
    /\ trusted = [c \in Clients |-> NoKey]
    /\ challenge = [c \in Clients |-> NULL]
    /\ trust = NoKey
    /\ opened = 0
    /\ up = [k \in Conns |-> << >>] /\ down = [k \in Conns |-> << >>]
    /\ clientEnd = [k \in Conns |-> NULL]
    /\ serverEnd = [k \in Conns |-> "none"]
    /\ silent = {}
    /\ offered = [k \in Conns |-> NULL] /\ joined = [k \in Conns |-> NULL]

------------------------------------------------------------------------------
(* TCP. *)

\* clientEnd[k] is the client while it has the connection, NULL once it has not.
\* What is sent to an end that is gone goes nowhere.
Served(k) == serverEnd[k] \in {"backlog", "open"}
SendDown(k, m) == down' = IF clientEnd[k] # NULL THEN [down EXCEPT ![k] = Append(@, m)] ELSE down
SendUp(k, m) == up' = IF Served(k) THEN [up EXCEPT ![k] = Append(@, m)] ELSE up

Arrived(q, t) == q # << >> /\ Head(q).type = t
ArrivedWhole(q, t) == Arrived(q, t) /\ Head(q).body # NULL

\* The server's process is gone: the kernel closes its ends.  What had arrived
\* at a client can still be read.
CloseServerEnds ==
    /\ serverEnd' = [k \in Conns |-> IF Served(k) THEN "closed" ELSE serverEnd[k]]
    /\ up' = [k \in Conns |-> << >>]

CloseClientEnd(c) ==
    /\ clientEnd' = [k \in Conns |-> IF clientEnd[k] = c THEN NULL ELSE clientEnd[k]]
    /\ down' = [k \in Conns |-> IF clientEnd[k] = c THEN << >> ELSE down[k]]
    /\ silent' = {k \in silent : clientEnd[k] # c}

------------------------------------------------------------------------------
(* The server starts.  It listens before it has an identity. *)

StartServer ==
    /\ spc = "down"
    /\ spc' = "load"
    /\ UNCHANGED <<ident, cur, fileVars, clientVars, trust, wireVars, sessionVars>>

\* crypto_identity_load_or_create: a whole pair of keys that passes the probe, or
\* none.  A good file that cannot be opened or read is taken for none, too.
LoadIdentity ==
    /\ spc = "load"
    /\ \/ file # NoKey /\ ident' = file /\ spc' = "accept"
       \/ ident' = ident /\ spc' = "generate"
    /\ UNCHANGED <<cur, fileVars, clientVars, trust, wireVars, sessionVars>>

GenerateIdentity ==
    /\ spc = "generate"
    /\ made < MaxKeys
    /\ made' = made + 1
    /\ ident' = made + 1
    /\ spc' = "truncate"
    /\ UNCHANGED <<cur, file, disk, lost, clientVars, trust, wireVars, sessionVars>>

\* fopen(path, "wb"), which destroys the key that could not be read.
TruncateIdentity ==
    /\ spc = "truncate"
    /\ file' = NoKey
    /\ lost' = (lost \/ file # NoKey)
    /\ spc' = "write"
    /\ UNCHANGED <<ident, cur, disk, made, clientVars, trust, wireVars, sessionVars>>

\* Two calls of fwrite and fclose, whose results nobody looks at.
WriteIdentity ==
    /\ spc = "write"
    /\ \/ file' = ident /\ lost' = lost
       \/ file' = NoKey /\ lost' = TRUE
    /\ spc' = "accept"
    /\ UNCHANGED <<ident, cur, disk, made, clientVars, trust, wireVars, sessionVars>>

ServerGone(untold) ==
    /\ spc' = "down" /\ ident' = NoKey /\ cur' = NULL
    /\ CloseServerEnds
    /\ silent' = {k \in untold : clientEnd[k] # NULL}

\* Mutant: a file that cannot be opened for writing is not an error.
StartFailsIgnored ==
    /\ spc = "truncate"
    /\ spc' = "accept"
    /\ UNCHANGED <<ident, cur, fileVars, clientVars, trust, wireVars, sessionVars>>

\* No identity: session_manager_init fails, the listening socket is closed.
StartFails ==
    /\ spc \in {"generate", "truncate"}
    /\ ServerGone(silent)
    /\ UNCHANGED <<fileVars, clientVars, trust, opened, down, clientEnd, sessionVars>>

\* The process ends, by a signal or because it is told to.
ServerDies ==
    /\ spc # "down"
    /\ ServerGone(silent)
    /\ UNCHANGED <<fileVars, clientVars, trust, opened, down, clientEnd, sessionVars>>

\* The kernel writes its cache back in its own time.
WriteBack ==
    /\ disk # file
    /\ disk' = file
    /\ UNCHANGED <<serverVars, file, made, lost, clientVars, trust, wireVars, sessionVars>>

\* The server's host loses its power, and with it what was not written back.  No
\* FIN or reset tells the clients.
PowerLoss ==
    /\ ServerGone(silent \cup {k \in Conns : Served(k)})
    /\ file' = disk
    /\ lost' = (lost \/ disk # file)
    /\ UNCHANGED <<disk, made, clientVars, trust, opened, down, clientEnd, sessionVars>>

------------------------------------------------------------------------------
(* The server's end: server_listener, one connection at a time. *)

\* server_accept takes the connection that has waited longest; session_create.
Accept ==
    /\ spc = "accept"
    /\ \E k \in Conns :
          /\ serverEnd[k] = "backlog"
          /\ \A j \in Conns : serverEnd[j] = "backlog" => k <= j
          /\ cur' = k
          /\ serverEnd' = [serverEnd EXCEPT ![k] = "open"]
    /\ spc' = "hello"
    /\ UNCHANGED <<ident, fileVars, clientVars, trust, opened, up, down, clientEnd, silent,
                   sessionVars>>

\* session_server_connect: the client's hello, and the answer to it.
ServerHello ==
    /\ spc = "hello"
    /\ Arrived(up[cur], "client_hello")
    /\ up' = [up EXCEPT ![cur] = Tail(@)]
    /\ SendDown(cur, Hello("server_hello"))
    /\ spc' = "challenge"
    /\ UNCHANGED <<ident, cur, fileVars, clientVars, trust, opened, clientEnd, serverEnd,
                   silent, sessionVars>>

\* session_authenticate_server: a nonce and an ephemeral key, signed.
ServerChallenge ==
    /\ spc = "challenge"
    /\ \E m \in Constructed("auth_request",
                  [key |-> ident, eph |-> ServerEph(cur), nonce |-> Nonce(cur),
                   signer |-> ident, signed |-> <<Nonce(cur), ServerEph(cur)>>]) :
          SendDown(cur, m)
    /\ spc' = "response"
    /\ UNCHANGED <<ident, cur, fileVars, clientVars, trust, opened, up, clientEnd, serverEnd,
                   silent, sessionVars>>

\* crypto_verify_message over the nonce and the sender's ephemeral key.
Signed(m, nonce) == m.signer = m.key /\ m.signed = <<nonce, m.eph>>

\* session_verify_client, then AUTH_SUCCESS.  The state is set after that send, and
\* read by the server alone: what counts here, and in offered, is the send.
Establish ==
    /\ spc = "response"
    /\ ArrivedWhole(up[cur], "auth_response")
    /\ LET r == Head(up[cur]).body
           keys == ServerKeys(ServerEph(cur), r.eph)
       IN  /\ Signed(r, Nonce(cur))
           /\ offered' = [offered EXCEPT ![cur] =
                 [id |-> Id(cur), up |-> keys.rx, down |-> keys.tx,
                  server |-> ident, client |-> r.key]]
    /\ up' = [up EXCEPT ![cur] = Tail(@)]
    /\ \E m \in Constructed("auth_success", [id |-> Id(cur)]) : SendDown(cur, m)
    /\ spc' = "accept"
    /\ cur' = NULL
    /\ UNCHANGED <<ident, fileVars, clientVars, trust, opened, clientEnd, serverEnd, silent,
                   joined>>

\* The client has gone: the next recv or send fails.  Or what has come is of no use:
\* another type of packet, one without its payload, a bad signature, or a payload
\* there is no memory for.
NoUse ==
    LET q == up[cur] IN
    \/ clientEnd[cur] = NULL /\ cur \notin silent
    \/ spc = "hello" /\ q # << >> /\ ~Arrived(q, "client_hello")
    \/ spc = "response" /\ q # << >>

\* Mutant: session_destroy is forgotten.
DropClientOpen ==
    /\ spc \in {"hello", "challenge", "response"}
    /\ NoUse
    /\ spc' = "accept"
    /\ cur' = NULL
    /\ UNCHANGED <<ident, fileVars, clientVars, trust, wireVars, sessionVars>>

\* session_server_connect fails: session_destroy closes the connection.
DropInHand ==
    /\ serverEnd' = [serverEnd EXCEPT ![cur] = "closed"]
    /\ up' = [up EXCEPT ![cur] = << >>]
    /\ silent' = silent \ {cur}
    /\ spc' = "accept"
    /\ cur' = NULL
    /\ UNCHANGED <<ident, fileVars, clientVars, trust, opened, down, clientEnd, sessionVars>>

DropClient ==
    /\ spc \in {"hello", "challenge", "response"}
    /\ NoUse
    /\ DropInHand

------------------------------------------------------------------------------
(* The client's end: client_listener. *)

\* connection_connect: the kernel of a listening server completes it.
Connect(c) ==
    /\ cpc[c] = "idle"
    /\ spc # "down"
    /\ opened < MaxConns
    /\ opened' = opened + 1
    /\ link' = [link EXCEPT ![c] = opened']
    /\ clientEnd' = [clientEnd EXCEPT ![opened'] = c]
    /\ serverEnd' = [serverEnd EXCEPT ![opened'] = "backlog"]
    /\ cpc' = [cpc EXCEPT ![c] = "load"]
    /\ UNCHANGED <<serverVars, fileVars, trusted, challenge, trust, up, down, silent,
                   sessionVars>>

\* crypto_trust_key_load, which may fail on a good file, session_create and the
\* client's hello.
LoadTrust(c) ==
    /\ cpc[c] = "load"
    /\ \E key \in {trust, NoKey} : trusted' = [trusted EXCEPT ![c] = key]
    /\ SendUp(link[c], Hello("client_hello"))
    /\ cpc' = [cpc EXCEPT ![c] = "hello"]
    /\ UNCHANGED <<serverVars, fileVars, link, challenge, trust, opened, down, clientEnd,
                   serverEnd, silent, sessionVars>>

ReceiveHello(c) ==
    /\ cpc[c] = "hello"
    /\ Arrived(down[link[c]], "server_hello")
    /\ down' = [down EXCEPT ![link[c]] = Tail(@)]
    /\ cpc' = [cpc EXCEPT ![c] = "challenge"]
    /\ UNCHANGED <<serverVars, fileVars, link, trusted, challenge, trust, opened, up,
                   clientEnd, serverEnd, silent, sessionVars>>

\* Mutant: the first key seen is saved and not kept in the session.
ReceiveChallengeUnkept(c) ==
    /\ cpc[c] = "challenge"
    /\ ArrivedWhole(down[link[c]], "auth_request")
    /\ LET m == Head(down[link[c]]).body IN
          /\ trusted[c] \in {NoKey, m.key}
          /\ challenge' = [challenge EXCEPT ![c] = m]
    /\ down' = [down EXCEPT ![link[c]] = Tail(@)]
    /\ cpc' = [cpc EXCEPT ![c] = IF trusted[c] = NoKey THEN "trust" ELSE "respond"]
    /\ UNCHANGED <<serverVars, fileVars, link, trusted, trust, opened, up, clientEnd,
                   serverEnd, silent, sessionVars>>

\* session_authenticate_client: a key that is trusted, or the first one seen.
ReceiveChallenge(c) ==
    /\ cpc[c] = "challenge"
    /\ ArrivedWhole(down[link[c]], "auth_request")
    /\ LET m == Head(down[link[c]]).body IN
          /\ trusted[c] \in {NoKey, m.key}
          /\ challenge' = [challenge EXCEPT ![c] = m]
          /\ trusted' = [trusted EXCEPT ![c] = m.key]
    /\ down' = [down EXCEPT ![link[c]] = Tail(@)]
    /\ cpc' = [cpc EXCEPT ![c] = IF trusted[c] = NoKey THEN "trust" ELSE "respond"]
    /\ UNCHANGED <<serverVars, fileVars, link, trust, opened, up, clientEnd, serverEnd,
                   silent, sessionVars>>

\* The client's process ends.
ClientGone(c, to) ==
    /\ CloseClientEnd(c)
    /\ cpc' = [cpc EXCEPT ![c] = to]
    /\ link' = [link EXCEPT ![c] = NULL]
    /\ trusted' = [trusted EXCEPT ![c] = NoKey]
    /\ challenge' = [challenge EXCEPT ![c] = NULL]
    /\ UNCHANGED <<serverVars, fileVars, trust, opened, up, serverEnd, sessionVars>>

\* "Server key does not match trusted key".
Refuse(c) ==
    /\ cpc[c] = "challenge"
    /\ ArrivedWhole(down[link[c]], "auth_request")
    /\ trusted[c] \notin {NoKey, Head(down[link[c]]).body.key}
    /\ ClientGone(c, "refused")

\* crypto_trust_key_save, whose result nobody looks at: fopen(path, "wb") ...
TruncateTrust(c) ==
    /\ cpc[c] = "trust"
    /\ \/ trust' = NoKey /\ cpc' = [cpc EXCEPT ![c] = "save"]
       \/ trust' = trust /\ cpc' = [cpc EXCEPT ![c] = "respond"]
    /\ UNCHANGED <<serverVars, fileVars, link, trusted, challenge, wireVars, sessionVars>>

\* ... and fwrite, which may fail as well.
SaveTrust(c) ==
    /\ cpc[c] = "save"
    /\ trust' \in {trusted[c], NoKey}
    /\ cpc' = [cpc EXCEPT ![c] = "respond"]
    /\ UNCHANGED <<serverVars, fileVars, link, trusted, challenge, wireVars, sessionVars>>

\* The challenge's signature, an ephemeral key, the session keys, AUTH_RESPONSE.
Respond(c) ==
    /\ cpc[c] = "respond"
    /\ Signed(challenge[c], challenge[c].nonce)
    /\ \E m \in Constructed("auth_response",
                  [key |-> c, eph |-> ClientEph(link[c]), signer |-> c,
                   signed |-> <<challenge[c].nonce, ClientEph(link[c])>>]) :
          SendUp(link[c], m)
    /\ cpc' = [cpc EXCEPT ![c] = "success"]
    /\ UNCHANGED <<serverVars, fileVars, link, trusted, challenge, trust, opened, down,
                   clientEnd, serverEnd, silent, sessionVars>>

\* AUTH_SUCCESS: the session is established.
Join(c) ==
    /\ cpc[c] = "success"
    /\ ArrivedWhole(down[link[c]], "auth_success")
    /\ LET keys == ClientKeys(ClientEph(link[c]), challenge[c].eph) IN
          joined' = [joined EXCEPT ![link[c]] =
             [id |-> Head(down[link[c]]).body.id, up |-> keys.tx, down |-> keys.rx,
              server |-> challenge[c].key, client |-> c]]
    /\ down' = [down EXCEPT ![link[c]] = Tail(@)]
    /\ cpc' = [cpc EXCEPT ![c] = "established"]
    /\ challenge' = [challenge EXCEPT ![c] = NULL]
    /\ UNCHANGED <<serverVars, fileVars, link, trusted, trust, opened, up, clientEnd,
                   serverEnd, silent, offered>>

\* The type of packet a client waits for.
Awaited(c) == CASE cpc[c] = "hello" -> "server_hello"
                [] cpc[c] = "challenge" -> "auth_request"
                [] cpc[c] = "success" -> "auth_success"
                [] OTHER -> "none"

\* The server's end is closed (what had arrived may be lost with it), the packet
\* that arrived is of no use, there is no memory for its payload, or the challenge's
\* signature is bad.
ClientFails(c) ==
    /\ \/ /\ Awaited(c) # "none"
          /\ LET q == down[link[c]] IN
             \/ serverEnd[link[c]] = "closed" /\ link[c] \notin silent
             \/ q # << >> /\ ~(cpc[c] = "hello" /\ Arrived(q, "server_hello"))
       \/ cpc[c] = "respond" /\ ~Signed(challenge[c], challenge[c].nonce)
    /\ ClientGone(c, "idle")

\* A client's process ends, by itself or at any step of the handshake, and the
\* user may start another.
ClientEnds(c) ==
    /\ cpc[c] # "idle"
    /\ ClientGone(c, "idle")

------------------------------------------------------------------------------
(* A host without power says nothing.  What it had sent may still arrive; the *)
(* other end's TCP may find out, when it has something of its own to repeat,  *)
(* and need not.                                                              *)

\* The clients' host loses its power: all of them are gone, and the key they saved
\* last may be (an older one it replaced differs from it only once a key is lost).
ClientHostDies ==
    /\ cpc' = [c \in Clients |-> "idle"]
    /\ link' = [c \in Clients |-> NULL]
    /\ trusted' = [c \in Clients |-> NoKey]
    /\ challenge' = [c \in Clients |-> NULL]
    /\ trust' \in {trust, NoKey}
    /\ clientEnd' = [k \in Conns |-> NULL]
    /\ down' = [k \in Conns |-> << >>]
    /\ silent' = {k \in Conns : Served(k) /\ (clientEnd[k] # NULL \/ k \in silent)}
    /\ UNCHANGED <<serverVars, fileVars, opened, up, serverEnd, sessionVars>>

\* What the host without power had sent is lost on the way.
NeverArrives(k) ==
    /\ k \in silent
    /\ up' = [up EXCEPT ![k] = << >>] /\ down' = [down EXCEPT ![k] = << >>]
    /\ UNCHANGED <<serverVars, fileVars, clientVars, trust, opened, clientEnd, serverEnd,
                   silent, sessionVars>>

\* recv or send returns an error: the server's host is back and resets the
\* connection, or TCP has repeated its data in vain.
ClientTimesOut(c) ==
    /\ Awaited(c) # "none"
    /\ link[c] \in silent
    /\ ClientGone(c, "idle")

ServerTimesOut ==
    /\ spc \in {"hello", "challenge", "response"}
    /\ cur \in silent
    /\ DropInHand

ServerStep ==
    \/ LoadIdentity \/ GenerateIdentity \/ TruncateIdentity \/ WriteIdentity \/ StartFails
    \/ Accept \/ ServerHello \/ ServerChallenge \/ Establish \/ DropClient

ClientStep(c) ==
    \/ LoadTrust(c) \/ ReceiveHello(c) \/ ReceiveChallenge(c) \/ Refuse(c)
    \/ TruncateTrust(c) \/ SaveTrust(c) \/ Respond(c) \/ Join(c) \/ ClientFails(c)

Next ==
    \/ ServerStep
    \/ StartServer \/ ServerDies \/ WriteBack
    \/ PowerLoss \/ ClientHostDies \/ ServerTimesOut \/ \E k \in Conns : NeverArrives(k)
    \/ \E c \in Clients : ClientStep(c) \/ Connect(c) \/ ClientEnds(c) \/ ClientTimesOut(c)

Spec == Init /\ [][Next]_vars

\* The listener thread and the clients' threads are scheduled; nobody has to
\* start anything, and faults need not happen.
Fairness == WF_vars(ServerStep) /\ \A c \in Clients : WF_vars(ClientStep(c))
FairSpec == Spec /\ Fairness

------------------------------------------------------------------------------
(* Properties. *)

ServingPc == {"hello", "challenge", "response"}
HandshakePc == {"load", "hello", "challenge", "trust", "save", "respond", "success"}

\* The shape of the state of the server, the clients, the files and the wires.
TypeOK ==
    /\ spc \in {"down", "load", "generate", "truncate", "write", "accept"} \cup ServingPc
    /\ ident \in Keys \cup {NoKey}
    /\ cur \in Conns \cup {NULL} /\ (spc \in ServingPc <=> cur \in Conns)
    /\ file \in Keys \cup {NoKey} /\ disk \in Keys \cup {NoKey}
    /\ made \in 0..MaxKeys /\ lost \in BOOLEAN
    /\ cpc \in [Clients -> HandshakePc \cup {"idle", "established", "refused"}]
    /\ link \in [Clients -> Conns \cup {NULL}]
    /\ trusted \in [Clients -> Keys \cup {NoKey}]
    /\ challenge \in [Clients -> Request \cup {NULL}]
    /\ trust \in Keys \cup {NoKey}
    /\ opened \in 0..MaxConns
    /\ up \in [Conns -> Seq(Packet)] /\ down \in [Conns -> Seq(Packet)]
    /\ clientEnd \in [Conns -> Clients \cup {NULL}]
    /\ serverEnd \in [Conns -> {"none", "backlog", "open", "closed"}]
    /\ silent \subseteq Conns
    /\ offered \in [Conns -> Session \cup {NULL}]
    /\ joined \in [Conns -> Session \cup {NULL}]

\* Where the server is tells what its files and its connection are.
ServerProgress ==
    /\ spc \in {"truncate", "write", "accept"} \cup ServingPc => ident # NoKey
    /\ spc = "write" => file = NoKey
    /\ spc \in ServingPc => serverEnd[cur] = "open"

\* A connection has one client, and is never taken up again.
LinksOwned ==
    /\ \A c \in Clients : link[c] # NULL => link[c] <= opened
    /\ \A c \in Clients : cpc[c] \in {"idle", "refused"} => link[c] = NULL
    /\ \A c \in Clients : cpc[c] \in HandshakePc => link[c] # NULL /\ joined[link[c]] = NULL
    /\ \A c, e \in Clients : link[c] = link[e] /\ link[c] # NULL => c = e
    /\ \A k \in Conns : k > opened =>
          /\ serverEnd[k] = "none" /\ up[k] = << >> /\ down[k] = << >>
          /\ offered[k] = NULL /\ joined[k] = NULL

\* The payloads of the packets of a type in a queue, and the challenges of a
\* connection: on their way, or received by its client.
Payloads(q, t) == {q[i].body : i \in {j \in DOMAIN q : q[j].type = t}} \ {NULL}
Received(k) == {challenge[c] : c \in {e \in Clients : link[e] = k}} \ {NULL}
Challenges(k) == Payloads(down[k], "auth_request") \cup Received(k)

\* A challenge names the identity the server has while it serves the connection,
\* and has after it in the session it offers.
RequestsHonest ==
    \A k \in Conns : \A r \in Challenges(k) :
        /\ r.eph = ServerEph(k)
        /\ cur = k => spc = "response" /\ r.key = ident
        /\ offered[k] # NULL => r.key = offered[k].server
        /\ serverEnd[k] \notin {"none", "backlog"}

ResponsesHonest ==
    \A k \in Conns : \A r \in Payloads(up[k], "auth_response") :
        /\ r.eph = ClientEph(k)
        /\ \A c \in Clients : link[c] = k => r.key = c

OffersHonest ==
    \A k \in Conns : offered[k] # NULL =>
        /\ offered[k].id = Id(k)
        /\ offered[k].up = <<"up", ServerEph(k), ClientEph(k)>>
        /\ offered[k].down = <<"down", ServerEph(k), ClientEph(k)>>
        /\ \A c \in Clients : link[c] = k => offered[k].client = c
        /\ cur # k /\ serverEnd[k] \notin {"none", "backlog"}

SuccessesHonest ==
    \A k \in Conns : \A r \in Payloads(down[k], "auth_success") :
        r.id = Id(k) /\ offered[k] # NULL

\* A client trusts the key of the challenge it goes on with.
ChallengeHeld ==
    \A c \in Clients :
        /\ cpc[c] \in {"trust", "save", "respond", "success"} => challenge[c] # NULL
        /\ cpc[c] \in {"load", "hello", "challenge"} => challenge[c] = NULL
        /\ challenge[c] # NULL => link[c] # NULL /\ trusted[c] = challenge[c].key

\* Until a fault destroys a key there is only one: the file's.
OneKey ==
    ~lost =>
        /\ spc \in {"accept"} \cup ServingPc => ident = file
        /\ \A k \in Conns : \A r \in Challenges(k) : r.key = file

\* Unless a fault has destroyed the server's key - a read that failed and was taken
\* for a missing file (crypto.c:72-91), a write that failed without notice
\* (crypto.c:97), a power loss before it was written back - the key a home directory
\* trusts, and every client in it, is the one in the server's file, however often
\* either end dies (crypto.c:70, 115; session.c:226): nobody is shown an identity
\* before it is stored.
TrustIsCurrent ==
    ~lost => /\ trust # NoKey => trust = file
             /\ \A c \in Clients : trusted[c] # NoKey => trusted[c] = file

\* Unless such a fault has happened, no client ever turns the server away
\* (session.c:220).
RefusedOnlyAfterLoss == (\E c \in Clients : cpc[c] = "refused") => lost

\* The packets of a handshake in the order each end sends them, and how many of
\* them the two ends of a connection have sent and received.
UpTypes == <<"client_hello", "auth_response">>
DownTypes == <<"server_hello", "auth_request", "auth_success">>
ServerSent(k) == IF offered[k] # NULL THEN 3
                 ELSE IF cur = k /\ spc = "challenge" THEN 1
                 ELSE IF cur = k /\ spc = "response" THEN 2 ELSE 0
ServerTaken(k) == IF offered[k] # NULL THEN 2
                  ELSE IF cur = k /\ spc \in {"challenge", "response"} THEN 1 ELSE 0
ClientSent(c) == IF cpc[c] = "load" THEN 0 ELSE IF cpc[c] = "success" THEN 2 ELSE 1
ClientTaken(c) ==
    IF cpc[c] \in {"load", "hello"} THEN 0 ELSE IF cpc[c] = "challenge" THEN 1 ELSE 2

\* A queue holds what has been sent and not been taken yet.
Carries(q, types, taken, sent) ==
    /\ Len(q) = sent - taken
    /\ \A i \in DOMAIN q : q[i].type = types[taken + i]

\* While the server has not closed it, a client's connection carries what one
\* end has sent and the other is still to receive, in that order.
InStep(c) ==
    LET k == link[c] IN
    /\ clientEnd[k] = c
    /\ \/ serverEnd[k] = "backlog"
       \/ serverEnd[k] = "open" /\ (cur = k \/ offered[k] # NULL)
    /\ Carries(up[k], UpTypes, ServerTaken(k), ClientSent(c))
    /\ Carries(down[k], DownTypes, ClientTaken(c), ServerSent(k))
EndsInStep ==
    \A c \in Clients :
        cpc[c] \in HandshakePc /\ Served(link[c]) => InStep(c)

\* A connection one of whose ends has gone without a word has the other one.
SilentEnds == \A k \in silent : serverEnd[k] # "none" /\ (Served(k) <=> clientEnd[k] = NULL)

\* The inductive invariant of the handshake.
IInv ==
    /\ TypeOK
    /\ ServerProgress
    /\ LinksOwned
    /\ RequestsHonest
    /\ ResponsesHonest
    /\ OffersHonest
    /\ SuccessesHonest
    /\ ChallengeHeld
    /\ OneKey
    /\ TrustIsCurrent
    /\ RefusedOnlyAfterLoss
    /\ EndsInStep
    /\ SilentEnds

\* The server is at connection k, and about to send its challenge (session.c:90) or
\* with the packet it waits for before it (session.c:116, 374).
ServerHasTheNextMove(k) ==
    cur = k /\ \/ spc = "challenge"
               \/ spc = "hello" /\ Arrived(up[k], "client_hello")
               \/ spc = "response" /\ Arrived(up[k], "auth_response")

\* The recv of either end has no timeout (packet.c:159), and yet the two never
\* wait for each other: when a client has nothing to read on a connection its
\* server has accepted and not closed (session.c:199, 294, 348), the next move is
\* the server's.
NobodyWaitsForTheOther ==
    \A c \in Clients :
        Awaited(c) # "none" /\ serverEnd[link[c]] = "open" /\ down[link[c]] = << >>
            => ServerHasTheNextMove(link[c])

\* A recv with nothing to come: the host at the other end has lost its power.
ClientWaitsInVain(c) == Awaited(c) # "none" /\ link[c] \in silent /\ down[link[c]] = << >>
ServerWaitsInVain == spc \in {"hello", "response"} /\ cur \in silent /\ up[cur] = << >>

\* A client that has connected gets to the end of its handshake - established,
\* refused or failed - though neither end's recv has a timeout (packet.c:159) and
\* the server serves one client at a time, unless it or the server waits for ever
\* for a host that lost its power.
ConnectEnds ==
    \A c \in Clients :
        []<>(cpc[c] \notin HandshakePc) \/ <>[](ClientWaitsInVain(c) \/ ServerWaitsInVain)

\* The two ends of the handshake implement SessionAgreement: a client that holds
\* an established session has the id, the keys and the identities of the one its
\* server sent AUTH_SUCCESS for before (session.c:183, 327).
Agreement == INSTANCE SessionAgreement WITH Sessions <- Session
ImplementsAgreement == Agreement!Spec
===============================================================================
