-------------------------------- MODULE Server --------------------------------
(***************************************************************************)
(* The server process: the main thread of start_server_environment, the    *)
(* listener that accepts a client and runs its whole handshake, the UDP    *)
(* listener and the TUN sender, sharing the session manager, the sockets   *)
(* and the TUN device, and what the clients' ends of the TCP connections   *)
(* do to them.  The session table is the atomic registry SessionManager    *)
(* implements; datagrams matter here only for the session the UDP thread   *)
(* holds on to.                                                            *)
(***************************************************************************)
EXTENDS Naturals, FiniteSets

CONSTANTS
    Clients,    \* the TCP connections clients open, one per client process
    Capacity,   \* MAX_SESSIONS
    MaxOpen,    \* the descriptors the process has left for connections
    NULL

ASSUME CapacityAssumption == Capacity \in Nat /\ MaxOpen \in Nat \ {0}
ASSUME ClientsAssumption == IsFiniteSet(Clients) /\ NULL \notin Clients
ASSUME PacketsAssumption == NULL \notin {"hello", "response", "bad"}

VARIABLES
    alive,       \* the process has not been killed by a signal
    mpc,         \* where the main thread is
    running,     \* server->running
    listenVar,   \* server->socket >= 0
    listenOpen,  \* the descriptor behind it is open
    udpVar,      \* manager->udp_socket >= 0
    udpOpen,     \* the descriptor behind it is open
    tunOpen,     \* manager->tun is an open device
    mutexLive,   \* manager->lock is initialised
    lpc,         \* where the listener thread is
    cur,         \* the connection whose handshake it runs, or NULL
    upc,         \* where the UDP listener is
    held,        \* the SESSION_T* session_manager_get gave it, or NULL
    tpc,         \* where the TUN sender is
    table,       \* the sessions in manager->sessions
    mem,         \* connection -> its SESSION_T: "none", "live" or "freed"
    state,       \* connection -> session->state
    peerKnown,   \* connection -> session->udp.peer_known
    fd,          \* connection -> "none", "queued" (backlog), "open", "closed"
    sent,        \* connection -> how many send() calls the server completed
    inbox,       \* connection -> the packet waiting to be received, or NULL
    peer,        \* connection -> the client's end as the server's TCP sees it
    cpc,         \* client -> where its handshake is
    dgrams       \* the sessions a datagram waits for in the UDP socket

mainVars == <<mpc, running, listenVar, listenOpen, udpVar, udpOpen, tunOpen, mutexLive>>
listenerVars == <<lpc, cur>>
udpVars == <<upc, held>>
sessionVars == <<table, mem, state, peerKnown>>
tcpVars == <<fd, sent, inbox, peer>>
clientVars == <<cpc, dgrams>>
vars == <<alive, mainVars, listenerVars, udpVars, tpc, sessionVars, tcpVars, clientVars>>

\* The handshake packets the server sends, in order, one send() for the header
\* and one for the payload: 1 SERVER_HELLO, 2-3 AUTH_REQUEST, 4-5 AUTH_SUCCESS.
HelloSent == 1
ChallengeSent == 3
SuccessSent == 5

Handshaking ==
    {"recvHello", "sendHello", "sendChallengeHeader", "sendChallengeBody",
     "recvResponse", "sendSuccessHeader", "sendSuccessBody", "add", "fail"}

Init ==
    /\ alive = TRUE
    /\ mpc = "start"
    /\ running = FALSE /\ listenVar = FALSE /\ listenOpen = FALSE
    /\ udpVar = FALSE /\ udpOpen = FALSE
    /\ tunOpen = FALSE /\ mutexLive = FALSE
    /\ lpc = "none" /\ cur = NULL
    /\ upc = "none" /\ held = NULL
    /\ tpc = "none"
    /\ table = {}
    /\ mem = [c \in Clients |-> "none"]
    /\ state = [c \in Clients |-> "DISCONNECTED"]
    /\ peerKnown = [c \in Clients |-> FALSE]
    /\ fd = [c \in Clients |-> "none"]
    /\ sent = [c \in Clients |-> 0]
    /\ inbox = [c \in Clients |-> NULL]
    /\ peer = [c \in Clients |-> "up"]
    /\ cpc = [c \in Clients |-> "off"]
    /\ dgrams = {}

------------------------------------------------------------------------------
(* The main thread: startup. *)

Main(from, to) == alive /\ mpc = from /\ mpc' = to

othersIdle == UNCHANGED <<alive, listenerVars, udpVars, tpc, sessionVars, tcpVars, clientVars>>

\* server_init and server_start: socket, bind, listen, running = 1.
StartListening ==
    /\ Main("start", "initManager")
    /\ running' = TRUE /\ listenVar' = TRUE /\ listenOpen' = TRUE
    /\ UNCHANGED <<udpVar, udpOpen, tunOpen, mutexLive>>
    /\ othersIdle

\* One of the three failed: server_cleanup has closed the socket again.
StartFails ==
    /\ Main("start", "done")
    /\ UNCHANGED <<running, listenVar, listenOpen, udpVar, udpOpen, tunOpen, mutexLive>>
    /\ othersIdle

InitManager ==
    /\ Main("initManager", "bindUdp")
    /\ mutexLive' = TRUE /\ tunOpen' = TRUE
    /\ UNCHANGED <<running, listenVar, listenOpen, udpVar, udpOpen>>
    /\ othersIdle

\* server_shutdown and pthread_mutex_destroy on the two failure paths of
\* start_server_environment: no identity or no TUN device, no UDP port.
SetupFails ==
    /\ mpc \in {"initManager", "bindUdp"}
    /\ Main(mpc, "done")
    /\ running' = FALSE /\ listenVar' = FALSE /\ listenOpen' = FALSE
    /\ mutexLive' = FALSE
    /\ fd' = [c \in Clients |-> IF fd[c] = "queued" THEN "closed" ELSE fd[c]]
    /\ UNCHANGED <<udpVar, udpOpen, tunOpen, alive, listenerVars, udpVars, tpc,
                   sessionVars, sent, inbox, peer, clientVars>>

\* session_manager_udp_bind, then the three pthread_create.  The UDP and the TUN
\* thread begin by allocating their buffers and end if they cannot.
BindUdpAndSpawn ==
    /\ Main("bindUdp", "shell")
    /\ udpVar' = TRUE /\ udpOpen' = TRUE
    /\ lpc' = "select" /\ upc' \in {"select", "exited"} /\ tpc' \in {"select", "exited"}
    /\ UNCHANGED <<running, listenVar, listenOpen, tunOpen, mutexLive, alive, cur, held,
                   sessionVars, tcpVars, clientVars>>

------------------------------------------------------------------------------
(* The main thread: shutdown. *)

\* The shell loop ends, at the shutdown command or at the end of its input.
LeaveShell ==
    /\ Main("shell", "closeListen")
    /\ UNCHANGED <<running, listenVar, listenOpen, udpVar, udpOpen, tunOpen, mutexLive>>
    /\ othersIdle

\* server_cleanup: close, socket = -1, running = 0, each visible to the
\* listener.  Closing refuses the connections nobody has accepted.
CloseListen ==
    /\ Main("closeListen", "forgetListen")
    /\ listenOpen' = FALSE
    /\ fd' = [c \in Clients |-> IF fd[c] = "queued" THEN "closed" ELSE fd[c]]
    /\ UNCHANGED <<running, listenVar, udpVar, udpOpen, tunOpen, mutexLive, alive,
                   listenerVars, udpVars, tpc, sessionVars, sent, inbox, peer, clientVars>>

ForgetListen ==
    /\ Main("forgetListen", "stopRunning")
    /\ listenVar' = FALSE
    /\ UNCHANGED <<running, listenOpen, udpVar, udpOpen, tunOpen, mutexLive>>
    /\ othersIdle

StopRunning ==
    /\ Main("stopRunning", "joinListener")
    /\ running' = FALSE
    /\ UNCHANGED <<listenVar, listenOpen, udpVar, udpOpen, tunOpen, mutexLive>>
    /\ othersIdle

\* Mutant: pthread_join(listener_thread) is missing.
JoinListenerSkipped ==
    /\ Main("joinListener", "closeUdp")
    /\ UNCHANGED <<running, listenVar, listenOpen, udpVar, udpOpen, tunOpen, mutexLive>>
    /\ othersIdle

JoinListener ==
    /\ Main("joinListener", "closeUdp")
    /\ lpc = "exited"
    /\ UNCHANGED <<running, listenVar, listenOpen, udpVar, udpOpen, tunOpen, mutexLive>>
    /\ othersIdle

CloseUdp ==
    /\ Main("closeUdp", "forgetUdp")
    /\ udpOpen' = FALSE
    /\ UNCHANGED <<running, listenVar, listenOpen, udpVar, tunOpen, mutexLive>>
    /\ othersIdle

\* Mutant: udp_socket is closed but not set to -1.
ForgetUdpSkipped ==
    /\ Main("forgetUdp", "joinUdp")
    /\ UNCHANGED <<running, listenVar, listenOpen, udpVar, udpOpen, tunOpen, mutexLive>>
    /\ othersIdle

ForgetUdp ==
    /\ Main("forgetUdp", "joinUdp")
    /\ udpVar' = FALSE
    /\ UNCHANGED <<running, listenVar, listenOpen, udpOpen, tunOpen, mutexLive>>
    /\ othersIdle

\* Mutant: pthread_join(udp_thread) is missing.
JoinUdpSkipped ==
    /\ Main("joinUdp", "joinTun")
    /\ UNCHANGED <<running, listenVar, listenOpen, udpVar, udpOpen, tunOpen, mutexLive>>
    /\ othersIdle

JoinUdp ==
    /\ Main("joinUdp", "joinTun")
    /\ upc = "exited"
    /\ UNCHANGED <<running, listenVar, listenOpen, udpVar, udpOpen, tunOpen, mutexLive>>
    /\ othersIdle

\* Mutant: pthread_join(tun_sender_thread) is missing.
JoinTunSkipped ==
    /\ Main("joinTun", "sweep")
    /\ UNCHANGED <<running, listenVar, listenOpen, udpVar, udpOpen, tunOpen, mutexLive>>
    /\ othersIdle

JoinTun ==
    /\ Main("joinTun", "sweep")
    /\ tpc = "exited"
    /\ UNCHANGED <<running, listenVar, listenOpen, udpVar, udpOpen, tunOpen, mutexLive>>
    /\ othersIdle

------------------------------------------------------------------------------
(* send(), and what it does when the client has gone.                      *)
(*   "up"       the client's end is open                                   *)
(*   "fin"      the client closed it: a send still succeeds                *)
(*   "finSent"  and makes the client's host answer with a reset            *)
(*   "broken"   which has arrived: a send raises SIGPIPE                   *)
(*   "reset"    the client closed with data unread: the next call fails    *)

SendWorks(c) == peer[c] \in {"up", "fin", "finSent"}
Raises(c) == peer[c] = "broken"

AfterSend(c) ==
    /\ sent' = [sent EXCEPT ![c] = @ + 1]
    /\ peer' = [peer EXCEPT ![c] = IF @ = "fin" THEN "finSent" ELSE @]

\* No handler is installed and no send() passes MSG_NOSIGNAL.
KilledBySigpipe ==
    /\ alive' = FALSE
    /\ UNCHANGED <<mainVars, listenerVars, udpVars, tpc, sessionVars, tcpVars, clientVars>>

\* disconnect_all meets one session: the notice, session_destroy, free.  The
\* result of packet_send is ignored.
SweepSession(c) ==
    /\ alive /\ mpc = "sweep"
    /\ c \in table
    /\ IF Raises(c)
       THEN KilledBySigpipe
       ELSE /\ IF SendWorks(c) THEN AfterSend(c) ELSE UNCHANGED <<sent, peer>>
            /\ table' = table \ {c}
            /\ mem' = [mem EXCEPT ![c] = "freed"]
            /\ fd' = [fd EXCEPT ![c] = "closed"]
            /\ state' = [state EXCEPT ![c] = "DISCONNECTED"]
            /\ peerKnown' = [peerKnown EXCEPT ![c] = FALSE]
            /\ UNCHANGED <<alive, mainVars, listenerVars, udpVars, tpc, inbox, clientVars>>

\* The sweep is over: unlock, tun_close, and pthread_mutex_destroy.
EndSweep ==
    /\ table = {}
    /\ Main("sweep", "done")
    /\ tunOpen' = FALSE /\ mutexLive' = FALSE
    /\ UNCHANGED <<running, listenVar, listenOpen, udpVar, udpOpen>>
    /\ othersIdle

MainStep ==
    \/ StartListening \/ StartFails \/ InitManager \/ SetupFails \/ BindUdpAndSpawn
    \/ CloseListen \/ ForgetListen \/ StopRunning \/ JoinListener
    \/ CloseUdp \/ ForgetUdp \/ JoinUdp \/ JoinTun
    \/ (\E c \in Clients : SweepSession(c)) \/ EndSweep

------------------------------------------------------------------------------
(* The listener thread. *)

Listener(from, to) == alive /\ lpc = from /\ lpc' = to

listenerOnly == UNCHANGED <<alive, mainVars, cur, udpVars, tpc, sessionVars, tcpVars, clientVars>>

Queued == {c \in Clients : fd[c] = "queued"}

\* The test of the loop, select on server->socket, and the second test of running
\* before the result is looked at.  A timeout, or a socket that is -1 by now (the
\* FD_SET has no effect in this build), leads back to the loop and changes
\* nothing; a descriptor closed and not yet forgotten is an error.
SelectListen ==
    /\ \/ running /\ Queued # {} /\ Listener("select", "accept")
       \/ running /\ listenVar /\ ~listenOpen /\ Listener("select", "exited")
       \/ ~running /\ Listener("select", "exited")
    /\ listenerOnly

\* The connections the server has accepted and not closed.
Open == {c \in Clients : fd[c] = "open"}

\* accept takes a connection off the queue when a descriptor is left for it.
CanTake(c) == c \in Queued /\ Cardinality(Open) < MaxOpen

\* accept, malloc and session_create.
Accept(c) ==
    /\ Listener("accept", "recvHello")
    /\ CanTake(c)
    /\ fd' = [fd EXCEPT ![c] = "open"]
    /\ cur' = c
    /\ mem' = [mem EXCEPT ![c] = "live"]
    /\ state' = [state EXCEPT ![c] = "CONNECTING"]
    /\ UNCHANGED <<alive, mainVars, udpVars, tpc, table, peerKnown, sent, inbox, peer, clientVars>>

\* malloc returns NULL: server_listener closes the socket.
AcceptWithoutMemory(c) ==
    /\ Listener("accept", "select")
    /\ CanTake(c)
    /\ fd' = [fd EXCEPT ![c] = "closed"]
    /\ UNCHANGED <<alive, mainVars, cur, udpVars, tpc, sessionVars, sent, inbox, peer, clientVars>>

\* Mutant: the loop ends when accept fails.
AcceptFailsForGood ==
    /\ Listener("accept", "exited")
    /\ listenerOnly

\* accept returns -1: the main thread closed the socket after select reported it
\* ready, no descriptor is left, or the host lacks memory or descriptors just now.
\* The connection stays in the queue and the loop goes round.
AcceptFails ==
    /\ Listener("accept", "select")
    /\ listenerOnly

\* Mutant: a packet that is not taken is skipped and the next one awaited.
ReceiveSkipping(from, p, to) ==
    /\ lpc = from
    /\ \/ inbox[cur] = p /\ Listener(from, to)
       \/ inbox[cur] \notin {p, NULL} /\ Listener(from, from)
       \/ inbox[cur] = NULL /\ peer[cur] # "up" /\ Listener(from, "fail")
    /\ inbox' = [inbox EXCEPT ![cur] = NULL]
    /\ UNCHANGED <<alive, mainVars, cur, udpVars, tpc, sessionVars, fd, sent, peer, clientVars>>

\* packet_receive of the packet p on the connection in hand.  What the client
\* sent before it closed is still there; with nothing there the call blocks,
\* for as long as the client's end stays open.  The payload of a response may find
\* no memory (packet.c:94-98).
Receive(from, p, to) ==
    /\ lpc = from
    /\ \/ inbox[cur] = p /\ Listener(from, to)
       \/ inbox[cur] \notin {p, NULL} /\ Listener(from, "fail")
       \/ inbox[cur] = "response" /\ Listener(from, "fail")
       \/ inbox[cur] = NULL /\ peer[cur] # "up" /\ Listener(from, "fail")
    /\ inbox' = [inbox EXCEPT ![cur] = NULL]
    /\ UNCHANGED <<alive, mainVars, cur, udpVars, tpc, sessionVars, fd, sent, peer, clientVars>>

\* One send() on the connection in hand; st is session->state afterwards.
Send(from, to, st) ==
    /\ lpc = from
    /\ \/ /\ SendWorks(cur) /\ Listener(from, to)
          /\ AfterSend(cur)
          /\ state' = [state EXCEPT ![cur] = st]
          /\ UNCHANGED <<alive, mainVars, cur, udpVars, tpc, table, mem, peerKnown, fd,
                         inbox, clientVars>>
       \/ /\ peer[cur] = "reset" /\ Listener(from, "fail")
          /\ listenerOnly
       \/ /\ Raises(cur) /\ alive
          /\ KilledBySigpipe

ReceiveHello == Receive("recvHello", "hello", "sendHello")
SendHello == Send("sendHello", "sendChallengeHeader", "WAIT_AUTH")
SendChallengeHeader == Send("sendChallengeHeader", "sendChallengeBody", "WAIT_AUTH")
SendChallengeBody == Send("sendChallengeBody", "recvResponse", "WAIT_AUTH")
\* session_verify_client accepts the signature of the response it asked for.
ReceiveResponse == Receive("recvResponse", "response", "sendSuccessHeader")
SendSuccessHeader == Send("sendSuccessHeader", "sendSuccessBody", "WAIT_AUTH")
SendSuccessBody == Send("sendSuccessBody", "add", "ESTABLISHED")

\* Mutant: the scan for a free slot stops one slot early.
AddSessionOneShort ==
    /\ \/ /\ Cardinality(table) + 1 < Capacity
          /\ table' = table \cup {cur}
          /\ cur' = NULL
          /\ Listener("add", "select")
       \/ /\ Cardinality(table) + 1 >= Capacity
          /\ UNCHANGED <<table, cur>>
          /\ Listener("add", "fail")
    /\ UNCHANGED <<alive, mainVars, udpVars, tpc, mem, state, peerKnown, tcpVars, clientVars>>

AddSession ==
    /\ \/ /\ Cardinality(table) < Capacity
          /\ table' = table \cup {cur}
          /\ cur' = NULL
          /\ Listener("add", "select")
       \/ /\ Cardinality(table) >= Capacity
          /\ UNCHANGED <<table, cur>>
          /\ Listener("add", "fail")
    /\ UNCHANGED <<alive, mainVars, udpVars, tpc, mem, state, peerKnown, tcpVars, clientVars>>

\* Mutant: the session is freed but its socket is not closed.
DropSessionLeaks ==
    /\ Listener("fail", "select")
    /\ mem' = [mem EXCEPT ![cur] = "freed"]
    /\ state' = [state EXCEPT ![cur] = "DISCONNECTED"]
    /\ cur' = NULL
    /\ UNCHANGED <<alive, mainVars, udpVars, tpc, table, peerKnown, tcpVars, clientVars>>

\* session_manager_connect returns NULL: session_destroy, free, and the second
\* close of server_listener, which finds the descriptor closed.
DropSession ==
    /\ Listener("fail", "select")
    /\ mem' = [mem EXCEPT ![cur] = "freed"]
    /\ fd' = [fd EXCEPT ![cur] = "closed"]
    /\ state' = [state EXCEPT ![cur] = "DISCONNECTED"]
    /\ cur' = NULL
    /\ UNCHANGED <<alive, mainVars, udpVars, tpc, table, peerKnown, sent, inbox, peer, clientVars>>

ListenerStep ==
    \/ SelectListen
    \/ (\E c \in Clients : Accept(c) \/ AcceptWithoutMemory(c)) \/ AcceptFails
    \/ ReceiveHello \/ SendHello
    \/ SendChallengeHeader \/ SendChallengeBody \/ ReceiveResponse
    \/ SendSuccessHeader \/ SendSuccessBody
    \/ AddSession \/ DropSession

------------------------------------------------------------------------------
(* The UDP listener. *)

Udp(from, to) == alive /\ upc = from /\ upc' = to

udpOnly == UNCHANGED <<alive, mainVars, listenerVars, held, tpc, sessionVars, tcpVars, clientVars>>

\* The test of the loop, select, and the second test of udp_socket.  A timeout
\* and an error are both "continue" and change nothing.
SelectUdp ==
    /\ \/ udpVar /\ udpOpen /\ dgrams # {} /\ Udp("select", "recv")
       \/ ~udpVar /\ Udp("select", "exited")
    /\ udpOnly

\* recvfrom, tunnel_packet_peek_session_id and session_manager_get.  The
\* pointer get returns outlives the lock it was read under.
ReceiveDatagram(c) ==
    /\ udpOpen /\ udpVar
    /\ c \in dgrams
    /\ dgrams' = dgrams \ {c}
    /\ IF c \in table
       THEN Udp("recv", "learn") /\ held' = c
       ELSE Udp("recv", "select") /\ UNCHANGED held
    /\ UNCHANGED <<alive, mainVars, listenerVars, tpc, sessionVars, tcpVars, cpc>>

\* The main thread closed the socket after select reported it ready.
ReceiveFails ==
    /\ ~(udpOpen /\ udpVar)
    /\ Udp("recv", "select")
    /\ udpOnly

LearnPeer ==
    /\ Udp("learn", "decode")
    /\ peerKnown' = [peerKnown EXCEPT ![held] = TRUE]
    /\ UNCHANGED <<alive, mainVars, listenerVars, held, tpc, table, mem, state, tcpVars, clientVars>>

\* tunnel_packet_decode with the session's keys, no lock held; a datagram that
\* does not decode or decompress is dropped.
DecodeDatagram ==
    /\ Udp("decode", "write") \/ Udp("decode", "select")
    /\ held' = NULL
    /\ UNCHANGED <<alive, mainVars, listenerVars, tpc, sessionVars, tcpVars, clientVars>>

WriteTun ==
    /\ Udp("write", "select")
    /\ udpOnly

UdpStep ==
    \/ SelectUdp \/ (\E c \in Clients : ReceiveDatagram(c)) \/ ReceiveFails
    \/ LearnPeer \/ DecodeDatagram \/ WriteTun

------------------------------------------------------------------------------
(* The TUN sender. *)

Tun(from, to) == alive /\ tpc = from /\ tpc' = to

tunOnly == UNCHANGED <<alive, mainVars, listenerVars, udpVars, sessionVars, tcpVars, clientVars>>

\* The test of the loop, select on the TUN device, and the second test of
\* udp_socket; a timeout leads back to the loop and changes nothing.
SelectTun ==
    /\ \/ udpVar /\ Tun("select", "read")
       \/ ~udpVar /\ Tun("select", "exited")
    /\ tunOnly

\* tun_read, the lookup and the encryption under manager->lock, and a sendto on
\* manager->udp_socket, whatever it is by now, whose result is ignored.  Which
\* session the packet goes to is Tunnel's matter.
ReadTun ==
    /\ Tun("read", "select")
    /\ tunOnly

TunStep == SelectTun \/ ReadTun

------------------------------------------------------------------------------
(* The clients' ends. *)

serverVars == <<alive, mainVars, listenerVars, udpVars, tpc, sessionVars>>

\* Nothing will come any more from the server.
Gone(c) == fd[c] = "closed" \/ ~alive \/ mpc = "done"

\* How many of the server's sends the client has consumed.
Consumed(c) ==
    CASE cpc[c] = "waitChallenge" -> HelloSent
      [] cpc[c] = "waitSuccess" -> ChallengeSent
      [] cpc[c] = "established" -> SuccessSent
      [] OTHER -> 0

ClientConnect(c) ==
    /\ cpc[c] = "off" /\ listenOpen /\ alive
    /\ cpc' = [cpc EXCEPT ![c] = "hello"]
    /\ fd' = [fd EXCEPT ![c] = "queued"]
    /\ UNCHANGED <<serverVars, sent, inbox, peer, dgrams>>

\* The packet a client sends: the right one, or one the server will not take
\* (another protocol version, a signature over something else).
ClientSends(c, p) ==
    /\ inbox' = [inbox EXCEPT ![c] = p]
    /\ UNCHANGED <<serverVars, fd, sent, peer, dgrams>>

ClientHello(c) ==
    /\ cpc[c] = "hello" /\ ~Gone(c)
    /\ cpc' = [cpc EXCEPT ![c] = "waitHello"]
    /\ ClientSends(c, "hello") \/ ClientSends(c, "bad")

ClientTakesHello(c) ==
    /\ cpc[c] = "waitHello" /\ sent[c] >= HelloSent
    /\ cpc' = [cpc EXCEPT ![c] = "waitChallenge"]
    /\ UNCHANGED <<serverVars, tcpVars, dgrams>>

ClientResponds(c) ==
    /\ cpc[c] = "waitChallenge" /\ sent[c] >= ChallengeSent /\ ~Gone(c)
    /\ cpc' = [cpc EXCEPT ![c] = "waitSuccess"]
    /\ ClientSends(c, "response") \/ ClientSends(c, "bad")

ClientEstablished(c) ==
    /\ cpc[c] = "waitSuccess" /\ sent[c] >= SuccessSent
    /\ cpc' = [cpc EXCEPT ![c] = "established"]
    /\ UNCHANGED <<serverVars, tcpVars, dgrams>>

\* recv returns 0 or an error, or a send fails: the client leaves.
ClientGivesUp(c) ==
    /\ Gone(c)
    /\ \/ cpc[c] \in {"hello", "established"}
       \/ cpc[c] = "waitHello" /\ sent[c] < HelloSent
       \/ cpc[c] = "waitChallenge"
       \/ cpc[c] = "waitSuccess" /\ sent[c] < SuccessSent
    /\ cpc' = [cpc EXCEPT ![c] = "closed"]
    /\ UNCHANGED <<serverVars, tcpVars, dgrams>>

\* The client process disconnects, fails or dies: its kernel closes the socket,
\* with a reset if something the server sent was never read.
ClientCloses(c) ==
    /\ cpc[c] \notin {"off", "closed"} /\ ~Gone(c)
    /\ cpc' = [cpc EXCEPT ![c] = "closed"]
    /\ \E p \in IF sent[c] > Consumed(c) THEN {"reset", "finSent"} ELSE {"fin"} :
          peer' = [peer EXCEPT ![c] = p]
    /\ UNCHANGED <<serverVars, fd, sent, inbox, dgrams>>

\* The reset the server's send provoked arrives.
ResetArrives(c) ==
    /\ peer[c] = "finSent"
    /\ peer' = [peer EXCEPT ![c] = "broken"]
    /\ UNCHANGED <<serverVars, fd, sent, inbox, clientVars>>

ClientDatagram(c) ==
    /\ cpc[c] = "established" /\ udpOpen /\ alive
    /\ dgrams' = dgrams \cup {c}
    /\ UNCHANGED <<serverVars, tcpVars, cpc>>

ClientStep(c) ==
    \/ ClientHello(c) \/ ClientTakesHello(c) \/ ClientResponds(c)
    \/ ClientEstablished(c) \/ ClientGivesUp(c)

\* What the environment may do and need not.
Environment ==
    \/ LeaveShell
    \/ \E c \in Clients :
          ClientConnect(c) \/ ClientCloses(c) \/ ResetArrives(c) \/ ClientDatagram(c)

\* The process has ended: nothing is left to happen but the clients leaving.
Ended == ~alive \/ mpc = "done"

Next ==
    \/ MainStep
    \/ ListenerStep
    \/ UdpStep
    \/ TunStep
    \/ \E c \in Clients : ClientStep(c)
    \/ Environment

Spec == Init /\ [][Next]_vars

\* Each server thread is scheduled; nothing is assumed of the clients.
ServerFairness ==
    /\ WF_vars(MainStep) /\ WF_vars(ListenerStep)
    /\ WF_vars(UdpStep) /\ WF_vars(TunStep)

\* Besides, a client that has to take the next step of the handshake takes it.
ClientFairness == \A c \in Clients : WF_vars(ClientStep(c))

\* What the host lacks at one accept (memory, descriptors of other processes) it
\* does not lack at every one: while descriptors of the server's own are left, the
\* loop that keeps calling accept gets a connection in the end.
AcceptFairness == SF_vars(\E c \in Clients : Accept(c) \/ AcceptWithoutMemory(c))

FairServerSpec == Spec /\ ServerFairness
FairSpec == FairServerSpec /\ ClientFairness /\ AcceptFairness
------------------------------------------------------------------------------
(* Properties. *)

FlagsOK ==
    /\ alive \in BOOLEAN /\ running \in BOOLEAN
    /\ listenVar \in BOOLEAN /\ listenOpen \in BOOLEAN
    /\ udpVar \in BOOLEAN /\ udpOpen \in BOOLEAN
    /\ tunOpen \in BOOLEAN /\ mutexLive \in BOOLEAN

\* The shape of the state of the process and of the connections.
TypeOK ==
    /\ FlagsOK
    /\ mpc \in {"start", "initManager", "bindUdp", "shell", "closeListen", "forgetListen",
                "stopRunning", "joinListener", "closeUdp", "forgetUdp", "joinUdp",
                "joinTun", "sweep", "done"}
    /\ lpc \in Handshaking \cup {"none", "select", "accept", "exited"}
    /\ cur \in Clients \cup {NULL}
    /\ upc \in {"none", "select", "recv", "learn", "decode", "write", "exited"}
    /\ held \in Clients \cup {NULL}
    /\ tpc \in {"none", "select", "read", "exited"}
    /\ table \in SUBSET Clients
    /\ mem \in [Clients -> {"none", "live", "freed"}]
    /\ state \in [Clients -> {"DISCONNECTED", "CONNECTING", "WAIT_AUTH", "ESTABLISHED"}]
    /\ peerKnown \in [Clients -> BOOLEAN]
    /\ fd \in [Clients -> {"none", "queued", "open", "closed"}]
    /\ sent \in [Clients -> Nat]
    /\ inbox \in [Clients -> {NULL, "hello", "response", "bad"}]
    /\ peer \in [Clients -> {"up", "fin", "finSent", "broken", "reset"}]
    /\ cpc \in [Clients -> {"off", "hello", "waitHello", "waitChallenge", "waitSuccess",
                            "established", "closed"}]
    /\ dgrams \in SUBSET Clients

\* The threads are created together, and each join of the main thread leaves
\* one of them behind.
ThreadsFollowMain ==
    /\ (lpc = "none" <=> upc = "none") /\ (lpc = "none" <=> tpc = "none")
    /\ mpc \in {"start", "initManager", "bindUdp"} => lpc = "none"
    /\ lpc = "none" => mpc \in {"start", "initManager", "bindUdp", "done"}
    /\ mpc \in {"closeUdp", "forgetUdp", "joinUdp", "joinTun", "sweep"} => lpc = "exited"
    /\ mpc \in {"joinTun", "sweep"} => upc = "exited"
    /\ mpc = "sweep" => tpc = "exited"
    /\ mpc = "done" /\ lpc # "none" => lpc = "exited" /\ upc = "exited" /\ tpc = "exited"

\* manager->lock and manager->tun exist from before the threads to after them.
ResourcesOutliveThreads ==
    mpc \notin {"start", "initManager", "done"} => mutexLive /\ tunOpen

\* A session belongs to the handshake in progress or to the table, never both.
OneOwner ==
    /\ cur # NULL <=> lpc \in Handshaking
    /\ cur \notin table
    /\ lpc = "none" => table = {}
    /\ \A c \in Clients : mem[c] = "live" <=> c = cur \/ c \in table

\* What the UDP thread got from session_manager_get is still in the table.
HeldIsRegistered == upc \in {"learn", "decode"} => held \in table

\* No thread is about to touch a SESSION_T that has been freed: the pointer
\* session_manager_get returned outside the lock (session_manager.c:212-223),
\* the sessions the sender scans, the one in its handshake.
NoUseAfterFree ==
    /\ upc \in {"learn", "decode"} => mem[held] = "live"
    /\ cur # NULL => mem[cur] = "live"
    /\ \A c \in table : mem[c] = "live"

\* No thread is about to lock the mutex after pthread_mutex_destroy or to read
\* or write the TUN device after tun_close (server_env.c:160-169).
NoUseAfterTeardown ==
    /\ upc \in {"recv", "learn"} \/ tpc = "read" \/ lpc = "add" => mutexLive
    /\ upc = "write" \/ tpc \in {"select", "read"} => tunOpen

\* Every connection the server holds open is in its handshake or in the table:
\* no failure path of session_manager_connect leaks one or closes one in use.
SocketsAccounted ==
    \A c \in Clients :
        /\ fd[c] = "open" <=> c = cur \/ c \in table
        /\ cpc[c] = "off" => fd[c] = "none"

\* Only sessions that completed the handshake reach the table, and they stay
\* ESTABLISHED there.
RegisteredVerified ==
    /\ \A c \in table : state[c] = "ESTABLISHED"
    /\ lpc = "add" => state[cur] = "ESTABLISHED"

\* What the main thread has closed stays closed, and a closed listening socket
\* has no connections waiting.
ShutdownProgress ==
    /\ mpc = "start" => ~listenOpen /\ ~mutexLive
    /\ mpc \in {"start", "initManager", "bindUdp"} => ~udpOpen
    /\ ~listenOpen => Queued = {}
    /\ mpc \in {"forgetListen", "stopRunning", "joinListener", "closeUdp", "forgetUdp",
                "joinUdp", "joinTun", "sweep", "done"} => ~listenOpen
    /\ mpc \in {"forgetUdp", "joinUdp", "joinTun", "sweep", "done"} => ~udpOpen
    /\ mpc = "done" => ~mutexLive /\ table = {}
    /\ mpc = "done" /\ lpc # "none" => ~tunOpen

\* The inductive invariant of the process.
IInv ==
    /\ TypeOK
    /\ ThreadsFollowMain
    /\ ResourcesOutliveThreads
    /\ OneOwner
    /\ HeldIsRegistered
    /\ SocketsAccounted
    /\ RegisteredVerified
    /\ ShutdownProgress

\* A client that was told AUTH_SUCCESS is dropped only because the table is full
\* or the server is going down (session.c:183 comes before session_manager_add).
SuccessKept ==
    \A c \in Clients :
        cpc[c] = "established" /\ mem[c] = "freed" /\ mpc = "shell"
            => Cardinality(table) = Capacity

\* When start_server_environment returns from its shell nothing is left open,
\* allocated or running, whatever the clients and the other threads were at.
CleanShutdown ==
    mpc = "done" /\ lpc # "none" =>
        /\ ~listenOpen /\ ~udpOpen /\ ~tunOpen /\ ~mutexLive
        /\ \A c \in Clients : fd[c] \in {"none", "closed"} /\ mem[c] # "live"

\* The next packet of the handshake is the client's to send, and it has what it
\* needs to send it.
ClientToMove(c) ==
    \/ cpc[c] = "hello"
    \/ cpc[c] = "waitHello" /\ sent[c] >= HelloSent
    \/ cpc[c] = "waitChallenge" /\ sent[c] >= ChallengeSent

\* The thread that does every handshake, and that the shutdown joins, blocks in accept
\* only while a connection waits for it, and in packet_receive only for a client whose
\* move it is: no order of packets, failed handshakes and shutdown leaves server and
\* client waiting for each other (session.c:111-187, server_env.c:71-86).
ListenerWaitsForClientOnly ==
    alive =>
        /\ lpc = "accept" => Queued # {} \/ ~listenOpen
        /\ lpc \in {"recvHello", "recvResponse"} /\ inbox[cur] = NULL /\ peer[cur] = "up"
              => ClientToMove(cur)

\* Once the main thread has joined the listener no session appears: the sweep
\* sees them all.
NoLateRegistration ==
    [][(mpc \in {"closeUdp", "forgetUdp", "joinUdp", "joinTun", "sweep", "done"})
           => (table' \subseteq table)]_vars

\* The server goes on whatever its clients do: a failed send makes packet_send
\* return 1 ("Failed to send packet, aborting...", src/shared/packet.c:45).
ServerSurvives == alive

\* The shutdown command ends the server (src/main/server.c:24, "Stop the Server,
\* disconnecting all clients if needed").
ShutdownTerminates == mpc = "closeListen" ~> Ended

\* Every descriptor is a registered session's, and none of those is ever released
\* before the shutdown.
OutOfDescriptors == Open \subseteq table /\ Cardinality(table) >= MaxOpen

\* Every client whose connection the kernel took is registered or turned away,
\* though one thread does all the handshakes and accept may fail, as long as the
\* registered sessions have not taken every descriptor: then it stays in the queue
\* and server_listener loops on select and accept (server_env.c:71-74).
ClientsAnswered ==
    \A c \in Clients :
        fd[c] = "queued" ~> (fd[c] = "closed" \/ c \in table \/ Ended \/ OutOfDescriptors)
==============================================================================
