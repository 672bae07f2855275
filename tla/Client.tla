-------------------------------- MODULE Client --------------------------------
(***************************************************************************)
(* The client process once it runs its environment: the main thread with   *)
(* its shell, the receiver that watches the TCP connection, the TUN sender *)
(* and the UDP receiver, all sharing one SESSION_T without a lock.  Both   *)
(* the main thread (disconnect) and the receiver (the server has gone) may *)
(* take the session down, even at the same time, by session_destroy, whose *)
(* loads, stores and closes are steps of their own here.                   *)
(***************************************************************************)
EXTENDS Naturals

\* The two threads that may call session_destroy.
Destroyers == {"main", "receiver"}

\* The parts of SESSION_T that memset zeroes, in an order it does not promise.
Parts == {"crypto", "udp", "state", "socket"}

VARIABLES
    mpc,         \* where the main thread is
    rpc,         \* where the receiver is
    spc,         \* where the TUN sender is
    sealing,     \* what the TUN sender sealed its packet with
    upc,         \* where the UDP receiver is
    dpc,         \* destroyer -> where it is in session_destroy
    unwiped,     \* destroyer -> the parts its memset has not reached
    state,       \* session.state
    socket,      \* session.socket: "tcp", "zero" (0) or "none" (-1)
    udpSocket,   \* session.udp.socket: "udp", "zero" or "none"
    cryptoLive,  \* session.crypto holds the handshake's keys and counter
    connSocket,  \* connection.socket: "tcp" or "none"
    connState,   \* connection.state
    shouldExit,  \* should_exit
    opened,      \* the open descriptors among "stdin", "tcp", "udp"
    serverGone,  \* a DISCONNECT packet or the end of the stream has arrived
    wire         \* how the datagrams that left the host were sealed

sessionVars == <<state, socket, udpSocket, cryptoLive>>
connVars == <<connSocket, connState>>
senderVars == <<spc, sealing, wire>>
vars == <<mpc, rpc, senderVars, upc, dpc, unwiped, sessionVars, connVars, shouldExit,
          opened, serverGone>>

Alive == mpc # "exited"

Init ==
    /\ mpc = "start" /\ rpc = "none" /\ spc = "none" /\ upc = "none"
    /\ sealing = [key |-> TRUE, nonce |-> TRUE]
    /\ dpc = [t \in Destroyers |-> "none"]
    /\ unwiped = [t \in Destroyers |-> Parts]
    /\ state = "DISCONNECTED" /\ socket = "none" /\ udpSocket = "none"
    /\ cryptoLive = FALSE
    /\ connSocket = "none" /\ connState = "DISCONNECTED"
    /\ shouldExit = FALSE
    /\ opened = {"stdin"}
    /\ serverGone = FALSE
    /\ wire = {}

------------------------------------------------------------------------------
(* Startup: client_listener runs to its end before anything else starts. *)

\* No identity, no TUN device or no connection; or, with the connection open, a
\* failed handshake or no UDP socket.  start_client_environment returns, the
\* process ends, and nobody reads the session again.
StartFails ==
    /\ mpc = "start"
    /\ mpc' = "exited"
    /\ \/ UNCHANGED <<connVars, opened>>
       \/ /\ connSocket' = "tcp" /\ connState' = "CONNECTED"
          /\ opened' = {"stdin", "tcp"}
    /\ UNCHANGED <<rpc, senderVars, upc, dpc, unwiped, sessionVars, shouldExit, serverGone>>

\* The connection, the handshake and the UDP socket succeed, and the three
\* threads start.
Start ==
    /\ mpc = "start"
    /\ mpc' = "shell" /\ rpc' = "check" /\ spc' = "select" /\ upc' = "select"
    /\ state' = "ESTABLISHED" /\ socket' = "tcp" /\ udpSocket' = "udp"
    /\ cryptoLive' = TRUE
    /\ connSocket' = "tcp" /\ connState' = "CONNECTED"
    /\ opened' = {"stdin", "tcp", "udp"}
    /\ UNCHANGED <<sealing, wire, dpc, unwiped, shouldExit, serverGone>>

------------------------------------------------------------------------------
(* session_destroy, run by thread t. *)

DestroyStep(t, from, to) ==
    /\ Alive
    /\ dpc[t] = from
    /\ dpc' = [dpc EXCEPT ![t] = to]

othersUntouched ==
    UNCHANGED <<mpc, rpc, senderVars, upc, connVars, shouldExit, serverGone>>

\* close() of the descriptor a variable holds: 0 is the standard input, and -1
\* or a descriptor that is closed already makes close fail.
Descriptor(v) == IF v = "zero" THEN "stdin" ELSE v
Close(v) == opened' = opened \ {Descriptor(v)}

TestTcp(t) ==
    /\ DestroyStep(t, "testTcp", IF socket = "none" THEN "testUdp" ELSE "closeTcp")
    /\ UNCHANGED <<unwiped, sessionVars, opened>>
    /\ othersUntouched

CloseTcp(t) ==
    /\ DestroyStep(t, "closeTcp", "testUdp")
    /\ Close(socket)
    /\ UNCHANGED <<unwiped, sessionVars>>
    /\ othersUntouched

\* Mutant: session_destroy zeroes the session without udp_tunnel_close.
TestUdpSkipped(t) ==
    /\ DestroyStep(t, "testUdp", "wipe")
    /\ UNCHANGED <<unwiped, sessionVars, opened>>
    /\ othersUntouched

TestUdp(t) ==
    /\ DestroyStep(t, "testUdp", IF udpSocket = "none" THEN "forgetUdp" ELSE "closeUdp")
    /\ UNCHANGED <<unwiped, sessionVars, opened>>
    /\ othersUntouched

CloseUdp(t) ==
    /\ DestroyStep(t, "closeUdp", "forgetUdp")
    /\ Close(udpSocket)
    /\ UNCHANGED <<unwiped, sessionVars>>
    /\ othersUntouched

ForgetUdp(t) ==
    /\ DestroyStep(t, "forgetUdp", "wipe")
    /\ udpSocket' = "none"
    /\ UNCHANGED <<unwiped, state, socket, cryptoLive, opened>>
    /\ othersUntouched

\* memset: 0 in the state is SESSION_CONNECTING, in a socket the descriptor 0.
Wipe(t) ==
    /\ DestroyStep(t, "wipe", "wipe")
    /\ \E p \in unwiped[t] :
          /\ unwiped' = [unwiped EXCEPT ![t] = @ \ {p}]
          /\ cryptoLive' = (cryptoLive /\ p # "crypto")
          /\ udpSocket' = IF p = "udp" THEN "zero" ELSE udpSocket
          /\ state' = IF p = "state" THEN "CONNECTING" ELSE state
          /\ socket' = IF p = "socket" THEN "zero" ELSE socket
    /\ UNCHANGED opened
    /\ othersUntouched

ForgetTcp(t) ==
    /\ unwiped[t] = {}
    /\ DestroyStep(t, "wipe", "setState")
    /\ socket' = "none"
    /\ UNCHANGED <<unwiped, state, udpSocket, cryptoLive, opened>>
    /\ othersUntouched

SetState(t) ==
    /\ DestroyStep(t, "setState", "done")
    /\ state' = "DISCONNECTED"
    /\ UNCHANGED <<unwiped, socket, udpSocket, cryptoLive, opened>>
    /\ othersUntouched

Destroy(t) ==
    \/ TestTcp(t) \/ CloseTcp(t) \/ TestUdp(t) \/ CloseUdp(t) \/ ForgetUdp(t)
    \/ Wipe(t) \/ ForgetTcp(t) \/ SetState(t)

------------------------------------------------------------------------------
(* The main thread. *)

Main(from, to) == mpc = from /\ mpc' = to

mainOnly ==
    UNCHANGED <<rpc, senderVars, upc, dpc, unwiped, sessionVars, connVars, shouldExit, opened,
                serverGone>>

\* select reports input and should_exit is not set: fgets is called, and what has
\* come may be a part of a line only.
InputComes ==
    /\ ~shouldExit /\ "stdin" \in opened
    /\ Main("shell", "line")
    /\ mainOnly

\* fgets returns a line: cmd_disconnect's test.
CmdDisconnect ==
    /\ state = "ESTABLISHED"
    /\ Main("line", "destroying")
    /\ dpc' = [dpc EXCEPT !["main"] = "testTcp"]
    /\ UNCHANGED <<rpc, senderVars, upc, unwiped, sessionVars, connVars, shouldExit,
                   opened, serverGone>>

\* Mutant: cmd_disconnect does not set should_exit.
DisconnectedForgotten ==
    /\ dpc["main"] = "done"
    /\ Main("destroying", "shell")
    /\ connSocket' = "none" /\ connState' = "DISCONNECTED"
    /\ UNCHANGED <<rpc, senderVars, upc, dpc, unwiped, sessionVars, shouldExit, opened, serverGone>>

\* The rest of cmd_disconnect; nobody else reads these three while it runs.
Disconnected ==
    /\ dpc["main"] = "done"
    /\ Main("destroying", "leave")
    /\ connSocket' = "none" /\ connState' = "DISCONNECTED"
    /\ shouldExit' = TRUE
    /\ UNCHANGED <<rpc, senderVars, upc, dpc, unwiped, sessionVars, opened, serverGone>>

\* Any other command, or a disconnect that finds the session no longer established.
CmdOther == Main("line", "shell") /\ mainOnly

\* fgets reports the end of the input.
EndOfInput == Main("line", "leave") /\ mainOnly

\* The loop's test, or the one after the select that times out every second.
NoticeExit == shouldExit /\ Main("shell", "leave") /\ mainOnly

\* connection_disconnect, unless the connection is marked DISCONNECTED.
Leave ==
    /\ \/ connState # "DISCONNECTED" /\ Main("leave", "cleanup") /\ connState' = "DISCONNECTING"
       \/ connState = "DISCONNECTED" /\ Main("leave", "exited") /\ UNCHANGED connState
    /\ UNCHANGED <<rpc, senderVars, upc, dpc, unwiped, sessionVars, connSocket, shouldExit,
                   opened, serverGone>>

\* connection_cleanup; then main returns and the process ends with its threads.
Cleanup ==
    /\ Main("cleanup", "exited")
    /\ Close(connSocket)
    /\ connSocket' = "none" /\ connState' = "DISCONNECTED"
    /\ UNCHANGED <<rpc, senderVars, upc, dpc, unwiped, sessionVars, shouldExit, serverGone>>

MainStep == NoticeExit \/ Destroy("main") \/ Disconnected \/ Leave \/ Cleanup

\* What the user does and need not do; whoever types half a line may leave it there.
UserStep == StartFails \/ Start \/ InputComes \/ CmdDisconnect \/ CmdOther \/ EndOfInput

------------------------------------------------------------------------------
(* The receiver. *)

Receiver(from, to) == Alive /\ rpc = from /\ rpc' = to

receiverOnly == UNCHANGED <<mpc, senderVars, upc, sessionVars, opened, serverGone>>

CheckEstablished ==
    /\ Receiver("check", IF state = "ESTABLISHED" THEN "recv" ELSE "final")
    /\ receiverOnly /\ UNCHANGED <<dpc, unwiped, connVars, shouldExit>>

\* recv on session.socket: an error unless it is the open connection.
CallRecv ==
    /\ Receiver("recv", IF socket = "tcp" /\ "tcp" \in opened THEN "blocked" ELSE "final")
    /\ receiverOnly /\ UNCHANGED <<dpc, unwiped, connVars, shouldExit>>

\* A DISCONNECT packet or the end of the stream; closing the descriptor under a
\* blocked recv does not wake it up.
RecvReturns ==
    /\ serverGone
    /\ Receiver("blocked", "final")
    /\ receiverOnly /\ UNCHANGED <<dpc, unwiped, connVars, shouldExit>>

\* Mutant: the connection is marked DISCONNECTED before the session is destroyed.
FinalCheckMarksFirst ==
    /\ \/ /\ state = "ESTABLISHED" /\ Receiver("final", "destroying")
          /\ dpc' = [dpc EXCEPT !["receiver"] = "testTcp"]
          /\ connState' = "DISCONNECTED"
       \/ /\ state # "ESTABLISHED" /\ Receiver("final", "flag")
          /\ UNCHANGED <<dpc, connState>>
    /\ receiverOnly /\ UNCHANGED <<unwiped, connSocket, shouldExit>>

FinalCheck ==
    /\ \/ /\ state = "ESTABLISHED" /\ Receiver("final", "destroying")
          /\ dpc' = [dpc EXCEPT !["receiver"] = "testTcp"]
       \/ /\ state # "ESTABLISHED" /\ Receiver("final", "flag")
          /\ UNCHANGED dpc
    /\ receiverOnly /\ UNCHANGED <<unwiped, connVars, shouldExit>>

ForgetConnSocket ==
    /\ dpc["receiver"] = "done"
    /\ Receiver("destroying", "connState")
    /\ connSocket' = "none"
    /\ receiverOnly /\ UNCHANGED <<dpc, unwiped, connState, shouldExit>>

SetConnState ==
    /\ Receiver("connState", "flag")
    /\ connState' = "DISCONNECTED"
    /\ receiverOnly /\ UNCHANGED <<dpc, unwiped, connSocket, shouldExit>>

\* Mutant: the receiver ends without setting should_exit.
RaiseFlagForgotten ==
    /\ Receiver("flag", "exited")
    /\ receiverOnly /\ UNCHANGED <<dpc, unwiped, connVars, shouldExit>>

RaiseFlag ==
    /\ Receiver("flag", "exited")
    /\ shouldExit' = TRUE
    /\ receiverOnly /\ UNCHANGED <<dpc, unwiped, connVars>>

ReceiverStep ==
    \/ CheckEstablished \/ CallRecv \/ RecvReturns \/ FinalCheck \/ Destroy("receiver")
    \/ ForgetConnSocket \/ SetConnState \/ RaiseFlag

------------------------------------------------------------------------------
(* The TUN sender and the UDP receiver. *)

TunnelUp == state = "ESTABLISHED" /\ udpSocket # "none"

Sender(from, to) == Alive /\ spc = from /\ spc' = to

senderOnly ==
    UNCHANGED <<mpc, rpc, upc, dpc, unwiped, sessionVars, connVars, shouldExit, opened, serverGone>>

\* The tests around select; a timeout changes nothing.
SelectTun ==
    /\ Sender("select", IF TunnelUp THEN "nonce" ELSE "exited")
    /\ senderOnly /\ UNCHANGED <<sealing, wire>>

\* tx_nonce++ on a packet read from the TUN device.
TakeNonce ==
    /\ Sender("nonce", "seal")
    /\ sealing' = [sealing EXCEPT !.nonce = cryptoLive]
    /\ senderOnly /\ UNCHANGED wire

\* crypto_encrypt_packet reads tx_key.
Seal ==
    /\ Sender("seal", "send")
    /\ sealing' = [sealing EXCEPT !.key = cryptoLive]
    /\ senderOnly /\ UNCHANGED wire

\* send on session.udp.socket, whatever it is by now; the result is ignored.
SendDatagram ==
    /\ Sender("send", "select")
    /\ wire' = IF udpSocket = "udp" /\ "udp" \in opened THEN wire \cup {sealing} ELSE wire
    /\ senderOnly /\ UNCHANGED sealing

SenderStep == SelectTun \/ TakeNonce \/ Seal \/ SendDatagram

\* The test of client_udp_receiver's loop.  What a datagram leads to is Tunnel's
\* matter; after session_destroy the socket and the keys give none a way through.
UdpReceiverEnds ==
    /\ Alive /\ upc = "select" /\ ~TunnelUp
    /\ upc' = "exited"
    /\ UNCHANGED <<mpc, rpc, senderVars, dpc, unwiped, sessionVars, connVars, shouldExit,
                   opened, serverGone>>

\* The server sends its notice and closes, or just goes away.
ServerLeaves ==
    /\ mpc \notin {"start", "exited"} /\ ~serverGone
    /\ serverGone' = TRUE
    /\ UNCHANGED <<mpc, rpc, senderVars, upc, dpc, unwiped, sessionVars, connVars, shouldExit,
                   opened>>

Next ==
    \/ MainStep \/ UserStep
    \/ ReceiverStep
    \/ SenderStep
    \/ UdpReceiverEnds
    \/ ServerLeaves

Spec == Init /\ [][Next]_vars

\* The scheduler runs the threads that can run; the user and the server are free.
FairSpec == Spec /\ WF_vars(MainStep) /\ WF_vars(ReceiverStep)
------------------------------------------------------------------------------
(* Properties. *)

\* The flags of the client process.
FlagsOK == shouldExit \in BOOLEAN /\ cryptoLive \in BOOLEAN /\ serverGone \in BOOLEAN

\* The shape of the state of the client process.
TypeOK ==
    /\ FlagsOK
    /\ mpc \in {"start", "shell", "line", "destroying", "leave", "cleanup", "exited"}
    /\ rpc \in {"none", "check", "recv", "blocked", "final", "destroying", "connState",
                "flag", "exited"}
    /\ spc \in {"none", "select", "nonce", "seal", "send", "exited"}
    /\ sealing \in [key : BOOLEAN, nonce : BOOLEAN]
    /\ upc \in {"none", "select", "exited"}
    /\ dpc \in [Destroyers -> {"none", "testTcp", "closeTcp", "testUdp", "closeUdp",
                               "forgetUdp", "wipe", "setState", "done"}]
    /\ unwiped \in [Destroyers -> SUBSET Parts]
    /\ state \in {"CONNECTING", "ESTABLISHED", "DISCONNECTED"}
    /\ socket \in {"tcp", "zero", "none"}
    /\ udpSocket \in {"udp", "zero", "none"}
    /\ connSocket \in {"tcp", "none"}
    /\ connState \in {"CONNECTED", "DISCONNECTING", "DISCONNECTED"}
    /\ opened \subseteq {"stdin", "tcp", "udp"}
    /\ wire \subseteq [key : BOOLEAN, nonce : BOOLEAN]

\* The threads of a started client, and where the receiver is in session_destroy.
Started == rpc # "none"

ThreadsTogether ==
    /\ mpc \in {"shell", "line", "destroying", "leave", "cleanup"} => Started
    /\ mpc = "start" => ~Started
    /\ ~Started => \A t \in Destroyers : dpc[t] = "none"
    /\ ~Started => spc = "none" /\ wire = {} /\ sealing.key /\ sealing.nonce
    /\ rpc \in {"connState"} => dpc["receiver"] = "done" /\ connSocket = "none"

\* The UDP socket is closed before anything a sealed packet depends on goes.
UdpClosedFirst ==
    "udp" \in opened =>
        /\ udpSocket = "udp" /\ cryptoLive
        /\ sealing.key /\ sealing.nonce
        /\ \A t \in Destroyers : dpc[t] \in {"none", "testTcp", "closeTcp", "testUdp", "closeUdp"}

\* The TCP connection is closed before a variable that refers to it goes.
TcpClosedFirst ==
    Started /\ "tcp" \in opened =>
        /\ socket = "tcp"
        /\ connSocket = "tcp" /\ connState # "DISCONNECTED"
        /\ \A t \in Destroyers : dpc[t] \in {"none", "testTcp", "closeTcp"}

\* A connection marked DISCONNECTED has no descriptor left.
MarkedLast == connState = "DISCONNECTED" => connSocket = "none"

\* No datagram leaves the host sealed with a zeroed key or a counter that starts
\* again at 0, though the TUN sender reads both without a lock while
\* session_destroy zeroes them: the socket is closed first (session.c:56-61).
SealedWithLiveKeys == \A d \in wire : d.key /\ d.nonce

\* When a started client leaves its shell it has closed the TCP connection, whichever
\* of the two threads was taking the session down (client_env.c:323).
ConnectionClosedAtExit ==
    Started /\ mpc = "exited" => "tcp" \notin opened /\ connSocket = "none"

\* Only the memset turns a socket into 0, and only a thread that finds it 0 closes
\* the standard input: the other one has got further in session_destroy.
ZeroedByTheWipe ==
    Started /\ (\A t \in Destroyers : dpc[t] \notin {"wipe", "setState", "done"}) =>
        socket = "tcp" /\ udpSocket # "zero"

InputLostToTwo == "stdin" \notin opened => \A t \in Destroyers : dpc[t] # "none"

DestroyedOnceEach ==
    /\ mpc \in {"start", "shell", "line"} => dpc["main"] = "none"
    /\ rpc \in {"none", "check", "recv", "blocked", "final"} => dpc["receiver"] = "none"

\* The shell never loses the descriptor it reads: a zeroed session.socket or
\* session.udp.socket names the standard input, and a second session_destroy would
\* close it (session.c:56-61), but by then the shell has stopped reading for good
\* (client_env.c:323).
ShellKeepsItsInput == mpc \in {"start", "shell", "line"} => "stdin" \in opened

\* The inductive invariant of the client.
IInv ==
    /\ TypeOK
    /\ ThreadsTogether
    /\ UdpClosedFirst
    /\ TcpClosedFirst
    /\ MarkedLast
    /\ SealedWithLiveKeys
    /\ ConnectionClosedAtExit
    /\ ZeroedByTheWipe
    /\ InputLostToTwo
    /\ DestroyedOnceEach
    /\ ShellKeepsItsInput

\* The loss of the server ends the client, unless its main thread is held by a line
\* that never comes to its end: the receiver's should_exit reaches the shell even
\* when both threads destroy the session and the second closes descriptor 0
\* (client_env.c:296-320).
ServerLossEnds ==
    ([]<>(mpc # "line")) => (serverGone /\ mpc \in {"shell", "line"} ~> mpc = "exited")

\* The disconnect command ends the client however the receiver's own session_destroy
\* interleaves with it (client_env.c:16-21).
DisconnectEnds == mpc = "destroying" ~> mpc = "exited"
==============================================================================
