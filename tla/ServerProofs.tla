----------------------------- MODULE ServerProofs -----------------------------
(***************************************************************************)
(* Theorems of Server, for every number of clients and every table size.   *)
(* The order of the joins is what the proof rests on: ThreadsFollowMain    *)
(* says which threads are gone at each step of the shutdown, and only the  *)
(* sweep, which comes after all of them, takes a session out of the table. *)
(***************************************************************************)
EXTENDS Server, FiniteSetTheorems, TLAPS

USE CapacityAssumption, ClientsAssumption

\* A process that has not begun satisfies the invariant.
LEMMA InitEstablishesIInv == Init => IInv
  <1> SUFFICES ASSUME Init PROVE IInv
    OBVIOUS
  <1>1. TypeOK
    BY DEF Init, TypeOK, FlagsOK
  <1>2. ThreadsFollowMain /\ ResourcesOutliveThreads
    BY DEF Init, ThreadsFollowMain, ResourcesOutliveThreads
  <1>3. OneOwner /\ HeldIsRegistered /\ SocketsAccounted /\ RegisteredVerified
    BY DEF Init, OneOwner, HeldIsRegistered, SocketsAccounted, RegisteredVerified, Handshaking
  <1>4. ShutdownProgress
    BY DEF Init, ShutdownProgress, Queued
  <1> QED
    BY <1>1, <1>2, <1>3, <1>4 DEF IInv

\* A step of the main thread that leaves the sessions alone preserves what the
\* invariant says of them; closing the listening socket closes only what was
\* queued.
LEMMA SessionsUntouched ==
    ASSUME IInv,
           UNCHANGED <<alive, cur, held, table, mem, state, peerKnown, sent, inbox, peer,
                       cpc, dgrams>>,
           \/ UNCHANGED fd
           \/ fd' = [c \in Clients |-> IF fd[c] = "queued" THEN "closed" ELSE fd[c]],
           \/ UNCHANGED <<lpc, upc, tpc>>
           \/ lpc = "none" /\ lpc' = "select" /\ upc' \in {"select", "exited"} /\ tpc' \in {"select", "exited"}
    PROVE  OneOwner' /\ HeldIsRegistered' /\ SocketsAccounted' /\ RegisteredVerified'
  <1>1. OneOwner'
    BY DEF IInv, OneOwner, Handshaking
  <1>2. HeldIsRegistered'
    BY DEF IInv, HeldIsRegistered
  <1>3. SocketsAccounted'
    BY DEF IInv, TypeOK, SocketsAccounted
  <1>4. RegisteredVerified'
    BY DEF IInv, RegisteredVerified
  <1> QED
    BY <1>1, <1>2, <1>3, <1>4

\* Startup, server_start: the listening socket opens before any thread exists.
LEMMA StartListeningPreserves == ASSUME IInv, StartListening PROVE IInv'
  <1> USE DEF StartListening, Main, othersIdle, listenerVars, udpVars, sessionVars, tcpVars,
  clientVars
  <1>0. FlagsOK'
    BY Zenon DEF IInv, TypeOK, FlagsOK
  <1>1. TypeOK'
    BY <1>0 DEF IInv, TypeOK, Handshaking
  <1>2. OneOwner' /\ HeldIsRegistered' /\ SocketsAccounted' /\ RegisteredVerified'
    BY SessionsUntouched DEF IInv, ThreadsFollowMain
  <1>3. ThreadsFollowMain'
    BY DEF IInv, ThreadsFollowMain
  <1>4. ResourcesOutliveThreads'
    BY DEF IInv, ResourcesOutliveThreads, ThreadsFollowMain
  <1>5. ShutdownProgress'
    BY DEF IInv, TypeOK, ShutdownProgress, Queued, OneOwner, ThreadsFollowMain
  <1> QED
    BY <1>1, <1>2, <1>3, <1>4, <1>5 DEF IInv

\* Startup that fails at the listening socket (server_core.c:113-163).
LEMMA StartFailsPreserves == ASSUME IInv, StartFails PROVE IInv'
  <1> USE DEF StartFails, Main, othersIdle, listenerVars, udpVars, sessionVars, tcpVars,
  clientVars
  <1>0. FlagsOK'
    BY Zenon DEF IInv, TypeOK, FlagsOK
  <1>1. TypeOK'
    BY <1>0 DEF IInv, TypeOK, Handshaking
  <1>2. OneOwner' /\ HeldIsRegistered' /\ SocketsAccounted' /\ RegisteredVerified'
    BY SessionsUntouched DEF IInv, ThreadsFollowMain
  <1>3. ThreadsFollowMain'
    BY DEF IInv, ThreadsFollowMain
  <1>4. ResourcesOutliveThreads'
    BY DEF IInv, ResourcesOutliveThreads, ThreadsFollowMain
  <1>5. ShutdownProgress'
    BY DEF IInv, TypeOK, ShutdownProgress, Queued, OneOwner, ThreadsFollowMain
  <1> QED
    BY <1>1, <1>2, <1>3, <1>4, <1>5 DEF IInv

\* session_manager_init brings up what the threads will depend on.
LEMMA InitManagerPreserves == ASSUME IInv, InitManager PROVE IInv'
  <1> USE DEF InitManager, Main, othersIdle, listenerVars, udpVars, sessionVars, tcpVars,
  clientVars
  <1>0. FlagsOK'
    BY Zenon DEF IInv, TypeOK, FlagsOK
  <1>1. TypeOK'
    BY <1>0 DEF IInv, TypeOK, Handshaking
  <1>2. OneOwner' /\ HeldIsRegistered' /\ SocketsAccounted' /\ RegisteredVerified'
    BY SessionsUntouched DEF IInv, ThreadsFollowMain
  <1>3. ThreadsFollowMain'
    BY DEF IInv, ThreadsFollowMain
  <1>4. ResourcesOutliveThreads'
    BY DEF IInv, ResourcesOutliveThreads, ThreadsFollowMain
  <1>5. ShutdownProgress'
    BY DEF IInv, TypeOK, ShutdownProgress, Queued, OneOwner, ThreadsFollowMain
  <1> QED
    BY <1>1, <1>2, <1>3, <1>4, <1>5 DEF IInv

\* The two failure paths of start_server_environment, before any thread exists.
LEMMA SetupFailsPreserves == ASSUME IInv, SetupFails PROVE IInv'
  <1> USE DEF SetupFails, Main, othersIdle, listenerVars, udpVars, sessionVars, tcpVars,
  clientVars
  <1>0. FlagsOK'
    BY Zenon DEF IInv, TypeOK, FlagsOK
  <1>1. TypeOK'
    BY <1>0 DEF IInv, TypeOK, Handshaking
  <1>2. OneOwner' /\ HeldIsRegistered' /\ SocketsAccounted' /\ RegisteredVerified'
    BY SessionsUntouched DEF IInv, ThreadsFollowMain
  <1>3. ThreadsFollowMain'
    BY DEF IInv, ThreadsFollowMain
  <1>4. ResourcesOutliveThreads'
    BY DEF IInv, ResourcesOutliveThreads, ThreadsFollowMain
  <1>5. ShutdownProgress'
    BY DEF IInv, TypeOK, ShutdownProgress, Queued, OneOwner, ThreadsFollowMain
  <1> QED
    BY <1>1, <1>2, <1>3, <1>4, <1>5 DEF IInv

\* The threads start when the mutex, the device and both sockets exist.
LEMMA BindUdpAndSpawnPreserves == ASSUME IInv, BindUdpAndSpawn PROVE IInv'
  <1> USE DEF BindUdpAndSpawn, Main, othersIdle, listenerVars, udpVars, sessionVars, tcpVars,
  clientVars
  <1>0. FlagsOK'
    BY Zenon DEF IInv, TypeOK, FlagsOK
  <1>1. TypeOK'
    BY <1>0 DEF IInv, TypeOK, Handshaking
  <1>2. OneOwner' /\ HeldIsRegistered' /\ SocketsAccounted' /\ RegisteredVerified'
    BY SessionsUntouched DEF IInv, ThreadsFollowMain
  <1>3. ThreadsFollowMain'
    BY DEF IInv, ThreadsFollowMain
  <1>4. ResourcesOutliveThreads'
    BY DEF IInv, ResourcesOutliveThreads, ThreadsFollowMain
  <1>5. ShutdownProgress'
    BY DEF IInv, TypeOK, ShutdownProgress, Queued, OneOwner, ThreadsFollowMain
  <1> QED
    BY <1>1, <1>2, <1>3, <1>4, <1>5 DEF IInv

\* The shutdown command moves only the main thread.
LEMMA LeaveShellPreserves == ASSUME IInv, LeaveShell PROVE IInv'
  <1> USE DEF LeaveShell, Main, othersIdle, listenerVars, udpVars, sessionVars, tcpVars,
  clientVars
  <1>0. FlagsOK'
    BY Zenon DEF IInv, TypeOK, FlagsOK
  <1>1. TypeOK'
    BY <1>0 DEF IInv, TypeOK, Handshaking
  <1>2. OneOwner' /\ HeldIsRegistered' /\ SocketsAccounted' /\ RegisteredVerified'
    BY SessionsUntouched DEF IInv, ThreadsFollowMain
  <1>3. ThreadsFollowMain'
    BY DEF IInv, ThreadsFollowMain
  <1>4. ResourcesOutliveThreads'
    BY DEF IInv, ResourcesOutliveThreads, ThreadsFollowMain
  <1>5. ShutdownProgress'
    BY DEF IInv, TypeOK, ShutdownProgress, Queued, OneOwner, ThreadsFollowMain
  <1> QED
    BY <1>1, <1>2, <1>3, <1>4, <1>5 DEF IInv

\* Closing the listening socket drops the backlog and nothing else.
LEMMA CloseListenPreserves == ASSUME IInv, CloseListen PROVE IInv'
  <1> USE DEF CloseListen, Main, othersIdle, listenerVars, udpVars, sessionVars, tcpVars,
  clientVars
  <1>0. FlagsOK'
    BY Zenon DEF IInv, TypeOK, FlagsOK
  <1>1. TypeOK'
    BY <1>0 DEF IInv, TypeOK, Handshaking
  <1>2. OneOwner' /\ HeldIsRegistered' /\ SocketsAccounted' /\ RegisteredVerified'
    BY SessionsUntouched DEF IInv, ThreadsFollowMain
  <1>3. ThreadsFollowMain'
    BY DEF IInv, ThreadsFollowMain
  <1>4. ResourcesOutliveThreads'
    BY DEF IInv, ResourcesOutliveThreads, ThreadsFollowMain
  <1>5. ShutdownProgress'
    BY DEF IInv, TypeOK, ShutdownProgress, Queued, OneOwner, ThreadsFollowMain
  <1> QED
    BY <1>1, <1>2, <1>3, <1>4, <1>5 DEF IInv

\* socket = -1 comes after the close (server_core.c:24-30).
LEMMA ForgetListenPreserves == ASSUME IInv, ForgetListen PROVE IInv'
  <1> USE DEF ForgetListen, Main, othersIdle, listenerVars, udpVars, sessionVars, tcpVars,
  clientVars
  <1>0. FlagsOK'
    BY Zenon DEF IInv, TypeOK, FlagsOK
  <1>1. TypeOK'
    BY <1>0 DEF IInv, TypeOK, Handshaking
  <1>2. OneOwner' /\ HeldIsRegistered' /\ SocketsAccounted' /\ RegisteredVerified'
    BY SessionsUntouched DEF IInv, ThreadsFollowMain
  <1>3. ThreadsFollowMain'
    BY DEF IInv, ThreadsFollowMain
  <1>4. ResourcesOutliveThreads'
    BY DEF IInv, ResourcesOutliveThreads, ThreadsFollowMain
  <1>5. ShutdownProgress'
    BY DEF IInv, TypeOK, ShutdownProgress, Queued, OneOwner, ThreadsFollowMain
  <1> QED
    BY <1>1, <1>2, <1>3, <1>4, <1>5 DEF IInv

\* running = 0 is the listener's signal to end.
LEMMA StopRunningPreserves == ASSUME IInv, StopRunning PROVE IInv'
  <1> USE DEF StopRunning, Main, othersIdle, listenerVars, udpVars, sessionVars, tcpVars,
  clientVars
  <1>0. FlagsOK'
    BY Zenon DEF IInv, TypeOK, FlagsOK
  <1>1. TypeOK'
    BY <1>0 DEF IInv, TypeOK, Handshaking
  <1>2. OneOwner' /\ HeldIsRegistered' /\ SocketsAccounted' /\ RegisteredVerified'
    BY SessionsUntouched DEF IInv, ThreadsFollowMain
  <1>3. ThreadsFollowMain'
    BY DEF IInv, ThreadsFollowMain
  <1>4. ResourcesOutliveThreads'
    BY DEF IInv, ResourcesOutliveThreads, ThreadsFollowMain
  <1>5. ShutdownProgress'
    BY DEF IInv, TypeOK, ShutdownProgress, Queued, OneOwner, ThreadsFollowMain
  <1> QED
    BY <1>1, <1>2, <1>3, <1>4, <1>5 DEF IInv

\* The join establishes that no handshake is in progress any more.
LEMMA JoinListenerPreserves == ASSUME IInv, JoinListener PROVE IInv'
  <1> USE DEF JoinListener, Main, othersIdle, listenerVars, udpVars, sessionVars, tcpVars,
  clientVars
  <1>0. FlagsOK'
    BY Zenon DEF IInv, TypeOK, FlagsOK
  <1>1. TypeOK'
    BY <1>0 DEF IInv, TypeOK, Handshaking
  <1>2. OneOwner' /\ HeldIsRegistered' /\ SocketsAccounted' /\ RegisteredVerified'
    BY SessionsUntouched DEF IInv, ThreadsFollowMain
  <1>3. ThreadsFollowMain'
    BY DEF IInv, ThreadsFollowMain
  <1>4. ResourcesOutliveThreads'
    BY DEF IInv, ResourcesOutliveThreads, ThreadsFollowMain
  <1>5. ShutdownProgress'
    BY DEF IInv, TypeOK, ShutdownProgress, Queued, OneOwner, ThreadsFollowMain
  <1> QED
    BY <1>1, <1>2, <1>3, <1>4, <1>5 DEF IInv

\* The UDP socket is closed once the listener is gone.
LEMMA CloseUdpPreserves == ASSUME IInv, CloseUdp PROVE IInv'
  <1> USE DEF CloseUdp, Main, othersIdle, listenerVars, udpVars, sessionVars, tcpVars,
  clientVars
  <1>0. FlagsOK'
    BY Zenon DEF IInv, TypeOK, FlagsOK
  <1>1. TypeOK'
    BY <1>0 DEF IInv, TypeOK, Handshaking
  <1>2. OneOwner' /\ HeldIsRegistered' /\ SocketsAccounted' /\ RegisteredVerified'
    BY SessionsUntouched DEF IInv, ThreadsFollowMain
  <1>3. ThreadsFollowMain'
    BY DEF IInv, ThreadsFollowMain
  <1>4. ResourcesOutliveThreads'
    BY DEF IInv, ResourcesOutliveThreads, ThreadsFollowMain
  <1>5. ShutdownProgress'
    BY DEF IInv, TypeOK, ShutdownProgress, Queued, OneOwner, ThreadsFollowMain
  <1> QED
    BY <1>1, <1>2, <1>3, <1>4, <1>5 DEF IInv

\* udp_socket = -1 is the signal for both of its users to end.
LEMMA ForgetUdpPreserves == ASSUME IInv, ForgetUdp PROVE IInv'
  <1> USE DEF ForgetUdp, Main, othersIdle, listenerVars, udpVars, sessionVars, tcpVars,
  clientVars
  <1>0. FlagsOK'
    BY Zenon DEF IInv, TypeOK, FlagsOK
  <1>1. TypeOK'
    BY <1>0 DEF IInv, TypeOK, Handshaking
  <1>2. OneOwner' /\ HeldIsRegistered' /\ SocketsAccounted' /\ RegisteredVerified'
    BY SessionsUntouched DEF IInv, ThreadsFollowMain
  <1>3. ThreadsFollowMain'
    BY DEF IInv, ThreadsFollowMain
  <1>4. ResourcesOutliveThreads'
    BY DEF IInv, ResourcesOutliveThreads, ThreadsFollowMain
  <1>5. ShutdownProgress'
    BY DEF IInv, TypeOK, ShutdownProgress, Queued, OneOwner, ThreadsFollowMain
  <1> QED
    BY <1>1, <1>2, <1>3, <1>4, <1>5 DEF IInv

\* After the join nobody holds a pointer from session_manager_get.
LEMMA JoinUdpPreserves == ASSUME IInv, JoinUdp PROVE IInv'
  <1> USE DEF JoinUdp, Main, othersIdle, listenerVars, udpVars, sessionVars, tcpVars, clientVars
  <1>0. FlagsOK'
    BY Zenon DEF IInv, TypeOK, FlagsOK
  <1>1. TypeOK'
    BY <1>0 DEF IInv, TypeOK, Handshaking
  <1>2. OneOwner' /\ HeldIsRegistered' /\ SocketsAccounted' /\ RegisteredVerified'
    BY SessionsUntouched DEF IInv, ThreadsFollowMain
  <1>3. ThreadsFollowMain'
    BY DEF IInv, ThreadsFollowMain
  <1>4. ResourcesOutliveThreads'
    BY DEF IInv, ResourcesOutliveThreads, ThreadsFollowMain
  <1>5. ShutdownProgress'
    BY DEF IInv, TypeOK, ShutdownProgress, Queued, OneOwner, ThreadsFollowMain
  <1> QED
    BY <1>1, <1>2, <1>3, <1>4, <1>5 DEF IInv

\* After the join nobody reads the TUN device or scans the table.
LEMMA JoinTunPreserves == ASSUME IInv, JoinTun PROVE IInv'
  <1> USE DEF JoinTun, Main, othersIdle, listenerVars, udpVars, sessionVars, tcpVars, clientVars
  <1>0. FlagsOK'
    BY Zenon DEF IInv, TypeOK, FlagsOK
  <1>1. TypeOK'
    BY <1>0 DEF IInv, TypeOK, Handshaking
  <1>2. OneOwner' /\ HeldIsRegistered' /\ SocketsAccounted' /\ RegisteredVerified'
    BY SessionsUntouched DEF IInv, ThreadsFollowMain
  <1>3. ThreadsFollowMain'
    BY DEF IInv, ThreadsFollowMain
  <1>4. ResourcesOutliveThreads'
    BY DEF IInv, ResourcesOutliveThreads, ThreadsFollowMain
  <1>5. ShutdownProgress'
    BY DEF IInv, TypeOK, ShutdownProgress, Queued, OneOwner, ThreadsFollowMain
  <1> QED
    BY <1>1, <1>2, <1>3, <1>4, <1>5 DEF IInv

\* The mutex and the TUN device go when all three threads are gone.
LEMMA EndSweepPreserves == ASSUME IInv, EndSweep PROVE IInv'
  <1> USE DEF EndSweep, Main, othersIdle, listenerVars, udpVars, sessionVars, tcpVars,
  clientVars
  <1>0. FlagsOK'
    BY Zenon DEF IInv, TypeOK, FlagsOK
  <1>1. TypeOK'
    BY <1>0 DEF IInv, TypeOK, Handshaking
  <1>2. OneOwner' /\ HeldIsRegistered' /\ SocketsAccounted' /\ RegisteredVerified'
    BY SessionsUntouched DEF IInv, ThreadsFollowMain
  <1>3. ThreadsFollowMain'
    BY DEF IInv, ThreadsFollowMain
  <1>4. ResourcesOutliveThreads'
    BY DEF IInv, ResourcesOutliveThreads, ThreadsFollowMain
  <1>5. ShutdownProgress'
    BY DEF IInv, TypeOK, ShutdownProgress, Queued, OneOwner, ThreadsFollowMain
  <1> QED
    BY <1>1, <1>2, <1>3, <1>4, <1>5 DEF IInv

\* disconnect_all frees a session while every other thread is gone.
LEMMA SweepSessionPreserves ==
    ASSUME IInv, NEW c \in Clients, SweepSession(c)
    PROVE  IInv'
  <1> USE DEF mainVars, listenerVars, udpVars, sessionVars, tcpVars, clientVars
  <1>1. CASE Raises(c)
    <2>1. alive' = FALSE /\ UNCHANGED <<mainVars, listenerVars, udpVars, tpc, sessionVars,
                                        tcpVars, clientVars>>
      BY <1>1 DEF SweepSession, KilledBySigpipe
    <2>2. FlagsOK'
      BY <2>1, Zenon DEF IInv, TypeOK, FlagsOK
    <2>3. TypeOK'
      BY <2>1, <2>2 DEF IInv, TypeOK
    <2> QED
      BY <2>1, <2>3 DEF IInv, ThreadsFollowMain, ResourcesOutliveThreads, OneOwner,
         HeldIsRegistered, SocketsAccounted, RegisteredVerified, ShutdownProgress, Queued
  <1>2. CASE ~Raises(c)
    <2>1. /\ mpc = "sweep" /\ c \in table
          /\ \/ AfterSend(c)
             \/ UNCHANGED <<sent, peer>>
          /\ table' = table \ {c}
          /\ mem' = [mem EXCEPT ![c] = "freed"]
          /\ fd' = [fd EXCEPT ![c] = "closed"]
          /\ state' = [state EXCEPT ![c] = "DISCONNECTED"]
          /\ peerKnown' = [peerKnown EXCEPT ![c] = FALSE]
          /\ UNCHANGED <<alive, mainVars, listenerVars, udpVars, tpc, inbox, clientVars>>
      BY <1>2 DEF SweepSession
    <2>2. FlagsOK'
      BY <2>1, Zenon DEF IInv, TypeOK, FlagsOK
    <2>3. sent' \in [Clients -> Nat] /\ peer' \in [Clients -> {"up", "fin", "finSent", "broken", "reset"}]
      BY <2>1 DEF AfterSend, IInv, TypeOK
    <2>4. TypeOK'
      BY <2>1, <2>2, <2>3 DEF IInv, TypeOK
    <2>5. ThreadsFollowMain' /\ ResourcesOutliveThreads'
      BY <2>1 DEF IInv, ThreadsFollowMain, ResourcesOutliveThreads
    <2>6. OneOwner'
      BY <2>1 DEF IInv, TypeOK, OneOwner
    <2>7. HeldIsRegistered'
      BY <2>1 DEF IInv, ThreadsFollowMain, HeldIsRegistered
    <2>8. SocketsAccounted' /\ RegisteredVerified'
      BY <2>1 DEF IInv, TypeOK, OneOwner, SocketsAccounted, RegisteredVerified
    <2>9. ShutdownProgress'
      BY <2>1 DEF IInv, TypeOK, ShutdownProgress, Queued
    <2> QED
      BY <2>4, <2>5, <2>6, <2>7, <2>8, <2>9 DEF IInv
  <1> QED
    BY <1>1, <1>2

\* The listener is between pthread_create and pthread_join at each of its steps.
LEMMA ListenerAlive ==
    ASSUME IInv, lpc \notin {"none", "exited"}
    PROVE  mpc \in {"shell", "closeListen", "forgetListen", "stopRunning", "joinListener"}
  BY DEF IInv, TypeOK, ThreadsFollowMain

\* A step that moves only the listener, and not into or out of a handshake.
LEMMA ListenerMovePreserves ==
    ASSUME IInv,
           UNCHANGED <<alive, mainVars, cur, udpVars, tpc, sessionVars, sent, peer,
           clientVars>>,
           lpc \notin {"none", "exited"},
           lpc' \in Handshaking \cup {"select", "accept", "exited"},
           lpc \in Handshaking <=> lpc' \in Handshaking, lpc' # "add",
           inbox' \in [Clients -> {NULL, "hello", "response", "bad"}],
           \/ UNCHANGED fd
           \/ \E c \in Clients : fd[c] = "queued" /\ fd' = [fd EXCEPT ![c] = "closed"]
    PROVE  IInv'
  <1> USE DEF mainVars, udpVars, sessionVars, clientVars
  <1>1. FlagsOK'
    BY Zenon DEF IInv, TypeOK, FlagsOK
  <1>2. TypeOK'
    BY <1>1 DEF IInv, TypeOK
  <1>3. ThreadsFollowMain' /\ ResourcesOutliveThreads'
    BY ListenerAlive DEF IInv, ThreadsFollowMain, ResourcesOutliveThreads, Handshaking
  <1>4. OneOwner' /\ HeldIsRegistered'
    BY DEF IInv, OneOwner, HeldIsRegistered, Handshaking
  <1>5. SocketsAccounted' /\ RegisteredVerified'
    BY DEF IInv, TypeOK, SocketsAccounted, RegisteredVerified
  <1>6. ShutdownProgress'
    BY ListenerAlive DEF IInv, TypeOK, ShutdownProgress, Queued
  <1> QED
    BY <1>2, <1>3, <1>4, <1>5, <1>6 DEF IInv

\* The listener's select loop, in which it holds no session.
LEMMA LoopPreserves ==
    ASSUME IInv,
           \/ SelectListen \/ AcceptFails
           \/ \E c \in Clients : AcceptWithoutMemory(c)
    PROVE  IInv'
  <1> USE DEF Listener, listenerOnly, tcpVars, sessionVars
  <1>1. inbox \in [Clients -> {NULL, "hello", "response", "bad"}]
    BY DEF IInv, TypeOK
  <1>2. CASE SelectListen
    BY <1>1, <1>2, ListenerMovePreserves DEF SelectListen, Handshaking
  <1>3. CASE AcceptFails
    BY <1>1, <1>3, ListenerMovePreserves DEF AcceptFails, Handshaking
  <1>4. ASSUME NEW c \in Clients, AcceptWithoutMemory(c) PROVE IInv'
    BY <1>1, <1>4, ListenerMovePreserves DEF AcceptWithoutMemory, CanTake, Queued, Handshaking
  <1> QED
    BY <1>2, <1>3, <1>4

\* accept gives the listener a session of its own.
LEMMA AcceptPreserves ==
    ASSUME IInv, NEW c \in Clients, Accept(c)
    PROVE  IInv'
  <1> USE DEF Accept, Listener, mainVars, udpVars, clientVars
  <1>1. FlagsOK'
    BY Zenon DEF IInv, TypeOK, FlagsOK
  <1>2. TypeOK'
    BY <1>1 DEF IInv, TypeOK, Handshaking
  <1>3. ThreadsFollowMain' /\ ResourcesOutliveThreads'
    BY ListenerAlive DEF IInv, ThreadsFollowMain, ResourcesOutliveThreads
  <1>4. cur = NULL /\ c \notin table /\ fd[c] = "queued"
    BY DEF IInv, OneOwner, SocketsAccounted, CanTake, Queued, Handshaking
  <1>5. OneOwner' /\ HeldIsRegistered'
    BY <1>4 DEF IInv, TypeOK, OneOwner, HeldIsRegistered, Handshaking
  <1>6. SocketsAccounted' /\ RegisteredVerified'
    BY <1>4 DEF IInv, TypeOK, SocketsAccounted, RegisteredVerified
  <1>7. ShutdownProgress'
    BY <1>4, ListenerAlive DEF IInv, TypeOK, ShutdownProgress, Queued
  <1> QED
    BY <1>2, <1>3, <1>5, <1>6, <1>7 DEF IInv

\* Receiving leaves the handshake where it was or fails it.
LEMMA ReceivePreserves ==
    ASSUME IInv, ReceiveHello \/ ReceiveResponse
    PROVE  IInv'
  <1> USE DEF Receive, Listener, tcpVars
  <1>1. cur \in Clients /\ inbox' \in [Clients -> {NULL, "hello", "response", "bad"}]
    BY DEF ReceiveHello, ReceiveResponse, IInv, TypeOK, OneOwner, Handshaking
  <1>2. CASE ReceiveHello
    BY <1>1, <1>2, ListenerMovePreserves DEF ReceiveHello, Handshaking
  <1>3. CASE ReceiveResponse
    BY <1>1, <1>3, ListenerMovePreserves DEF ReceiveResponse, Handshaking
  <1> QED
    BY <1>2, <1>3

\* A send() of the handshake goes on, fails the handshake or kills the process.
LEMMA SendPreserves ==
    ASSUME IInv, NEW from \in Handshaking \ {"fail"}, NEW to \in Handshaking,
           NEW st \in {"WAIT_AUTH", "ESTABLISHED"}, Send(from, to, st),
           to = "add" => st = "ESTABLISHED"
    PROVE  IInv'
  <1> USE DEF Send, Listener, mainVars, udpVars, clientVars
  <1>1. lpc = from /\ cur \in Clients /\ cur \notin table
    BY DEF IInv, TypeOK, OneOwner
  <1>2. CASE SendWorks(cur) /\ Listener(from, to) /\ AfterSend(cur)
             /\ state' = [state EXCEPT ![cur] = st]
             /\ UNCHANGED <<alive, mainVars, cur, udpVars, tpc, table, mem, peerKnown, fd,
                            inbox, clientVars>>
    <2> USE <1>1, <1>2
    <2>1. FlagsOK'
      BY Zenon DEF IInv, TypeOK, FlagsOK
    <2>2. sent' \in [Clients -> Nat] /\ peer' \in [Clients -> {"up", "fin", "finSent", "broken", "reset"}]
      BY DEF AfterSend, IInv, TypeOK
    <2>3. TypeOK'
      <3>1. TypeOK
        BY DEF IInv
      <3>2. /\ lpc' \in Handshaking
            /\ state' \in [Clients -> {"DISCONNECTED", "CONNECTING", "WAIT_AUTH", "ESTABLISHED"}]
        BY <3>1 DEF TypeOK
      <3> QED
        BY <2>1, <2>2, <3>1, <3>2 DEF TypeOK
    <2>4. ThreadsFollowMain' /\ ResourcesOutliveThreads'
      BY ListenerAlive DEF IInv, ThreadsFollowMain, ResourcesOutliveThreads, Handshaking
    <2>5. OneOwner' /\ HeldIsRegistered'
      BY DEF IInv, OneOwner, HeldIsRegistered, Handshaking
    <2>6. SocketsAccounted' /\ RegisteredVerified'
      BY DEF IInv, TypeOK, SocketsAccounted, RegisteredVerified
    <2>7. ShutdownProgress'
      BY ListenerAlive DEF IInv, ShutdownProgress, Queued, Handshaking
    <2> QED
      BY <2>3, <2>4, <2>5, <2>6, <2>7 DEF IInv
  <1>3. CASE peer[cur] = "reset" /\ Listener(from, "fail") /\ listenerOnly
    <2>1. inbox \in [Clients -> {NULL, "hello", "response", "bad"}]
      BY DEF IInv, TypeOK
    <2> QED
      BY <1>1, <1>3, <2>1, ListenerMovePreserves DEF listenerOnly, tcpVars, Handshaking
  <1>4. CASE Raises(cur) /\ alive /\ KilledBySigpipe
    <2> USE <1>4 DEF KilledBySigpipe, listenerVars, sessionVars, tcpVars
    <2>1. FlagsOK'
      BY Zenon DEF IInv, TypeOK, FlagsOK
    <2>2. TypeOK'
      BY <2>1 DEF IInv, TypeOK
    <2> QED
      BY <2>2 DEF IInv, ThreadsFollowMain, ResourcesOutliveThreads, OneOwner,
         HeldIsRegistered, SocketsAccounted, RegisteredVerified, ShutdownProgress, Queued
  <1> QED
    BY <1>2, <1>3, <1>4

\* session_manager_add passes the session from the listener to the table.
LEMMA AddSessionPreserves ==
    ASSUME IInv, AddSession
    PROVE  IInv'
  <1> USE DEF AddSession, Listener, mainVars, udpVars, tcpVars, clientVars
  <1>1. lpc = "add" /\ cur \in Clients
    BY DEF IInv, TypeOK, OneOwner, Handshaking
  <1>2. FlagsOK'
    BY Zenon DEF IInv, TypeOK, FlagsOK
  <1>3. TypeOK'
    BY <1>1, <1>2 DEF IInv, TypeOK, Handshaking
  <1>4. ThreadsFollowMain' /\ ResourcesOutliveThreads'
    BY <1>1, ListenerAlive DEF IInv, ThreadsFollowMain, ResourcesOutliveThreads
  <1>5. OneOwner'
    BY <1>1 DEF IInv, TypeOK, OneOwner, Handshaking
  <1>6. HeldIsRegistered' /\ SocketsAccounted' /\ RegisteredVerified'
    BY <1>1 DEF IInv, OneOwner, HeldIsRegistered, SocketsAccounted, RegisteredVerified
  <1>7. ShutdownProgress'
    BY <1>1, ListenerAlive DEF IInv, ShutdownProgress, Queued
  <1> QED
    BY <1>3, <1>4, <1>5, <1>6, <1>7 DEF IInv

\* A failed handshake frees a session nobody else has.
LEMMA DropSessionPreserves ==
    ASSUME IInv, DropSession
    PROVE  IInv'
  <1> USE DEF DropSession, Listener, mainVars, udpVars, clientVars
  <1>1. lpc = "fail" /\ cur \in Clients /\ cur \notin table
    BY DEF IInv, TypeOK, OneOwner, Handshaking
  <1>2. FlagsOK'
    BY Zenon DEF IInv, TypeOK, FlagsOK
  <1>3. TypeOK'
    BY <1>1, <1>2 DEF IInv, TypeOK
  <1>4. ThreadsFollowMain' /\ ResourcesOutliveThreads'
    BY <1>1, ListenerAlive DEF IInv, ThreadsFollowMain, ResourcesOutliveThreads
  <1>5. OneOwner'
    BY <1>1 DEF IInv, TypeOK, OneOwner, Handshaking
  <1>6. HeldIsRegistered' /\ SocketsAccounted' /\ RegisteredVerified'
    BY <1>1 DEF IInv, TypeOK, HeldIsRegistered, SocketsAccounted, RegisteredVerified
  <1>7. ShutdownProgress'
    BY <1>1, ListenerAlive DEF IInv, TypeOK, ShutdownProgress, Queued
  <1> QED
    BY <1>3, <1>4, <1>5, <1>6, <1>7 DEF IInv

\* Every step of the listener, by the cases of the handshake.
LEMMA ListenerPreserves ==
    ASSUME IInv, ListenerStep
    PROVE  IInv'
  <1>1. CASE \/ SelectListen \/ AcceptFails
             \/ \E c \in Clients : AcceptWithoutMemory(c)
    BY <1>1, LoopPreserves
  <1>2. ASSUME NEW c \in Clients, Accept(c) PROVE IInv'
    BY <1>2, AcceptPreserves
  <1>3. CASE ReceiveHello \/ ReceiveResponse
    BY <1>3, ReceivePreserves
  <1>4. CASE SendHello
    BY <1>4, SendPreserves DEF SendHello, Handshaking
  <1>5. CASE SendChallengeHeader
    BY <1>5, SendPreserves DEF SendChallengeHeader, Handshaking
  <1>6. CASE SendChallengeBody
    BY <1>6, SendPreserves DEF SendChallengeBody, Handshaking
  <1>7. CASE SendSuccessHeader
    BY <1>7, SendPreserves DEF SendSuccessHeader, Handshaking
  <1>8. CASE SendSuccessBody
    BY <1>8, SendPreserves DEF SendSuccessBody, Handshaking
  <1>9. CASE AddSession
    BY <1>9, AddSessionPreserves
  <1>10. CASE DropSession
    BY <1>10, DropSessionPreserves
  <1> QED
    BY <1>1, <1>2, <1>3, <1>4, <1>5, <1>6, <1>7, <1>8, <1>9, <1>10 DEF ListenerStep

------------------------------------------------------------------------------

\* The UDP listener takes nothing out of the table and stays between its
\* creation and its join.
LEMMA UdpMovePreserves ==
    ASSUME IInv, upc \notin {"none", "exited"},
           upc' \in {"select", "recv", "learn", "decode", "write", "exited"},
           held' \in Clients \cup {NULL},
           upc' \in {"learn", "decode"} => held' \in table,
           peerKnown' \in [Clients -> BOOLEAN], dgrams' \in SUBSET Clients,
           UNCHANGED <<alive, mainVars, listenerVars, tpc, table, mem, state, tcpVars, cpc>>
    PROVE  IInv'
  <1> USE DEF mainVars, listenerVars, tcpVars
  <1>1. FlagsOK'
    BY Zenon DEF IInv, TypeOK, FlagsOK
  <1>2. TypeOK'
    BY <1>1 DEF IInv, TypeOK
  <1>3. ThreadsFollowMain' /\ ResourcesOutliveThreads'
    BY DEF IInv, ThreadsFollowMain, ResourcesOutliveThreads
  <1>4. HeldIsRegistered'
    BY DEF HeldIsRegistered
  <1> QED
    BY <1>2, <1>3, <1>4 DEF IInv, OneOwner, SocketsAccounted, RegisteredVerified,
       ShutdownProgress, Queued

\* Every step of the UDP listener, from the lookup to the TUN device.
LEMMA UdpPreserves ==
    ASSUME IInv, UdpStep
    PROVE  IInv'
  <1> USE DEF Udp, udpOnly, sessionVars, clientVars
  <1>1. /\ held \in Clients \cup {NULL} /\ dgrams \in SUBSET Clients
        /\ peerKnown \in [Clients -> BOOLEAN]
        /\ upc \in {"learn", "decode"} => held \in table
    BY DEF IInv, TypeOK, HeldIsRegistered
  <1>2. CASE SelectUdp
    BY <1>1, <1>2, UdpMovePreserves DEF SelectUdp
  <1>3. ASSUME NEW c \in Clients, ReceiveDatagram(c) PROVE IInv'
    BY <1>1, <1>3, UdpMovePreserves DEF ReceiveDatagram
  <1>4. CASE ReceiveFails
    BY <1>1, <1>4, UdpMovePreserves DEF ReceiveFails
  <1>5. CASE LearnPeer
    BY <1>1, <1>5, UdpMovePreserves DEF LearnPeer
  <1>6. CASE DecodeDatagram
    BY <1>1, <1>6, UdpMovePreserves DEF DecodeDatagram
  <1>7. CASE WriteTun
    BY <1>1, <1>7, UdpMovePreserves DEF WriteTun
  <1> QED
    BY <1>2, <1>3, <1>4, <1>5, <1>6, <1>7 DEF UdpStep

\* Every step of the TUN sender.
LEMMA TunPreserves ==
    ASSUME IInv, TunStep
    PROVE  IInv'
  <1> USE DEF mainVars, listenerVars, udpVars, sessionVars, tcpVars, clientVars
  <1>1. /\ tpc \notin {"none", "exited"}
        /\ tpc' \in {"select", "read", "exited"}
        /\ UNCHANGED <<alive, mainVars, listenerVars, udpVars, sessionVars, tcpVars, clientVars>>
    BY DEF TunStep, SelectTun, ReadTun, Tun, tunOnly
  <1>2. FlagsOK'
    BY <1>1, Zenon DEF IInv, TypeOK, FlagsOK
  <1>3. TypeOK'
    BY <1>1, <1>2 DEF IInv, TypeOK
  <1>4. ThreadsFollowMain' /\ ResourcesOutliveThreads'
    BY <1>1 DEF IInv, ThreadsFollowMain, ResourcesOutliveThreads
  <1> QED
    BY <1>1, <1>3, <1>4 DEF IInv, OneOwner, HeldIsRegistered, SocketsAccounted,
       RegisteredVerified, ShutdownProgress, Queued

\* The clients change neither the server's threads nor what it has open, but
\* for the connections they queue while it listens.
LEMMA ClientsPreserve ==
    ASSUME IInv, NEW c \in Clients,
           \/ ClientStep(c) \/ ClientConnect(c) \/ ClientCloses(c)
           \/ ResetArrives(c) \/ ClientDatagram(c)
    PROVE  IInv'
  <1> USE DEF serverVars, mainVars, listenerVars, udpVars, sessionVars, tcpVars, clientVars
  <1>1. /\ UNCHANGED <<alive, mainVars, listenerVars, udpVars, tpc, sessionVars, sent>>
        /\ \/ UNCHANGED fd
           \/ /\ cpc[c] = "off" /\ listenOpen
              /\ cpc' = [cpc EXCEPT ![c] = "hello"]
              /\ fd' = [fd EXCEPT ![c] = "queued"]
    BY DEF ClientStep, ClientHello, ClientTakesHello, ClientResponds, ClientEstablished,
       ClientGivesUp, ClientSends, ClientConnect, ClientCloses, ResetArrives, ClientDatagram
  <1>2. /\ inbox' \in [Clients -> {NULL, "hello", "response", "bad"}]
        /\ peer' \in [Clients -> {"up", "fin", "finSent", "broken", "reset"}]
        /\ dgrams' \in SUBSET Clients
    BY DEF ClientStep, ClientHello, ClientTakesHello, ClientResponds, ClientEstablished,
       ClientGivesUp, ClientSends, ClientConnect, ClientCloses, ResetArrives, ClientDatagram,
       IInv, TypeOK
  <1>3. cpc' \in [Clients -> {"off", "hello", "waitHello", "waitChallenge", "waitSuccess",
                              "established", "closed"}]
    BY DEF ClientStep, ClientHello, ClientTakesHello, ClientResponds, ClientEstablished,
       ClientGivesUp, ClientSends, ClientConnect, ClientCloses, ResetArrives, ClientDatagram,
       IInv, TypeOK
  <1>4. FlagsOK'
    BY <1>1, Zenon DEF IInv, TypeOK, FlagsOK
  <1>5. TypeOK'
    BY <1>1, <1>2, <1>3, <1>4 DEF IInv, TypeOK
  <1>6. ThreadsFollowMain' /\ ResourcesOutliveThreads' /\ OneOwner' /\ HeldIsRegistered'
        /\ RegisteredVerified'
    BY <1>1 DEF IInv, ThreadsFollowMain, ResourcesOutliveThreads, OneOwner, HeldIsRegistered,
       RegisteredVerified
  <1>7. SocketsAccounted'
    <2>1. cpc' = cpc \/ \A d \in Clients : cpc'[d] = "off" => cpc[d] = "off" /\ d # c
      BY DEF ClientStep, ClientHello, ClientTakesHello, ClientResponds, ClientEstablished,
         ClientGivesUp, ClientSends, ClientConnect, ClientCloses, ResetArrives,
         ClientDatagram, IInv, TypeOK
    <2>2. UNCHANGED fd \/ (cpc[c] = "off" /\ cpc'[c] # "off")
      BY <1>1 DEF IInv, TypeOK
    <2> QED
      BY <1>1, <2>1, <2>2 DEF IInv, TypeOK, SocketsAccounted
  <1>8. ShutdownProgress'
    BY <1>1 DEF IInv, TypeOK, ShutdownProgress, Queued
  <1> QED
    BY <1>5, <1>6, <1>7, <1>8 DEF IInv

\* The invariant is inductive.
LEMMA NextPreservesIInv == IInv /\ [Next]_vars => IInv'
  <1> SUFFICES ASSUME IInv, [Next]_vars PROVE IInv'
    OBVIOUS
  <1>1. CASE MainStep
    <2>1. ASSUME NEW c \in Clients, SweepSession(c) PROVE IInv'
      BY <2>1, SweepSessionPreserves
    <2> QED
      BY <1>1, <2>1, StartListeningPreserves, StartFailsPreserves, InitManagerPreserves,
         SetupFailsPreserves, BindUdpAndSpawnPreserves, CloseListenPreserves,
         ForgetListenPreserves, StopRunningPreserves, JoinListenerPreserves,
         CloseUdpPreserves, ForgetUdpPreserves, JoinUdpPreserves, JoinTunPreserves,
         EndSweepPreserves
      DEF MainStep
  <1>2. CASE ListenerStep
    BY <1>2, ListenerPreserves
  <1>3. CASE UdpStep
    BY <1>3, UdpPreserves
  <1>4. CASE TunStep
    BY <1>4, TunPreserves
  <1>5. ASSUME NEW c \in Clients, ClientStep(c) PROVE IInv'
    BY <1>5, ClientsPreserve
  <1>6. CASE Environment
    <2>1. CASE LeaveShell
      BY <2>1, LeaveShellPreserves
    <2>2. ASSUME NEW c \in Clients,
                 ClientConnect(c) \/ ClientCloses(c) \/ ResetArrives(c) \/ ClientDatagram(c)
          PROVE  IInv'
      BY <2>2, ClientsPreserve
    <2> QED
      BY <1>6, <2>1, <2>2 DEF Environment
  <1>7. CASE UNCHANGED vars
    <2> USE <1>7 DEF vars, mainVars, listenerVars, udpVars, sessionVars, tcpVars, clientVars
    <2>1. FlagsOK'
      BY Zenon DEF IInv, TypeOK, FlagsOK
    <2>2. TypeOK'
      BY <2>1 DEF IInv, TypeOK
    <2> QED
      BY <2>2 DEF IInv, ThreadsFollowMain, ResourcesOutliveThreads, OneOwner,
         HeldIsRegistered, SocketsAccounted, RegisteredVerified, ShutdownProgress, Queued
  <1> QED
    BY <1>1, <1>2, <1>3, <1>4, <1>5, <1>6, <1>7 DEF Next

\* The process as a whole: its threads, its sessions and what it has open.
THEOREM ServerInvariant == Spec => []IInv
  <1>1. Init => IInv
    BY InitEstablishesIInv
  <1>2. IInv /\ [Next]_vars => IInv'
    BY NextPreservesIInv
  <1> QED
    BY <1>1, <1>2, PTL DEF Spec

\* No thread of the server touches a freed session, though session_manager_get
\* hands the pointer out of the lock: nothing is freed from the table before
\* the threads that look there are joined.
THEOREM SessionsLiveWhileUsed == Spec => []NoUseAfterFree
  <1>1. IInv => NoUseAfterFree
    BY DEF IInv, TypeOK, NoUseAfterFree, OneOwner, HeldIsRegistered
  <1> QED
    BY <1>1, ServerInvariant, PTL

\* The mutex and the TUN device outlive every use of them.
THEOREM ResourcesLiveWhileUsed == Spec => []NoUseAfterTeardown
  <1>1. IInv => NoUseAfterTeardown
    BY DEF IInv, TypeOK, NoUseAfterTeardown, ThreadsFollowMain, ResourcesOutliveThreads
  <1> QED
    BY <1>1, ServerInvariant, PTL

\* A server that returns from its shell has closed and freed everything.
THEOREM ShutdownIsClean == Spec => []CleanShutdown
  <1>1. IInv => CleanShutdown
    BY DEF IInv, TypeOK, CleanShutdown, ThreadsFollowMain, OneOwner, SocketsAccounted,
       ShutdownProgress, Queued, Handshaking
  <1> QED
    BY <1>1, ServerInvariant, PTL

\* Nothing is registered after the listener is joined.
THEOREM RegistrationEndsWithListener == Spec => NoLateRegistration
  <1>1. IInv /\ [Next]_vars =>
          (mpc \in {"closeUdp", "forgetUdp", "joinUdp", "joinTun", "sweep", "done"}
             => table' \subseteq table)
    <2> SUFFICES ASSUME IInv, [Next]_vars,
                        mpc \in {"closeUdp", "forgetUdp", "joinUdp", "joinTun", "sweep", "done"}
                 PROVE  table' \subseteq table
      OBVIOUS
    <2>0. lpc \in {"none", "exited"}
      BY DEF IInv, ThreadsFollowMain
    <2>1. CASE MainStep
      BY <2>1 DEF MainStep, StartListening, StartFails, InitManager, SetupFails,
         BindUdpAndSpawn, CloseListen, ForgetListen, StopRunning, JoinListener, CloseUdp,
         ForgetUdp, JoinUdp, JoinTun, SweepSession, KilledBySigpipe, EndSweep, othersIdle,
         sessionVars
    <2>2. CASE ListenerStep
      BY <2>0, <2>2 DEF ListenerStep, SelectListen, Accept, AcceptWithoutMemory,
         AcceptFails, ReceiveHello, SendHello, SendChallengeHeader, SendChallengeBody,
         ReceiveResponse, SendSuccessHeader, SendSuccessBody, Receive, Send, AddSession,
         DropSession, Listener
    <2>3. CASE UdpStep
      BY <2>3 DEF UdpStep, SelectUdp, ReceiveDatagram, ReceiveFails, LearnPeer,
         DecodeDatagram, WriteTun, udpOnly, sessionVars
    <2>4. CASE TunStep
      BY <2>4 DEF TunStep, SelectTun, ReadTun, tunOnly, sessionVars
    <2>5. CASE (\E c \in Clients : ClientStep(c)) \/ Environment
      BY <2>5 DEF ClientStep, ClientHello, ClientTakesHello, ClientResponds,
         ClientEstablished, ClientGivesUp, ClientSends, Environment, LeaveShell,
         ClientConnect, ClientCloses, ResetArrives, ClientDatagram, othersIdle, serverVars,
         sessionVars
    <2>6. CASE UNCHANGED vars
      BY <2>6 DEF vars, sessionVars
    <2> QED
      BY <2>1, <2>2, <2>3, <2>4, <2>5, <2>6 DEF Next
  <1> QED
    BY <1>1, ServerInvariant, PTL DEF Spec, NoLateRegistration

------------------------------------------------------------------------------
(* Who was told AUTH_SUCCESS. *)

Full == Cardinality(table) = Capacity

\* How many packets the handshake in hand has sent at each of its steps; one that
\* fails after the last of them fails because the table is full.
SentAtStep ==
    /\ lpc \in {"recvHello", "sendHello"} => sent[cur] = 0
    /\ lpc = "sendChallengeHeader" => sent[cur] = 1
    /\ lpc = "sendChallengeBody" => sent[cur] = 2
    /\ lpc \in {"recvResponse", "sendSuccessHeader"} => sent[cur] = 3
    /\ lpc = "sendSuccessBody" => sent[cur] = 4
    /\ lpc = "fail" /\ sent[cur] >= SuccessSent => Full

\* A session that was freed after AUTH_SUCCESS found the table full, and the table
\* has lost nobody since, or it was swept.
DroppedWhenFull ==
    \A c \in Clients : mem[c] = "freed" /\ sent[c] >= SuccessSent
        => Full \/ mpc \in {"sweep", "done"}

\* What the theorem about AUTH_SUCCESS rests on.
SInv ==
    /\ IInv
    /\ Cardinality(table) <= Capacity
    /\ SentAtStep
    /\ DroppedWhenFull
    /\ \A c \in Clients : fd[c] \in {"none", "queued"} => sent[c] = 0
    /\ \A c \in Clients : cpc[c] = "established" => sent[c] >= SuccessSent

\* The table is finite: its sessions can be counted.
LEMMA TableFinite ==
    ASSUME IInv
    PROVE  IsFiniteSet(table) /\ Cardinality(table) \in Nat
  BY FS_Subset, FS_CardinalityType DEF IInv, TypeOK

\* Most steps touch neither the sessions nor what was sent to them.
LEMMA Undisturbed ==
    ASSUME SInv, IInv', UNCHANGED <<cur, table, mem, sent>>,
           lpc' = lpc \/ cur = NULL,
           mpc \in {"sweep", "done"} => mpc' \in {"sweep", "done"},
           \A c \in Clients : fd'[c] \in {"none", "queued"} => fd[c] \in {"none", "queued"},
           \A c \in Clients : cpc'[c] = "established" =>
               cpc[c] = "established" \/ sent[c] >= SuccessSent
    PROVE  SInv'
  <1>1. SentAtStep'
    <2>1. CASE lpc' = lpc
      BY <2>1 DEF SInv, SentAtStep, Full
    <2>2. CASE cur = NULL
      <3>1. lpc' \notin Handshaking
        BY <2>2 DEF IInv, OneOwner
      <3> QED
        BY <3>1 DEF SentAtStep, Handshaking
    <2> QED
      BY <2>1, <2>2
  <1>2. DroppedWhenFull'
    BY DEF SInv, DroppedWhenFull, Full
  <1> QED
    BY <1>1, <1>2 DEF SInv

\* The steps of the main thread before and after the sweep.
LEMMA MainUndisturbed ==
    ASSUME SInv, IInv', LeaveShell \/ (MainStep /\ ~\E c \in Clients : SweepSession(c))
    PROVE  SInv'
  <1>1. /\ UNCHANGED <<cur, table, mem, sent, cpc>>
        /\ mpc \in {"sweep", "done"} => mpc' \in {"sweep", "done"}
        /\ fd' = fd \/ fd' = [c \in Clients |-> IF fd[c] = "queued" THEN "closed" ELSE fd[c]]
    BY DEF LeaveShell, MainStep, StartListening, StartFails, InitManager, SetupFails,
           BindUdpAndSpawn, CloseListen, ForgetListen, StopRunning, JoinListener, CloseUdp,
           ForgetUdp, JoinUdp, JoinTun, EndSweep, Main, othersIdle, listenerVars,
           sessionVars, tcpVars, clientVars
  <1>2. lpc' = lpc \/ cur = NULL
    <2>1. lpc' = lpc \/ lpc = "none"
      BY DEF LeaveShell, MainStep, StartListening, StartFails, InitManager, SetupFails,
             BindUdpAndSpawn, CloseListen, ForgetListen, StopRunning, JoinListener, CloseUdp,
             ForgetUdp, JoinUdp, JoinTun, EndSweep, Main, othersIdle, listenerVars,
             SInv, IInv, ThreadsFollowMain
    <2> QED
      BY <2>1 DEF SInv, IInv, OneOwner, Handshaking
  <1> QED
    BY <1>1, <1>2, Undisturbed

\* disconnect_all, which comes after the last handshake.
LEMMA SweepKeepsPromise ==
    ASSUME SInv, IInv', NEW c \in Clients, SweepSession(c)
    PROVE  SInv'
  <1>1. CASE KilledBySigpipe
    BY <1>1, Undisturbed DEF KilledBySigpipe, mainVars, listenerVars, sessionVars, tcpVars,
           clientVars
  <1>2. CASE ~KilledBySigpipe
    <2>1. /\ mpc = "sweep" /\ mpc' = "sweep" /\ c \in table /\ table' = table \ {c}
          /\ mem' = [mem EXCEPT ![c] = "freed"] /\ UNCHANGED <<lpc, cur, cpc>>
          /\ fd' = [fd EXCEPT ![c] = "closed"]
          /\ sent' = [sent EXCEPT ![c] = @ + 1] \/ sent' = sent
      BY <1>2 DEF SweepSession, AfterSend, mainVars, listenerVars, clientVars
    <2>2. lpc = "exited"
      BY <2>1 DEF SInv, IInv, ThreadsFollowMain
    <2>3. \A d \in Clients : sent'[d] \in Nat /\ sent'[d] >= sent[d]
                             /\ (d # c => sent'[d] = sent[d])
      BY <2>1 DEF SInv, IInv, TypeOK
    <2>4. IsFiniteSet(table') /\ Cardinality(table') <= Cardinality(table)
      BY <2>1, TableFinite, FS_Subset DEF SInv
    <2>5. Cardinality(table') <= Capacity
      BY <2>4, TableFinite, FS_CardinalityType DEF SInv
    <2>6. SentAtStep'
      BY <2>1, <2>2 DEF SentAtStep
    <2>7. DroppedWhenFull'
      BY <2>1 DEF DroppedWhenFull
    <2>8. \A d \in Clients : fd'[d] \in {"none", "queued"} => sent'[d] = 0
      BY <2>1, <2>3 DEF SInv, IInv, TypeOK
    <2>9. \A d \in Clients : cpc'[d] = "established" => sent'[d] >= SuccessSent
      BY <2>1, <2>3 DEF SInv, IInv, TypeOK, SuccessSent
    <2> QED
      BY <2>5, <2>6, <2>7, <2>8, <2>9 DEF SInv
  <1> QED
    BY <1>1, <1>2

\* A handshake that begins has sent nothing.
LEMMA AcceptKeepsPromise ==
    ASSUME SInv, IInv', NEW c \in Clients, Accept(c)
    PROVE  SInv'
  <1>1. /\ lpc = "accept" /\ lpc' = "recvHello" /\ cur' = c /\ fd[c] = "queued"
        /\ mem' = [mem EXCEPT ![c] = "live"] /\ mem \in [Clients -> {"none", "live", "freed"}]
        /\ fd' = [fd EXCEPT ![c] = "open"] /\ fd \in [Clients -> {"none", "queued", "open", "closed"}]
        /\ UNCHANGED <<mpc, table, sent, cpc>>
    BY DEF Accept, Listener, CanTake, Queued, mainVars, clientVars, SInv, IInv, TypeOK
  <1>2. sent[c] = 0
    BY <1>1 DEF SInv
  <1>3. SentAtStep'
    BY <1>1, <1>2 DEF SentAtStep
  <1>4. DroppedWhenFull'
    BY <1>1 DEF SInv, DroppedWhenFull, Full
  <1>5. \A d \in Clients : fd'[d] \in {"none", "queued"} => sent'[d] = 0
    BY <1>1 DEF SInv
  <1> QED
    BY <1>1, <1>3, <1>4, <1>5 DEF SInv

\* A packet received sends nothing.
LEMMA ReceiveKeepsPromise ==
    ASSUME SInv, IInv', ReceiveHello \/ ReceiveResponse
    PROVE  SInv'
  <1>1. /\ \/ lpc = "recvHello" /\ lpc' \in {"sendHello", "fail"}
           \/ lpc = "recvResponse" /\ lpc' \in {"sendSuccessHeader", "fail"}
        /\ UNCHANGED <<mpc, cur, table, mem, fd, sent, cpc>>
    BY DEF ReceiveHello, ReceiveResponse, Receive, Listener, mainVars, sessionVars, clientVars
  <1>2. SentAtStep'
    BY <1>1 DEF SInv, SentAtStep, SuccessSent
  <1>3. DroppedWhenFull'
    BY <1>1 DEF SInv, DroppedWhenFull, Full
  <1> QED
    BY <1>1, <1>2, <1>3 DEF SInv

\* One more send() of the handshake.
LEMMA SendKeepsPromise ==
    ASSUME SInv, IInv',
           \/ SendHello \/ SendChallengeHeader \/ SendChallengeBody
           \/ SendSuccessHeader \/ SendSuccessBody
    PROVE  SInv'
  <1> DEFINE Forward ==
               \/ lpc = "sendHello" /\ lpc' = "sendChallengeHeader"
               \/ lpc = "sendChallengeHeader" /\ lpc' = "sendChallengeBody"
               \/ lpc = "sendChallengeBody" /\ lpc' = "recvResponse"
               \/ lpc = "sendSuccessHeader" /\ lpc' = "sendSuccessBody"
               \/ lpc = "sendSuccessBody" /\ lpc' = "add"
  <1>1. /\ lpc \in {"sendHello", "sendChallengeHeader", "sendChallengeBody",
                    "sendSuccessHeader", "sendSuccessBody"}
        /\ \/ Forward /\ sent' = [sent EXCEPT ![cur] = @ + 1]
           \/ lpc' = "fail" /\ sent' = sent
           \/ lpc' = lpc /\ sent' = sent
        /\ UNCHANGED <<mpc, cur, table, mem, fd, cpc>>
    BY DEF SendHello, SendChallengeHeader, SendChallengeBody, SendSuccessHeader,
           SendSuccessBody, Send, AfterSend, Listener, listenerOnly, KilledBySigpipe, mainVars,
           listenerVars, sessionVars, tcpVars, clientVars
  <1>2. /\ cur \in Clients /\ sent \in [Clients -> Nat]
        /\ mem[cur] = "live" /\ fd[cur] = "open"
    BY <1>1 DEF SInv, IInv, TypeOK, OneOwner, SocketsAccounted, Handshaking
  <1>3. \A c \in Clients : sent'[c] \in Nat /\ sent'[c] >= sent[c]
                           /\ (c # cur => sent'[c] = sent[c])
    BY <1>1, <1>2
  <1>4. SentAtStep'
    BY <1>1, <1>2 DEF SInv, SentAtStep, SuccessSent
  <1>5. DroppedWhenFull'
    BY <1>1, <1>2, <1>3 DEF SInv, DroppedWhenFull, Full
  <1>6. \A c \in Clients : fd'[c] \in {"none", "queued"} => sent'[c] = 0
    BY <1>1, <1>2, <1>3 DEF SInv
  <1>7. \A c \in Clients : cpc'[c] = "established" => sent'[c] >= SuccessSent
    BY <1>1, <1>2, <1>3 DEF SInv, SuccessSent
  <1> QED
    BY <1>1, <1>4, <1>5, <1>6, <1>7 DEF SInv

\* A session finds a place, or the table full.
LEMMA AddKeepsPromise ==
    ASSUME SInv, IInv', AddSession
    PROVE  SInv'
  <1>1. /\ lpc = "add" /\ cur \in Clients /\ cur \notin table /\ mpc \notin {"sweep", "done"}
        /\ UNCHANGED <<mpc, mem, fd, sent, cpc>>
    BY ListenerAlive DEF AddSession, Listener, SInv, IInv, TypeOK, OneOwner, Handshaking,
                         mainVars, tcpVars, clientVars
  <1>2. CASE Cardinality(table) < Capacity
    <2>1. table' = table \cup {cur} /\ lpc' = "select"
      BY <1>2, TableFinite DEF AddSession, Listener, SInv
    <2>2. Cardinality(table') = Cardinality(table) + 1
      BY <1>1, <2>1, TableFinite, FS_AddElement DEF SInv
    <2>3. Cardinality(table') <= Capacity
      BY <1>2, <2>2, TableFinite DEF SInv
    <2>4. \A c \in Clients : ~(mem[c] = "freed" /\ sent[c] >= SuccessSent)
      BY <1>1, <1>2, TableFinite DEF SInv, DroppedWhenFull, Full
    <2>5. DroppedWhenFull' /\ SentAtStep'
      BY <1>1, <2>1, <2>4 DEF DroppedWhenFull, SentAtStep
    <2> QED
      BY <1>1, <2>3, <2>5 DEF SInv
  <1>3. CASE ~(Cardinality(table) < Capacity)
    <2>1. table' = table /\ cur' = cur /\ lpc' = "fail"
      BY <1>3 DEF AddSession, Listener
    <2>2. Full
      BY <1>3, TableFinite DEF SInv, Full
    <2>3. DroppedWhenFull' /\ SentAtStep'
      BY <2>1, <2>2 DEF DroppedWhenFull, SentAtStep, Full
    <2> QED
      BY <1>1, <2>1, <2>3 DEF SInv
  <1> QED
    BY <1>2, <1>3

\* A handshake that fails frees its session.
LEMMA DropKeepsPromise ==
    ASSUME SInv, IInv', DropSession
    PROVE  SInv'
  <1>1. /\ lpc = "fail" /\ lpc' = "select" /\ cur \in Clients
        /\ mem' = [mem EXCEPT ![cur] = "freed"] /\ mem \in [Clients -> {"none", "live", "freed"}]
        /\ fd' = [fd EXCEPT ![cur] = "closed"] /\ fd \in [Clients -> {"none", "queued", "open", "closed"}]
        /\ UNCHANGED <<mpc, table, sent, cpc>>
    BY DEF DropSession, Listener, SInv, IInv, TypeOK, OneOwner, Handshaking, mainVars,
           clientVars
  <1>2. SentAtStep'
    BY <1>1 DEF SentAtStep
  <1>3. DroppedWhenFull'
    BY <1>1 DEF SInv, DroppedWhenFull, SentAtStep, Full
  <1>4. \A c \in Clients : fd'[c] \in {"none", "queued"} => sent'[c] = 0
    BY <1>1 DEF SInv
  <1> QED
    BY <1>1, <1>2, <1>3, <1>4 DEF SInv

\* What was promised to a client is kept by every step.
LEMMA NextPreservesSInv == SInv /\ [Next]_vars => SInv'
  <1> SUFFICES ASSUME SInv, [Next]_vars PROVE SInv'
    OBVIOUS
  <1>1. IInv'
    BY NextPreservesIInv DEF SInv
  <1>2. CASE MainStep \/ LeaveShell
    <2>1. ASSUME NEW c \in Clients, SweepSession(c) PROVE SInv'
      BY <1>1, <2>1, SweepKeepsPromise
    <2> QED
      BY <1>1, <1>2, <2>1, MainUndisturbed
  <1>3. CASE ListenerStep
    <2>1. ASSUME SelectListen \/ AcceptFails \/ \E c \in Clients : AcceptWithoutMemory(c)
          PROVE  SInv'
      <3>1. /\ lpc \in {"select", "accept"} /\ UNCHANGED <<mpc, cur, table, mem, sent, cpc>>
            /\ fd' = fd \/ \E c \in Clients : fd' = [fd EXCEPT ![c] = "closed"]
        BY <2>1 DEF SelectListen, AcceptFails, AcceptWithoutMemory, Listener, listenerOnly,
                    mainVars, sessionVars, tcpVars, clientVars
      <3>2. cur = NULL
        BY <3>1 DEF SInv, IInv, OneOwner, Handshaking
      <3>3. \A c \in Clients : fd'[c] \in {"none", "queued"} => fd[c] \in {"none", "queued"}
        BY <3>1 DEF SInv, IInv, TypeOK
      <3> QED
        BY <1>1, <3>1, <3>2, <3>3, Undisturbed
    <2>2. ASSUME NEW c \in Clients, Accept(c) PROVE SInv'
      BY <1>1, <2>2, AcceptKeepsPromise
    <2> QED
      BY <1>1, <1>3, <2>1, <2>2, ReceiveKeepsPromise, SendKeepsPromise, AddKeepsPromise,
         DropKeepsPromise DEF ListenerStep
  <1>4. CASE UdpStep
    <2>1. UNCHANGED <<mpc, lpc, cur, table, mem, fd, sent, cpc>>
      BY <1>4 DEF UdpStep, SelectUdp, ReceiveDatagram, ReceiveFails, LearnPeer,
         DecodeDatagram, WriteTun, udpOnly, mainVars, listenerVars, sessionVars, tcpVars,
         clientVars
    <2> QED
      BY <1>1, <2>1, Undisturbed
  <1>5. CASE TunStep
    <2>1. UNCHANGED <<mpc, lpc, cur, table, mem, fd, sent, cpc>>
      BY <1>5 DEF TunStep, SelectTun, ReadTun, tunOnly, mainVars, listenerVars, sessionVars,
                  tcpVars, clientVars
    <2> QED
      BY <1>1, <2>1, Undisturbed
  <1>6. ASSUME NEW c \in Clients,
               \/ ClientStep(c) \/ ClientConnect(c) \/ ClientCloses(c)
               \/ ResetArrives(c) \/ ClientDatagram(c)
        PROVE  SInv'
    <2>1. /\ UNCHANGED <<mpc, lpc, cur, table, mem, sent>>
          /\ fd' = fd \/ (fd[c] = "none" /\ fd' = [fd EXCEPT ![c] = "queued"])
      BY <1>6 DEF ClientStep, ClientHello, ClientTakesHello, ClientResponds,
         ClientEstablished, ClientGivesUp, ClientSends, ClientConnect, ClientCloses,
         ResetArrives, ClientDatagram, serverVars, mainVars, listenerVars, sessionVars, tcpVars,
         SInv, IInv, SocketsAccounted
    <2>2. \/ cpc' = cpc
          \/ \E p \in {"hello", "waitHello", "waitChallenge", "waitSuccess", "closed"} :
                cpc' = [cpc EXCEPT ![c] = p]
          \/ cpc' = [cpc EXCEPT ![c] = "established"] /\ sent[c] >= SuccessSent
      BY <1>6 DEF ClientStep, ClientHello, ClientTakesHello, ClientResponds,
         ClientEstablished, ClientGivesUp, ClientConnect, ClientCloses, ResetArrives,
         ClientDatagram, clientVars
    <2>3. \A d \in Clients : cpc'[d] = "established" =>
              cpc[d] = "established" \/ sent[d] >= SuccessSent
      BY <2>2 DEF SInv, IInv, TypeOK
    <2>4. \A d \in Clients : fd'[d] \in {"none", "queued"} => fd[d] \in {"none", "queued"}
      BY <2>1 DEF SInv, IInv, TypeOK
    <2> QED
      BY <1>1, <2>1, <2>3, <2>4, Undisturbed
  <1>7. CASE UNCHANGED vars
    BY <1>1, <1>7, Undisturbed DEF vars, mainVars, listenerVars, sessionVars, tcpVars,
           clientVars
  <1> QED
    BY <1>2, <1>3, <1>4, <1>5, <1>6, <1>7 DEF Next, Environment

\* At the start nobody was promised anything.
LEMMA InitEstablishesSInv == Init => SInv
  <1> SUFFICES ASSUME Init PROVE SInv
    OBVIOUS
  <1>1. IInv
    BY InitEstablishesIInv
  <1>2. Cardinality(table) = 0
    BY FS_EmptySet DEF Init
  <1> QED
    BY <1>1, <1>2 DEF Init, SInv, SentAtStep, DroppedWhenFull

\* A client that was told AUTH_SUCCESS and is dropped while the server works was one
\* too many for the table, and still would be (session.c:183, session_manager.c:107).
THEOREM SuccessIsKept == Spec => []SuccessKept
  <1>1. Init => SInv
    BY InitEstablishesSInv
  <1>2. SInv /\ [Next]_vars => SInv'
    BY NextPreservesSInv
  <1>3. SInv => SuccessKept
    BY DEF SInv, DroppedWhenFull, Full, SuccessKept
  <1> QED
    BY <1>1, <1>2, <1>3, PTL DEF Spec

------------------------------------------------------------------------------
(* Whom the listener waits for. *)

\* The steps between the client's first packet and its second.
Answering == {"sendHello", "sendChallengeHeader", "sendChallengeBody", "recvResponse"}

\* The server has not read the first packet of c.
Unheard(c) == fd[c] = "queued" \/ (cur = c /\ lpc = "recvHello")

\* Where client c is in its handshake, given where the listener is: it moves, its
\* packet waits, or its end is closed.
ConversationOK(c) ==
    /\ cpc[c] = "off" => inbox[c] = NULL
    /\ alive /\ Unheard(c) =>
        \/ cpc[c] = "hello" /\ inbox[c] = NULL
        \/ cpc[c] = "waitHello" /\ inbox[c] # NULL
        \/ cpc[c] = "closed" /\ peer[c] # "up"
    /\ alive /\ cur = c /\ lpc \in Answering =>
        \/ cpc[c] \in {"waitHello", "waitChallenge"} /\ inbox[c] = NULL
        \/ cpc[c] = "waitSuccess" /\ inbox[c] # NULL /\ lpc = "recvResponse"
        \/ cpc[c] = "closed" /\ peer[c] # "up"

Conversations == \A c \in Clients : ConversationOK(c)

\* accept is called for a connection that waits, unless the main thread has closed
\* the socket in between.
AcceptHasReason == lpc = "accept" => Queued # {} \/ ~listenOpen

\* What the theorem about the listener rests on.
WInv == SInv /\ Conversations /\ AcceptHasReason

\* A handshake is in progress only while the server runs, on an open connection.
LEMMA InHandAlive ==
    ASSUME IInv, NEW c \in Clients, cur = c \/ fd[c] = "queued"
    PROVE  mpc # "done" /\ fd[c] \in {"open", "queued"} /\ (cur = c => fd[c] = "open")
  <1>1. cur = c => lpc \in Handshaking /\ fd[c] = "open"
    BY DEF IInv, OneOwner, SocketsAccounted
  <1>2. cur = c => mpc # "done"
    BY <1>1, ListenerAlive DEF Handshaking
  <1>3. fd[c] = "queued" => mpc # "done"
    BY DEF IInv, ShutdownProgress, Queued
  <1> QED
    BY <1>1, <1>2, <1>3

\* A step that moves no packet and no client, and no handshake on to its next
\* exchange, changes no conversation.
LEMMA ConversationsElsewhere ==
    ASSUME Conversations, UNCHANGED <<inbox, cpc>>, alive' => alive,
           cur' = cur \/ cur' = NULL,
           lpc' = lpc \/ lpc' \notin Answering \cup {"recvHello"},
           \A c \in Clients : peer'[c] = "up" => peer[c] = "up",
           \A c \in Clients : fd'[c] = "queued" => fd[c] = "queued"
    PROVE  Conversations'
  <1> SUFFICES ASSUME NEW c \in Clients PROVE ConversationOK(c)'
    BY DEF Conversations
  <1>1. ConversationOK(c)
    BY DEF Conversations
  <1>2. cur' = c => cur = c
    OBVIOUS
  <1>3. Unheard(c)' => Unheard(c)
    BY <1>2 DEF Unheard
  <1>4. lpc' \in Answering => lpc' = lpc
    OBVIOUS
  <1> QED
    BY <1>1, <1>2, <1>3, <1>4 DEF ConversationOK

\* The main thread touches connections only to close them.
LEMMA MainKeepsConversations ==
    ASSUME WInv, IInv', MainStep \/ LeaveShell
    PROVE  Conversations' /\ AcceptHasReason'
  <1>0. SInv /\ IInv /\ TypeOK /\ Conversations /\ AcceptHasReason
    BY DEF WInv, SInv, IInv
  <1>1. CASE LeaveShell \/ (MainStep /\ ~\E c \in Clients : SweepSession(c))
    <2>1. /\ UNCHANGED <<alive, cur, inbox, peer, cpc>>
          /\ fd' = fd \/ fd' = [c \in Clients |-> IF fd[c] = "queued" THEN "closed" ELSE fd[c]]
          /\ lpc' = lpc \/ lpc' = "select"
      BY <1>1 DEF LeaveShell, MainStep, StartListening, StartFails, InitManager, SetupFails,
             BindUdpAndSpawn, CloseListen, ForgetListen, StopRunning, JoinListener, CloseUdp,
             ForgetUdp, JoinUdp, JoinTun, EndSweep, Main, othersIdle, listenerVars,
             sessionVars, tcpVars, clientVars
    <2>2. Conversations'
      BY <1>0, <2>1, ConversationsElsewhere DEF Answering
    <2>3. \/ ~listenOpen'
          \/ fd' = fd /\ listenOpen' = listenOpen
          \/ StartListening
      BY <1>1 DEF LeaveShell, MainStep, StartListening, StartFails, InitManager, SetupFails,
             BindUdpAndSpawn, CloseListen, ForgetListen, StopRunning, JoinListener, CloseUdp,
             ForgetUdp, JoinUdp, JoinTun, EndSweep, Main, othersIdle, tcpVars
    <2>4. StartListening => lpc = "none"
      BY <1>0 DEF StartListening, Main, IInv, ThreadsFollowMain
    <2>5. AcceptHasReason'
      BY <1>0, <2>1, <2>3, <2>4 DEF AcceptHasReason, Queued
    <2> QED
      BY <2>2, <2>5
  <1>2. ASSUME NEW c \in Clients, SweepSession(c) PROVE Conversations' /\ AcceptHasReason'
    <2>1. /\ UNCHANGED <<lpc, cur, inbox, cpc>> /\ alive /\ mpc = "sweep"
          /\ peer' = peer \/ peer' = [peer EXCEPT ![c] = IF @ = "fin" THEN "finSent" ELSE @]
          /\ fd' = fd \/ fd' = [fd EXCEPT ![c] = "closed"]
      BY <1>2 DEF SweepSession, KilledBySigpipe, AfterSend, mainVars, listenerVars, tcpVars,
             clientVars
    <2>2. \A d \in Clients : (peer'[d] = "up" => peer[d] = "up")
                              /\ (fd'[d] = "queued" => fd[d] = "queued")
      BY <1>0, <2>1 DEF TypeOK
    <2>3. Conversations'
      BY <1>0, <2>1, <2>2, ConversationsElsewhere
    <2>4. lpc = "exited"
      BY <1>0, <2>1 DEF IInv, ThreadsFollowMain
    <2> QED
      BY <2>1, <2>3, <2>4 DEF AcceptHasReason
  <1> QED
    BY <1>1, <1>2

\* The listener outside the exchanges: its loop, the table, a failed handshake, the
\* last two sends.
LEMMA ListenerKeepsConversations ==
    ASSUME WInv, IInv',
           \/ SelectListen \/ AcceptFails \/ \E c \in Clients : AcceptWithoutMemory(c)
           \/ SendSuccessHeader \/ SendSuccessBody \/ AddSession \/ DropSession
    PROVE  Conversations' /\ AcceptHasReason'
  <1>0. SInv /\ IInv /\ TypeOK /\ Conversations /\ AcceptHasReason
    BY DEF WInv, SInv, IInv
  <1>1. CASE SelectListen \/ AcceptFails
    <2>1. /\ UNCHANGED <<alive, cur, inbox, peer, cpc, fd, listenOpen>>
          /\ lpc' \in {"accept", "exited", "select"}
          /\ lpc' = "accept" => Queued # {}
      BY <1>1 DEF SelectListen, AcceptFails, Listener, listenerOnly, mainVars, tcpVars,
             clientVars
    <2>2. Conversations'
      BY <1>0, <2>1, ConversationsElsewhere DEF Answering
    <2>3. Queued' = Queued
      BY <2>1 DEF Queued
    <2> QED
      BY <2>1, <2>2, <2>3 DEF AcceptHasReason
  <1>2. ASSUME NEW c \in Clients, AcceptWithoutMemory(c)
        PROVE  Conversations' /\ AcceptHasReason'
    <2>1. /\ UNCHANGED <<alive, cur, inbox, peer, cpc>> /\ lpc' = "select"
          /\ fd' = [fd EXCEPT ![c] = "closed"]
      BY <1>2 DEF AcceptWithoutMemory, Listener, clientVars
    <2>2. \A d \in Clients : fd'[d] = "queued" => fd[d] = "queued"
      BY <1>0, <2>1 DEF TypeOK
    <2> QED
      BY <1>0, <2>1, <2>2, ConversationsElsewhere DEF AcceptHasReason, Answering
  <1>3. CASE SendSuccessHeader \/ SendSuccessBody
    <2>1. /\ UNCHANGED <<cur, inbox, cpc, fd>> /\ alive
          /\ lpc \in {"sendSuccessHeader", "sendSuccessBody"}
          /\ lpc' = lpc \/ lpc' \in {"sendSuccessBody", "add", "fail"}
          /\ peer' = peer \/ peer' = [peer EXCEPT ![cur] = IF @ = "fin" THEN "finSent" ELSE @]
      BY <1>3 DEF SendSuccessHeader, SendSuccessBody, Send, AfterSend, Listener, listenerOnly,
                  KilledBySigpipe, mainVars, listenerVars, tcpVars, clientVars
    <2>2. \A d \in Clients : peer'[d] = "up" => peer[d] = "up"
      BY <1>0, <2>1 DEF TypeOK
    <2> QED
      BY <1>0, <2>1, <2>2, ConversationsElsewhere DEF AcceptHasReason, Answering
  <1>4. CASE AddSession
    <2>1. /\ UNCHANGED <<alive, inbox, cpc, fd, peer>>
          /\ cur' = cur \/ cur' = NULL
          /\ lpc' \in {"select", "fail"}
      BY <1>4 DEF AddSession, Listener, tcpVars, clientVars
    <2> QED
      BY <1>0, <2>1, ConversationsElsewhere DEF AcceptHasReason, Answering
  <1>5. CASE DropSession
    <2>1. /\ UNCHANGED <<alive, inbox, cpc, peer>> /\ cur' = NULL /\ lpc' = "select"
          /\ fd' = [fd EXCEPT ![cur] = "closed"]
      BY <1>5 DEF DropSession, Listener, clientVars
    <2>2. \A d \in Clients : fd'[d] = "queued" => fd[d] = "queued"
      BY <1>0, <2>1 DEF TypeOK
    <2> QED
      BY <1>0, <2>1, <2>2, ConversationsElsewhere DEF AcceptHasReason, Answering
  <1> QED
    BY <1>1, <1>2, <1>3, <1>4, <1>5

\* accept takes a connection whose client has said nothing or its first packet.
LEMMA AcceptKeepsConversations ==
    ASSUME WInv, NEW c \in Clients, Accept(c)
    PROVE  Conversations' /\ AcceptHasReason'
  <1>1. /\ fd[c] = "queued" /\ fd' = [fd EXCEPT ![c] = "open"] /\ cur' = c
        /\ lpc' = "recvHello" /\ UNCHANGED <<alive, inbox, peer, cpc>>
    BY DEF Accept, Listener, CanTake, Queued, clientVars
  <1>2. TypeOK
    BY DEF WInv, SInv, IInv
  <1>3. Conversations'
    <2> SUFFICES ASSUME NEW d \in Clients PROVE ConversationOK(d)'
      BY DEF Conversations
    <2>1. ConversationOK(d)
      BY DEF WInv, Conversations
    <2>2. Unheard(d)' => Unheard(d)
      BY <1>1, <1>2 DEF Unheard, TypeOK
    <2> QED
      BY <1>1, <2>1, <2>2 DEF ConversationOK, Answering
  <1> QED
    BY <1>1, <1>3 DEF AcceptHasReason

\* packet_receive takes the packet that waited, or finds the client gone.
LEMMA ReceiveKeepsConversations ==
    ASSUME WInv, ReceiveHello \/ ReceiveResponse
    PROVE  Conversations' /\ AcceptHasReason'
  <1>0. TypeOK /\ cur \in Clients
    BY DEF WInv, SInv, IInv, TypeOK, OneOwner, Handshaking, ReceiveHello, ReceiveResponse,
           Receive
  <1>1. /\ UNCHANGED <<cur, peer, cpc, fd>> /\ alive
        /\ \/ lpc = "recvHello" /\ lpc' \in {"sendHello", "fail"}
           \/ lpc = "recvResponse" /\ lpc' \in {"sendSuccessHeader", "fail"}
        /\ inbox[cur] # NULL \/ lpc' = "fail"
        /\ inbox' = [inbox EXCEPT ![cur] = NULL]
    BY PacketsAssumption DEF ReceiveHello, ReceiveResponse, Receive, Listener, clientVars
  <1>2. Conversations'
    <2> SUFFICES ASSUME NEW d \in Clients PROVE ConversationOK(d)'
      BY DEF Conversations
    <2>1. ConversationOK(d)
      BY DEF WInv, Conversations
    <2>2. inbox'[d] = IF d = cur THEN NULL ELSE inbox[d]
      BY <1>0, <1>1 DEF TypeOK
    <2>3. CASE d # cur
      BY <1>1, <2>1, <2>2, <2>3 DEF ConversationOK, Unheard
    <2>4. CASE d = cur
      <3>1. fd[d] = "open"
        BY <1>0, <2>4, InHandAlive DEF WInv, SInv
      <3>2. ~Unheard(d)'
        BY <1>1, <3>1 DEF Unheard
      <3>3. CASE lpc = "recvHello"
        BY <1>1, <2>1, <2>2, <2>4, <3>2, <3>3 DEF ConversationOK, Unheard, Answering
      <3>4. CASE lpc = "recvResponse"
        BY <1>1, <2>1, <2>2, <2>4, <3>2, <3>4 DEF ConversationOK, Answering
      <3> QED
        BY <1>1, <3>3, <3>4
    <2> QED
      BY <2>3, <2>4
  <1> QED
    BY <1>1, <1>2 DEF AcceptHasReason

\* The answers to the client's first packet.
LEMMA AnswersKeepConversations ==
    ASSUME WInv, SendHello \/ SendChallengeHeader \/ SendChallengeBody
    PROVE  Conversations' /\ AcceptHasReason'
  <1>0. TypeOK
    BY DEF WInv, SInv, IInv
  <1>1. /\ UNCHANGED <<cur, inbox, cpc, fd>> /\ alive
        /\ lpc \in {"sendHello", "sendChallengeHeader", "sendChallengeBody"}
        /\ lpc' \in Answering \cup {"fail"}
        /\ peer' = peer \/ peer' = [peer EXCEPT ![cur] = IF @ = "fin" THEN "finSent" ELSE @]
    BY DEF SendHello, SendChallengeHeader, SendChallengeBody, Send, AfterSend, Listener,
           listenerOnly, KilledBySigpipe, mainVars, listenerVars, tcpVars, clientVars, Answering
  <1>2. \A d \in Clients : peer'[d] = "up" => peer[d] = "up"
    BY <1>0, <1>1 DEF TypeOK
  <1>3. Conversations'
    <2> SUFFICES ASSUME NEW d \in Clients PROVE ConversationOK(d)'
      BY DEF Conversations
    <2>1. ConversationOK(d)
      BY DEF WInv, Conversations
    <2>2. Unheard(d)' => Unheard(d)
      BY <1>1 DEF Unheard, Answering
    <2> QED
      BY <1>1, <1>2, <2>1, <2>2 DEF ConversationOK, Answering
  <1> QED
    BY <1>1, <1>3 DEF AcceptHasReason, Answering

\* A packet of client c, or its next step.
LEMMA ClientKeepsConversation ==
    ASSUME WInv, NEW c \in Clients, ClientStep(c)
    PROVE  ConversationOK(c)'
  <1>0. /\ TypeOK /\ IInv /\ ConversationOK(c)
        /\ SentAtStep /\ (fd[c] = "queued" => sent[c] = 0)
    BY DEF WInv, SInv, IInv, Conversations
  <1>1. /\ UNCHANGED <<alive, mpc, lpc, cur, fd, sent, peer>>
        /\ cpc' \in [Clients -> {"off", "hello", "waitHello", "waitChallenge", "waitSuccess",
                                 "established", "closed"}]
        /\ cpc'[c] # "off"
    BY <1>0 DEF ClientStep, ClientHello, ClientTakesHello, ClientResponds, ClientEstablished,
           ClientGivesUp, ClientSends, serverVars, mainVars, listenerVars, tcpVars, TypeOK
  <1>2. Unheard(c)' = Unheard(c)
    BY <1>1 DEF Unheard
  <1>3. Unheard(c) => sent[c] = 0
    BY <1>0 DEF Unheard, SentAtStep
  <1>4. lpc \in Answering /\ cur = c =>
            /\ ~Unheard(c)
            /\ sent[c] <= 3
            /\ sent[c] = 3 => lpc = "recvResponse"
    <2>1. cur = c => fd[c] = "open"
      BY <1>0, InHandAlive
    <2> QED
      BY <1>0, <2>1 DEF Unheard, Answering, SentAtStep
  <1>5. alive /\ (Unheard(c) \/ cur = c) => ~Gone(c)
    BY <1>0, InHandAlive DEF Unheard, Gone
  <1>6. CASE ClientHello(c)
    <2>1. cpc[c] = "hello" /\ cpc'[c] = "waitHello" /\ inbox'[c] # NULL
      BY <1>0, <1>6, PacketsAssumption DEF ClientHello, ClientSends, TypeOK
    <2> QED
      BY <1>0, <1>1, <1>2, <2>1 DEF ConversationOK
  <1>7. CASE ClientTakesHello(c)
    <2>1. /\ cpc[c] = "waitHello" /\ cpc'[c] = "waitChallenge" /\ inbox' = inbox
          /\ sent[c] # 0
      BY <1>0, <1>7 DEF ClientTakesHello, TypeOK, tcpVars, HelloSent
    <2> QED
      BY <1>0, <1>1, <1>2, <1>3, <2>1 DEF ConversationOK
  <1>8. CASE ClientResponds(c)
    <2>1. /\ cpc[c] = "waitChallenge" /\ cpc'[c] = "waitSuccess" /\ inbox'[c] # NULL
          /\ sent[c] >= 3
      BY <1>0, <1>8, PacketsAssumption DEF ClientResponds, ClientSends, TypeOK, ChallengeSent
    <2>2. lpc \in Answering /\ cur = c => lpc = "recvResponse"
      BY <1>0, <1>4, <2>1 DEF TypeOK
    <2> QED
      BY <1>0, <1>1, <1>2, <2>1, <2>2 DEF ConversationOK
  <1>9. CASE ClientEstablished(c)
    <2>1. cpc[c] = "waitSuccess" /\ inbox' = inbox /\ sent[c] >= 5
      BY <1>9 DEF ClientEstablished, tcpVars, SuccessSent
    <2>2. ~(lpc \in Answering /\ cur = c)
      BY <1>0, <1>4, <2>1 DEF TypeOK
    <2> QED
      BY <1>0, <1>1, <1>2, <2>1, <2>2 DEF ConversationOK
  <1>10. CASE ClientGivesUp(c)
    <2>1. Gone(c)
      BY <1>10 DEF ClientGivesUp
    <2> QED
      BY <1>1, <1>2, <1>5, <2>1 DEF ConversationOK
  <1> QED
    BY <1>6, <1>7, <1>8, <1>9, <1>10 DEF ClientStep

\* What a client or its host does changes no other conversation.
LEMMA ClientsKeepConversations ==
    ASSUME WInv, NEW c \in Clients,
           \/ ClientStep(c) \/ ClientConnect(c) \/ ClientCloses(c)
           \/ ResetArrives(c) \/ ClientDatagram(c)
    PROVE  Conversations' /\ AcceptHasReason'
  <1>0. TypeOK /\ IInv /\ Conversations /\ AcceptHasReason
    BY DEF WInv, SInv, IInv
  <1>1. /\ UNCHANGED <<alive, lpc, cur, listenOpen>>
        /\ \A d \in Clients : d # c => /\ fd'[d] = fd[d] /\ inbox'[d] = inbox[d]
                                       /\ peer'[d] = peer[d] /\ cpc'[d] = cpc[d]
        /\ fd[c] = "queued" => fd'[c] = "queued"
    BY <1>0 DEF ClientStep, ClientHello, ClientTakesHello, ClientResponds, ClientEstablished,
           ClientGivesUp, ClientSends, ClientConnect, ClientCloses, ResetArrives,
           ClientDatagram,
           serverVars, mainVars, listenerVars, tcpVars, clientVars, TypeOK
  <1>2. AcceptHasReason'
    <2>1. \A d \in Queued : d \in Queued'
      BY <1>1 DEF Queued
    <2> QED
      BY <1>0, <1>1, <2>1 DEF AcceptHasReason
  <1>3. ASSUME NEW d \in Clients, d # c PROVE ConversationOK(d)'
    <2>1. ConversationOK(d)
      BY <1>0 DEF Conversations
    <2>2. Unheard(d)' = Unheard(d)
      BY <1>1, <1>3 DEF Unheard
    <2> QED
      BY <1>1, <1>3, <2>1, <2>2 DEF ConversationOK
  <1>4. ConversationOK(c)
    BY <1>0 DEF Conversations
  <1>5. ASSUME ClientConnect(c) PROVE ConversationOK(c)'
    <2>1. /\ cpc[c] = "off" /\ fd[c] = "none" /\ cpc'[c] = "hello" /\ inbox' = inbox
      BY <1>0, <1>5 DEF ClientConnect, IInv, SocketsAccounted, TypeOK
    <2>2. cur # c
      BY <1>0, <2>1, InHandAlive
    <2> QED
      BY <1>1, <1>4, <2>1, <2>2 DEF ConversationOK
  <1>6. ASSUME ClientCloses(c) PROVE ConversationOK(c)'
    <2>1. cpc'[c] = "closed" /\ peer'[c] # "up"
      BY <1>0, <1>6 DEF ClientCloses, TypeOK
    <2> QED
      BY <2>1 DEF ConversationOK
  <1>7. ASSUME ResetArrives(c) \/ ClientDatagram(c) PROVE ConversationOK(c)'
    <2>1. UNCHANGED <<fd, inbox, cpc>> /\ (peer'[c] = "up" => peer[c] = "up")
      BY <1>0, <1>7 DEF ResetArrives, ClientDatagram, tcpVars, clientVars, TypeOK
    <2>2. Unheard(c)' = Unheard(c)
      BY <1>1, <2>1 DEF Unheard
    <2> QED
      BY <1>1, <1>4, <2>1, <2>2 DEF ConversationOK
  <1>8. ASSUME ClientStep(c) PROVE ConversationOK(c)'
    BY <1>8, ClientKeepsConversation
  <1> QED
    BY <1>2, <1>3, <1>5, <1>6, <1>7, <1>8 DEF Conversations

\* No step leaves the listener and its client waiting for each other.
LEMMA NextPreservesWInv == WInv /\ [Next]_vars => WInv'
  <1> SUFFICES ASSUME WInv, [Next]_vars PROVE WInv'
    OBVIOUS
  <1>0. SInv /\ Conversations /\ AcceptHasReason
    BY DEF WInv
  <1>1. SInv' /\ IInv'
    BY <1>0, NextPreservesSInv DEF SInv
  <1>2. CASE MainStep \/ LeaveShell
    BY <1>1, <1>2, MainKeepsConversations DEF WInv
  <1>3. CASE ListenerStep
    BY <1>1, <1>3, ListenerKeepsConversations, AcceptKeepsConversations,
       ReceiveKeepsConversations, AnswersKeepConversations DEF ListenerStep, WInv
  <1>4. CASE UdpStep \/ TunStep \/ UNCHANGED vars
    <2>1. UNCHANGED <<alive, lpc, cur, fd, inbox, peer, cpc, listenOpen>>
      BY <1>4 DEF UdpStep, SelectUdp, ReceiveDatagram, ReceiveFails, LearnPeer,
         DecodeDatagram, WriteTun, udpOnly, TunStep, SelectTun, ReadTun, tunOnly, vars,
         mainVars,
         listenerVars, sessionVars, tcpVars, clientVars
    <2>2. Conversations'
      BY <1>0, <2>1, ConversationsElsewhere
    <2>3. AcceptHasReason'
      BY <1>0, <2>1 DEF AcceptHasReason, Queued
    <2> QED
      BY <1>1, <2>2, <2>3 DEF WInv
  <1>5. CASE \E c \in Clients :
               \/ ClientStep(c) \/ ClientConnect(c) \/ ClientCloses(c)
               \/ ResetArrives(c) \/ ClientDatagram(c)
    BY <1>1, <1>5, ClientsKeepConversations DEF WInv
  <1> QED
    BY <1>2, <1>3, <1>4, <1>5 DEF Next, Environment

\* The listener never blocks but for a client whose move it is
\* (session.c:111-187, server_env.c:71-86).
THEOREM ListenerWaitsForClient == Spec => []ListenerWaitsForClientOnly
  <1>1. Init => WInv
    <2> SUFFICES ASSUME Init PROVE WInv
      OBVIOUS
    <2>1. SInv
      BY InitEstablishesSInv
    <2>2. Conversations /\ AcceptHasReason
      BY DEF Init, Conversations, ConversationOK, Unheard, AcceptHasReason, Answering
    <2> QED
      BY <2>1, <2>2 DEF WInv
  <1>2. WInv /\ [Next]_vars => WInv'
    BY NextPreservesWInv
  <1>3. WInv => ListenerWaitsForClientOnly
    <2> SUFFICES ASSUME WInv, alive PROVE ListenerWaitsForClientOnly
      BY DEF ListenerWaitsForClientOnly
    <2>1. SentAtStep /\ AcceptHasReason /\ (cur # NULL => ConversationOK(cur))
      BY DEF WInv, SInv, IInv, TypeOK, Conversations
    <2>2. lpc \in Handshaking => cur # NULL /\ sent[cur] \in Nat
      BY DEF WInv, SInv, IInv, TypeOK, OneOwner
    <2>3. CASE lpc = "recvHello"
      BY <2>1, <2>2, <2>3 DEF ConversationOK, Unheard, Handshaking, ListenerWaitsForClientOnly,
         ClientToMove
    <2>4. CASE lpc = "recvResponse"
      BY <2>1, <2>2, <2>4 DEF ConversationOK, Answering, Handshaking, SentAtStep,
         ListenerWaitsForClientOnly, ClientToMove, HelloSent, ChallengeSent
    <2> QED
      BY <2>1, <2>3, <2>4 DEF AcceptHasReason, ListenerWaitsForClientOnly
  <1> QED
    BY <1>1, <1>2, <1>3, PTL DEF Spec
===============================================================================
