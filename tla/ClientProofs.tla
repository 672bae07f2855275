----------------------------- MODULE ClientProofs -----------------------------
(***************************************************************************)
(* The client's two threads may destroy the session at the same time; what *)
(* is proved here is that, even so, nothing leaves the host once the keys  *)
(* are zeroed, no connection is left open and the shell keeps its input.   *)
(* The argument is the order inside session_destroy: a descriptor is       *)
(* closed before any variable that depends on it is forgotten, closing is  *)
(* never undone, and only the second thread finds a socket zeroed.         *)
(***************************************************************************)
EXTENDS Client, TLAPS

\* The parts of the invariant that say in which order things go.
Order ==
    /\ ThreadsTogether
    /\ UdpClosedFirst
    /\ TcpClosedFirst
    /\ MarkedLast
    /\ SealedWithLiveKeys
    /\ ConnectionClosedAtExit

\* The flags are Booleans whatever happens.
LEMMA FlagsPreserved ==
    ASSUME FlagsOK, Next
    PROVE  FlagsOK'
  <1>1. ASSUME NEW t \in Destroyers, Destroy(t) PROVE FlagsOK'
    BY <1>1, Zenon DEF Destroy, TestTcp, CloseTcp, TestUdp, CloseUdp, ForgetUdp, Wipe,
           ForgetTcp,
           SetState, othersUntouched, sessionVars, FlagsOK
  <1>2. CASE StartFails \/ Start \/ CmdDisconnect
    BY <1>2, Zenon DEF StartFails, Start, CmdDisconnect, sessionVars, FlagsOK
  <1>3. CASE InputComes \/ CmdOther \/ EndOfInput \/ NoticeExit \/ Disconnected \/ Leave \/ Cleanup
    BY <1>3, Zenon DEF InputComes, CmdOther, EndOfInput, NoticeExit, mainOnly, Disconnected, Leave, Cleanup, sessionVars, FlagsOK
  <1>4. CASE CheckEstablished \/ CallRecv \/ RecvReturns \/ FinalCheck
    BY <1>4, Zenon DEF CheckEstablished, CallRecv, RecvReturns, FinalCheck, receiverOnly,
           sessionVars, FlagsOK
  <1>5. CASE ForgetConnSocket \/ SetConnState \/ RaiseFlag
    BY <1>5, Zenon DEF ForgetConnSocket, SetConnState, RaiseFlag, receiverOnly, sessionVars,
           FlagsOK
  <1>6. CASE SelectTun \/ TakeNonce \/ Seal \/ SendDatagram
    BY <1>6, Zenon DEF SelectTun, TakeNonce, Seal, SendDatagram, senderOnly, sessionVars,
           FlagsOK
  <1>7. CASE UdpReceiverEnds \/ ServerLeaves
    BY <1>7, Zenon DEF UdpReceiverEnds, ServerLeaves, sessionVars, FlagsOK
  <1> QED
    BY <1>1, <1>2, <1>3, <1>4, <1>5, <1>6, <1>7
       DEF Next, MainStep, UserStep, ReceiverStep, SenderStep, Destroyers

\* A step of session_destroy, by either thread, keeps the types.
LEMMA DestroyKeepsType ==
    ASSUME TypeOK, FlagsOK',
           NEW t \in Destroyers, Destroy(t)
    PROVE  TypeOK'
  <1> USE DEF DestroyStep, othersUntouched, senderVars, connVars, sessionVars
  <1>1. CASE TestTcp(t)
    BY <1>1 DEF TestTcp, TypeOK
  <1>2. CASE CloseTcp(t)
    BY <1>2 DEF CloseTcp, Close, Descriptor, TypeOK
  <1>3. CASE TestUdp(t)
    BY <1>3 DEF TestUdp, TypeOK
  <1>4. CASE CloseUdp(t)
    BY <1>4 DEF CloseUdp, Close, Descriptor, TypeOK
  <1>5. CASE ForgetUdp(t)
    BY <1>5 DEF ForgetUdp, TypeOK
  <1>6. CASE Wipe(t)
    BY <1>6 DEF Wipe, TypeOK
  <1>7. CASE ForgetTcp(t)
    BY <1>7 DEF ForgetTcp, TypeOK
  <1>8. CASE SetState(t)
    BY <1>8 DEF SetState, TypeOK
  <1> QED
    BY <1>1, <1>2, <1>3, <1>4, <1>5, <1>6, <1>7, <1>8 DEF Destroy

\* The main thread outside session_destroy, and what the user makes it do,
\* keeps the types.
LEMMA MainKeepsType ==
    ASSUME TypeOK, FlagsOK',
           \/ StartFails \/ Start \/ InputComes \/ CmdDisconnect \/ CmdOther \/ EndOfInput
           \/ NoticeExit \/ Disconnected \/ Leave \/ Cleanup
    PROVE  TypeOK'
  <1> USE DEF Main, senderVars, sessionVars, connVars
  <1>1. CASE StartFails
    <2>1. CASE UNCHANGED <<connVars, opened>>
      BY <1>1, <2>1 DEF StartFails, TypeOK
    <2>2. CASE connSocket' = "tcp" /\ connState' = "CONNECTED" /\ opened' = {"stdin", "tcp"}
      BY <1>1, <2>2 DEF StartFails, TypeOK
    <2> QED
      BY <1>1, <2>1, <2>2 DEF StartFails
  <1>2. CASE Start
    BY <1>2 DEF Start, TypeOK
  <1>3. CASE CmdDisconnect
    BY <1>3 DEF CmdDisconnect, TypeOK, Destroyers
  <1>4. CASE InputComes \/ CmdOther \/ EndOfInput
    <2>1. mainOnly /\ mpc' \in {"line", "shell", "leave"}
      BY <1>4 DEF InputComes, CmdOther, EndOfInput
    <2> QED
      BY <2>1 DEF mainOnly, TypeOK
  <1>5. CASE NoticeExit
    BY <1>5 DEF NoticeExit, mainOnly, TypeOK
  <1>6. CASE Disconnected
    BY <1>6 DEF Disconnected, TypeOK
  <1>7. CASE Leave
    BY <1>7 DEF Leave, TypeOK
  <1>8. CASE Cleanup
    BY <1>8 DEF Cleanup, Close, Descriptor, TypeOK
  <1> QED
    BY <1>1, <1>2, <1>3, <1>4, <1>5, <1>6, <1>7, <1>8

\* The receiver outside session_destroy keeps the types.
LEMMA ReceiverKeepsType ==
    ASSUME TypeOK, FlagsOK',
           \/ CheckEstablished \/ CallRecv \/ RecvReturns \/ FinalCheck
           \/ ForgetConnSocket \/ SetConnState \/ RaiseFlag
    PROVE  TypeOK'
  <1> USE DEF Receiver, Alive, receiverOnly, senderVars, sessionVars, connVars
  <1>1. CASE CheckEstablished
    BY <1>1 DEF CheckEstablished, TypeOK
  <1>2. CASE CallRecv
    BY <1>2 DEF CallRecv, TypeOK
  <1>3. CASE RecvReturns
    BY <1>3 DEF RecvReturns, TypeOK
  <1>4. CASE FinalCheck
    BY <1>4 DEF FinalCheck, TypeOK
  <1>5. CASE ForgetConnSocket
    BY <1>5 DEF ForgetConnSocket, TypeOK
  <1>6. CASE SetConnState
    BY <1>6 DEF SetConnState, TypeOK
  <1>7. CASE RaiseFlag
    BY <1>7 DEF RaiseFlag, TypeOK
  <1> QED
    BY <1>1, <1>2, <1>3, <1>4, <1>5, <1>6, <1>7

\* The TUN sender, the end of the UDP receiver and the server's departure
\* keeps the types.
LEMMA OthersKeepsType ==
    ASSUME TypeOK, FlagsOK',
           SenderStep \/ UdpReceiverEnds \/ ServerLeaves
    PROVE  TypeOK'
  <1> USE DEF Sender, Alive, senderOnly, senderVars, sessionVars, connVars
  <1>1. CASE SelectTun
    BY <1>1 DEF SelectTun, TypeOK
  <1>2. CASE TakeNonce
    BY <1>2 DEF TakeNonce, TypeOK, FlagsOK
  <1>3. CASE Seal
    BY <1>3 DEF Seal, TypeOK, FlagsOK
  <1>4. CASE SendDatagram
    BY <1>4 DEF SendDatagram, TypeOK
  <1>5. CASE UdpReceiverEnds
    BY <1>5 DEF UdpReceiverEnds, TypeOK
  <1>6. CASE ServerLeaves
    BY <1>6 DEF ServerLeaves, TypeOK
  <1> QED
    BY <1>1, <1>2, <1>3, <1>4, <1>5, <1>6 DEF SenderStep

\* A step of session_destroy, by either thread, keeps the order.
LEMMA DestroyKeepsOrder ==
    ASSUME TypeOK, Order,
           NEW t \in Destroyers, Destroy(t)
    PROVE  Order'
  <1> USE DEF DestroyStep, othersUntouched, senderVars, connVars, sessionVars
  <1>1. CASE TestTcp(t)
    BY <1>1 DEF TestTcp, TypeOK, Order, Destroyers, Started, ThreadsTogether,
       UdpClosedFirst, TcpClosedFirst, MarkedLast, SealedWithLiveKeys, ConnectionClosedAtExit
  <1>2. CASE CloseTcp(t)
    BY <1>2 DEF CloseTcp, Close, Descriptor, TypeOK, Order, Destroyers, Started,
       ThreadsTogether, UdpClosedFirst, TcpClosedFirst, MarkedLast, SealedWithLiveKeys,
       ConnectionClosedAtExit
  <1>3. CASE TestUdp(t)
    BY <1>3 DEF TestUdp, TypeOK, Order, Destroyers, Started, ThreadsTogether,
       UdpClosedFirst, TcpClosedFirst, MarkedLast, SealedWithLiveKeys, ConnectionClosedAtExit
  <1>4. CASE CloseUdp(t)
    BY <1>4 DEF CloseUdp, Close, Descriptor, TypeOK, Order, Destroyers, Started,
       ThreadsTogether, UdpClosedFirst, TcpClosedFirst, MarkedLast, SealedWithLiveKeys,
       ConnectionClosedAtExit
  <1>5. CASE ForgetUdp(t)
    BY <1>5 DEF ForgetUdp, TypeOK, Order, Destroyers, Started, ThreadsTogether,
       UdpClosedFirst, TcpClosedFirst, MarkedLast, SealedWithLiveKeys, ConnectionClosedAtExit
  <1>6. CASE Wipe(t)
    BY <1>6 DEF Wipe, TypeOK, Order, Destroyers, Started, ThreadsTogether, UdpClosedFirst,
       TcpClosedFirst, MarkedLast, SealedWithLiveKeys, ConnectionClosedAtExit
  <1>7. CASE ForgetTcp(t)
    BY <1>7 DEF ForgetTcp, TypeOK, Order, Destroyers, Started, ThreadsTogether,
       UdpClosedFirst, TcpClosedFirst, MarkedLast, SealedWithLiveKeys, ConnectionClosedAtExit
  <1>8. CASE SetState(t)
    BY <1>8 DEF SetState, TypeOK, Order, Destroyers, Started, ThreadsTogether,
       UdpClosedFirst, TcpClosedFirst, MarkedLast, SealedWithLiveKeys, ConnectionClosedAtExit
  <1> QED
    BY <1>1, <1>2, <1>3, <1>4, <1>5, <1>6, <1>7, <1>8 DEF Destroy

\* The main thread outside session_destroy, and what the user makes it do,
\* keeps the order.
LEMMA MainKeepsOrder ==
    ASSUME TypeOK, Order,
           \/ StartFails \/ Start \/ InputComes \/ CmdDisconnect \/ CmdOther \/ EndOfInput
           \/ NoticeExit \/ Disconnected \/ Leave \/ Cleanup
    PROVE  Order'
  <1> USE DEF Main, senderVars, sessionVars, connVars
  <1>1. CASE StartFails
    BY <1>1 DEF StartFails, TypeOK, Order, Destroyers, Started, ThreadsTogether,
       UdpClosedFirst, TcpClosedFirst, MarkedLast, SealedWithLiveKeys, ConnectionClosedAtExit
  <1>2. CASE Start
    BY <1>2 DEF Start, TypeOK, Order, Destroyers, Started, ThreadsTogether, UdpClosedFirst,
       TcpClosedFirst, MarkedLast, SealedWithLiveKeys, ConnectionClosedAtExit
  <1>3. CASE CmdDisconnect
    BY <1>3 DEF CmdDisconnect, TypeOK, Order, Destroyers, Started, ThreadsTogether,
       UdpClosedFirst, TcpClosedFirst, MarkedLast, SealedWithLiveKeys, ConnectionClosedAtExit
  <1>4. CASE InputComes \/ CmdOther \/ EndOfInput
    BY <1>4 DEF InputComes, CmdOther, EndOfInput, mainOnly, TypeOK, Order, Destroyers, Started, ThreadsTogether,
       UdpClosedFirst, TcpClosedFirst, MarkedLast, SealedWithLiveKeys, ConnectionClosedAtExit
  <1>5. CASE NoticeExit
    BY <1>5 DEF NoticeExit, mainOnly, TypeOK, Order, Destroyers, Started, ThreadsTogether,
       UdpClosedFirst, TcpClosedFirst, MarkedLast, SealedWithLiveKeys, ConnectionClosedAtExit
  <1>6. CASE Disconnected
    BY <1>6 DEF Disconnected, TypeOK, Order, Destroyers, Started, ThreadsTogether,
       UdpClosedFirst, TcpClosedFirst, MarkedLast, SealedWithLiveKeys, ConnectionClosedAtExit
  <1>7. CASE Leave
    BY <1>7 DEF Leave, TypeOK, Order, Destroyers, Started, ThreadsTogether, UdpClosedFirst,
       TcpClosedFirst, MarkedLast, SealedWithLiveKeys, ConnectionClosedAtExit
  <1>8. CASE Cleanup
    BY <1>8 DEF Cleanup, Close, Descriptor, TypeOK, Order, Destroyers, Started,
       ThreadsTogether, UdpClosedFirst, TcpClosedFirst, MarkedLast, SealedWithLiveKeys,
       ConnectionClosedAtExit
  <1> QED
    BY <1>1, <1>2, <1>3, <1>4, <1>5, <1>6, <1>7, <1>8

\* The receiver outside session_destroy keeps the order.
LEMMA ReceiverKeepsOrder ==
    ASSUME TypeOK, Order,
           \/ CheckEstablished \/ CallRecv \/ RecvReturns \/ FinalCheck
           \/ ForgetConnSocket \/ SetConnState \/ RaiseFlag
    PROVE  Order'
  <1> USE DEF Receiver, Alive, receiverOnly, senderVars, sessionVars, connVars
  <1>1. CASE CheckEstablished
    BY <1>1 DEF CheckEstablished, TypeOK, Order, Destroyers, Started, ThreadsTogether,
       UdpClosedFirst, TcpClosedFirst, MarkedLast, SealedWithLiveKeys, ConnectionClosedAtExit
  <1>2. CASE CallRecv
    BY <1>2 DEF CallRecv, TypeOK, Order, Destroyers, Started, ThreadsTogether,
       UdpClosedFirst, TcpClosedFirst, MarkedLast, SealedWithLiveKeys, ConnectionClosedAtExit
  <1>3. CASE RecvReturns
    BY <1>3 DEF RecvReturns, TypeOK, Order, Destroyers, Started, ThreadsTogether,
       UdpClosedFirst, TcpClosedFirst, MarkedLast, SealedWithLiveKeys, ConnectionClosedAtExit
  <1>4. CASE FinalCheck
    BY <1>4 DEF FinalCheck, TypeOK, Order, Destroyers, Started, ThreadsTogether,
       UdpClosedFirst, TcpClosedFirst, MarkedLast, SealedWithLiveKeys, ConnectionClosedAtExit
  <1>5. CASE ForgetConnSocket
    BY <1>5 DEF ForgetConnSocket, TypeOK, Order, Destroyers, Started, ThreadsTogether,
       UdpClosedFirst, TcpClosedFirst, MarkedLast, SealedWithLiveKeys, ConnectionClosedAtExit
  <1>6. CASE SetConnState
    BY <1>6 DEF SetConnState, TypeOK, Order, Destroyers, Started, ThreadsTogether,
       UdpClosedFirst, TcpClosedFirst, MarkedLast, SealedWithLiveKeys, ConnectionClosedAtExit
  <1>7. CASE RaiseFlag
    BY <1>7 DEF RaiseFlag, TypeOK, Order, Destroyers, Started, ThreadsTogether,
       UdpClosedFirst, TcpClosedFirst, MarkedLast, SealedWithLiveKeys, ConnectionClosedAtExit
  <1> QED
    BY <1>1, <1>2, <1>3, <1>4, <1>5, <1>6, <1>7

\* The TUN sender, the end of the UDP receiver and the server's departure
\* keeps the order.
LEMMA OthersKeepsOrder ==
    ASSUME TypeOK, Order,
           SenderStep \/ UdpReceiverEnds \/ ServerLeaves
    PROVE  Order'
  <1> USE DEF Sender, Alive, senderOnly, senderVars, sessionVars, connVars
  <1>1. CASE SelectTun
    BY <1>1 DEF SelectTun, TypeOK, Order, Destroyers, Started, ThreadsTogether,
       UdpClosedFirst, TcpClosedFirst, MarkedLast, SealedWithLiveKeys, ConnectionClosedAtExit
  <1>2. CASE TakeNonce
    BY <1>2 DEF TakeNonce, TypeOK, Order, Destroyers, Started, ThreadsTogether,
       UdpClosedFirst, TcpClosedFirst, MarkedLast, SealedWithLiveKeys, ConnectionClosedAtExit
  <1>3. CASE Seal
    BY <1>3 DEF Seal, TypeOK, Order, Destroyers, Started, ThreadsTogether, UdpClosedFirst,
       TcpClosedFirst, MarkedLast, SealedWithLiveKeys, ConnectionClosedAtExit
  <1>4. CASE SendDatagram
    BY <1>4 DEF SendDatagram, TypeOK, Order, Destroyers, Started, ThreadsTogether,
       UdpClosedFirst, TcpClosedFirst, MarkedLast, SealedWithLiveKeys, ConnectionClosedAtExit
  <1>5. CASE UdpReceiverEnds
    BY <1>5 DEF UdpReceiverEnds, TypeOK, Order, Destroyers, Started, ThreadsTogether,
       UdpClosedFirst, TcpClosedFirst, MarkedLast, SealedWithLiveKeys, ConnectionClosedAtExit
  <1>6. CASE ServerLeaves
    BY <1>6 DEF ServerLeaves, TypeOK, Order, Destroyers, Started, ThreadsTogether,
       UdpClosedFirst, TcpClosedFirst, MarkedLast, SealedWithLiveKeys, ConnectionClosedAtExit
  <1> QED
    BY <1>1, <1>2, <1>3, <1>4, <1>5, <1>6 DEF SenderStep

\* What keeps the standard input open under the shell.
InputOrder ==
    /\ ZeroedByTheWipe
    /\ InputLostToTwo
    /\ DestroyedOnceEach
    /\ ShellKeepsItsInput

\* A step of session_destroy, by either thread, closes the standard input only
\* when both threads are there.
LEMMA DestroyKeepsInput ==
    ASSUME TypeOK, ThreadsTogether, InputOrder,
           NEW t \in Destroyers, Destroy(t)
    PROVE  InputOrder'
  <1> USE DEF DestroyStep, othersUntouched, sessionVars, Destroyers, Started, InputOrder,
              ZeroedByTheWipe, InputLostToTwo, DestroyedOnceEach, ShellKeepsItsInput
  <1>1. Started /\ dpc[t] # "none"
    BY DEF Destroy, TestTcp, CloseTcp, TestUdp, CloseUdp, ForgetUdp, Wipe, ForgetTcp, SetState,
           ThreadsTogether
  <1>2. /\ mpc' = mpc /\ rpc' = rpc
        /\ \A u \in Destroyers : u # t => dpc'[u] = dpc[u]
        /\ dpc'[t] # "none"
    BY DEF Destroy, TestTcp, CloseTcp, TestUdp, CloseUdp, ForgetUdp, Wipe, ForgetTcp, SetState,
           TypeOK
  <1>3. DestroyedOnceEach'
    BY <1>1, <1>2
  <1>4. CASE CloseTcp(t) \/ CloseUdp(t)
    <2>1. "stdin" \in opened /\ "stdin" \notin opened' => \A u \in Destroyers : dpc[u] # "none"
      BY <1>1, <1>4 DEF CloseTcp, CloseUdp, Close, Descriptor, TypeOK
    <2>2. InputLostToTwo'
      BY <1>2, <1>4, <2>1 DEF CloseTcp, CloseUdp, Close, TypeOK
    <2>3. ShellKeepsItsInput'
      BY <1>2, <1>4, <1>1, <2>1, <2>2 DEF CloseTcp, CloseUdp, Close, TypeOK, ThreadsTogether
    <2>4. ZeroedByTheWipe'
      BY <1>1, <1>2, <1>4 DEF CloseTcp, CloseUdp, TypeOK
    <2> QED
      BY <1>3, <2>2, <2>3, <2>4
  <1>5. CASE TestTcp(t) \/ TestUdp(t) \/ ForgetUdp(t) \/ Wipe(t) \/ ForgetTcp(t) \/ SetState(t)
    <2>1. opened' = opened
      BY <1>5 DEF TestTcp, TestUdp, ForgetUdp, Wipe, ForgetTcp, SetState
    <2>2. InputLostToTwo' /\ ShellKeepsItsInput'
      BY <1>2, <2>1
    <2>3. ZeroedByTheWipe'
      BY <1>1, <1>2, <1>5 DEF TestTcp, TestUdp, ForgetUdp, Wipe, ForgetTcp, SetState, TypeOK
    <2> QED
      BY <1>3, <2>2, <2>3
  <1> QED
    BY <1>4, <1>5 DEF Destroy

\* Every other step of the client leaves the standard input alone.
LEMMA OthersKeepInput ==
    ASSUME TypeOK, ThreadsTogether, InputOrder,
           \/ StartFails \/ Start \/ InputComes \/ CmdDisconnect \/ CmdOther \/ EndOfInput
           \/ NoticeExit \/ Disconnected \/ Leave \/ Cleanup
           \/ CheckEstablished \/ CallRecv \/ RecvReturns \/ FinalCheck
           \/ ForgetConnSocket \/ SetConnState \/ RaiseFlag
           \/ SenderStep \/ UdpReceiverEnds \/ ServerLeaves
    PROVE  InputOrder'
  <1> USE DEF sessionVars, connVars, senderVars, Destroyers, Started, InputOrder,
              ZeroedByTheWipe, InputLostToTwo, DestroyedOnceEach, ShellKeepsItsInput
  <1>1. CASE StartFails \/ Start
    BY <1>1 DEF StartFails, Start, TypeOK, ThreadsTogether
  <1>2. CASE CmdDisconnect \/ InputComes \/ CmdOther \/ EndOfInput \/ NoticeExit
    BY <1>2 DEF CmdDisconnect, InputComes, CmdOther, EndOfInput, NoticeExit, mainOnly, Main, TypeOK
  <1>3. CASE Disconnected \/ Leave \/ Cleanup
    BY <1>3 DEF Disconnected, Leave, Cleanup, Main, Close, Descriptor, TypeOK
  <1>4. CASE CheckEstablished \/ CallRecv \/ RecvReturns \/ ForgetConnSocket
             \/ SetConnState \/ RaiseFlag
    BY <1>4 DEF CheckEstablished, CallRecv, RecvReturns, ForgetConnSocket, SetConnState,
           RaiseFlag, Receiver, receiverOnly, TypeOK
  <1>5. CASE FinalCheck
    BY <1>5 DEF FinalCheck, Receiver, receiverOnly, TypeOK
  <1>6. CASE SenderStep \/ UdpReceiverEnds \/ ServerLeaves
    BY <1>6 DEF SenderStep, SelectTun, TakeNonce, Seal, SendDatagram, Sender, senderOnly,
           UdpReceiverEnds, ServerLeaves
  <1> QED
    BY <1>1, <1>2, <1>3, <1>4, <1>5, <1>6

\* The types hold, initially and after every step.
LEMMA TypeInitially == Init => TypeOK
  <1>1. Init => FlagsOK
    BY Zenon DEF Init, FlagsOK
  <1>2. Init => dpc \in [Destroyers -> {"none", "testTcp", "closeTcp", "testUdp", "closeUdp",
                                       "forgetUdp", "wipe", "setState", "done"}]
    BY DEF Init
  <1>3. Init => unwiped \in [Destroyers -> SUBSET Parts]
    BY DEF Init
  <1>4. Init => sealing \in [key : BOOLEAN, nonce : BOOLEAN]
    BY DEF Init
  <1> QED
    BY <1>1, <1>2, <1>3, <1>4 DEF Init, TypeOK

\* The types hold after every step of the client.
LEMMA TypePreserved == TypeOK /\ [Next]_vars => TypeOK'
  <1> SUFFICES ASSUME TypeOK, [Next]_vars PROVE TypeOK'
    OBVIOUS
  <1>1. CASE UNCHANGED vars
    BY <1>1 DEF vars, FlagsOK, TypeOK, senderVars, sessionVars, connVars
  <1>2. CASE Next
    <2>1. FlagsOK'
      BY <1>2, FlagsPreserved DEF TypeOK
    <2> QED
      BY <1>2, <2>1, DestroyKeepsType, MainKeepsType, ReceiverKeepsType, OthersKeepsType
         DEF Next, MainStep, UserStep, ReceiverStep, Destroyers
  <1> QED
    BY <1>1, <1>2

\* The client's invariant holds whatever the user, the server and the scheduler
\* do, and however two session_destroy calls interleave.
THEOREM ClientInvariant == Spec => []IInv
  <1>1. Init => IInv
    <2>1. Init => Order
      BY DEF Init, Order, Destroyers, Started, ThreadsTogether, UdpClosedFirst,
             TcpClosedFirst, MarkedLast, SealedWithLiveKeys, ConnectionClosedAtExit
    <2>2. Init => InputOrder
      BY DEF Init, InputOrder, Destroyers, Started, ZeroedByTheWipe, InputLostToTwo,
             DestroyedOnceEach, ShellKeepsItsInput
    <2> QED
      BY <2>1, <2>2, TypeInitially DEF IInv, Order, InputOrder
  <1>2. IInv /\ [Next]_vars => IInv'
    <2> SUFFICES ASSUME IInv, [Next]_vars PROVE IInv'
      OBVIOUS
    <2>1. TypeOK /\ ThreadsTogether /\ Order /\ InputOrder /\ TypeOK'
      BY TypePreserved DEF IInv, Order, InputOrder
    <2>2. CASE UNCHANGED vars
      <3>1. Order'
        BY <2>1, <2>2 DEF vars, senderVars, sessionVars, connVars, Order, Started,
               ThreadsTogether,
               UdpClosedFirst, TcpClosedFirst, MarkedLast, SealedWithLiveKeys,
               ConnectionClosedAtExit
      <3>2. InputOrder'
        BY <2>1, <2>2 DEF vars, sessionVars, InputOrder, Started, ZeroedByTheWipe,
               InputLostToTwo,
               DestroyedOnceEach, ShellKeepsItsInput
      <3> QED
        BY <2>1, <3>1, <3>2 DEF IInv, Order, InputOrder
    <2>3. CASE Next
      <3>1. Order'
        BY <2>1, <2>3, DestroyKeepsOrder, MainKeepsOrder, ReceiverKeepsOrder, OthersKeepsOrder
           DEF Next, MainStep, UserStep, ReceiverStep, Destroyers
      <3>2. InputOrder'
        BY <2>1, <2>3, DestroyKeepsInput, OthersKeepInput
           DEF Next, MainStep, UserStep, ReceiverStep, Destroyers
      <3> QED
        BY <2>1, <3>1, <3>2 DEF IInv, Order, InputOrder
    <2> QED
      BY <2>2, <2>3
  <1> QED
    BY <1>1, <1>2, PTL DEF Spec

\* Nothing sealed with zeroed keys or a restarted counter leaves the host
\* (session.c:56-61 closes the socket before the memset).
THEOREM SealedTrafficOnly == Spec => []SealedWithLiveKeys
  <1>1. IInv => SealedWithLiveKeys
    BY DEF IInv
  <1> QED
    BY <1>1, ClientInvariant, PTL

\* A client that leaves its shell has closed its connection (client_env.c:323).
THEOREM NoConnectionLeft == Spec => []ConnectionClosedAtExit
  <1>1. IInv => ConnectionClosedAtExit
    BY DEF IInv
  <1> QED
    BY <1>1, ClientInvariant, PTL

\* A zeroed socket names the standard input, and no session_destroy closes it while
\* the shell still reads it (session.c:56-61, client_env.c:323).
THEOREM InputKept == Spec => []ShellKeepsItsInput
  <1>1. IInv => ShellKeepsItsInput
    BY DEF IInv
  <1> QED
    BY <1>1, ClientInvariant, PTL
==============================================================================
