---------------------------- MODULE TunnelChannel ----------------------------
(***************************************************************************)
(* What the tunnel promises each client: a private channel in each         *)
(* direction that may lose, reorder and repeat packets, and never invents  *)
(* one nor hands over one that belongs to somebody else's channel.  The    *)
(* client's end opens when its handshake ends, the server's end when the   *)
(* session is registered, and nothing comes out of the server's end        *)
(* before.                                                                 *)
(***************************************************************************)
EXTENDS Naturals

CONSTANTS
    Clients,
    UpPackets,      \* the packets clients may put into their channels
    DownPackets     \* the packets the server may put into a channel

VARIABLES
    opened,    \* the clients whose channel is open at the server's end
    upIn,      \* client -> the packets it put into its channel
    upOut,     \* client -> the packets that came out at the server
    downIn,    \* client -> the packets the server put into its channel
    downOut    \* client -> the packets that came out at the client

vars == <<opened, upIn, upOut, downIn, downOut>>

Nothing == [c \in Clients |-> {}]

Init ==
    /\ opened = {}
    /\ upIn = Nothing /\ upOut = Nothing
    /\ downIn = Nothing /\ downOut = Nothing

Open(c) ==
    /\ opened' = opened \cup {c}
    /\ UNCHANGED <<upIn, upOut, downIn, downOut>>

PutUp(c) ==
    /\ \E p \in UpPackets : upIn' = [upIn EXCEPT ![c] = @ \cup {p}]
    /\ UNCHANGED <<opened, upOut, downIn, downOut>>

TakeUp(c) ==
    /\ c \in opened
    /\ \E p \in upIn[c] : upOut' = [upOut EXCEPT ![c] = @ \cup {p}]
    /\ UNCHANGED <<opened, upIn, downIn, downOut>>

PutDown(c) ==
    /\ c \in opened
    /\ \E p \in DownPackets : downIn' = [downIn EXCEPT ![c] = @ \cup {p}]
    /\ UNCHANGED <<opened, upIn, upOut, downOut>>

TakeDown(c) ==
    /\ \E p \in downIn[c] : downOut' = [downOut EXCEPT ![c] = @ \cup {p}]
    /\ UNCHANGED <<opened, upIn, upOut, downIn>>

Next == \E c \in Clients : Open(c) \/ PutUp(c) \/ TakeUp(c) \/ PutDown(c) \/ TakeDown(c)

Spec == Init /\ [][Next]_vars
==============================================================================
