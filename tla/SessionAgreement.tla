--------------------------- MODULE SessionAgreement ---------------------------
(***************************************************************************)
(* What the handshake promises: the server offers at most one session on a *)
(* connection, no two connections are offered the same session, and a      *)
(* client that joins has exactly the session it was offered - the id, the  *)
(* key of each direction and the identity of each end.                     *)
(***************************************************************************)
CONSTANTS
    Conns,       \* the connections
    Sessions,    \* what the two ends of a session have in common
    NULL

VARIABLES
    offered,     \* connection -> the session its server end has confirmed
    joined       \* connection -> the session its client end has established

vars == <<offered, joined>>

Init ==
    /\ offered = [k \in Conns |-> NULL]
    /\ joined = [k \in Conns |-> NULL]

Offer(k) ==
    /\ offered[k] = NULL
    /\ offered'[k] \in Sessions
    /\ \A j \in Conns : offered[j] # offered'[k]
    /\ offered' = [offered EXCEPT ![k] = offered'[k]]
    /\ UNCHANGED joined

Join(k) ==
    /\ offered[k] # NULL
    /\ joined[k] = NULL
    /\ joined' = [joined EXCEPT ![k] = offered[k]]
    /\ UNCHANGED offered

Next == \E k \in Conns : Offer(k) \/ Join(k)

Spec == Init /\ [][Next]_vars
===============================================================================
