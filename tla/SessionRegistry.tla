--------------------------- MODULE SessionRegistry ---------------------------
(***************************************************************************)
(* What src/sessions/session_manager.h promises to the threads that share  *)
(* a SESSION_MANAGER_T: a set of registered sessions of bounded size, on   *)
(* which add, remove, get and disconnect_all each take effect at one       *)
(* instant between the call and the return.  No slots, no scan, no lock:   *)
(* those are how SessionManager keeps the promise.                         *)
(***************************************************************************)
EXTENDS Naturals, FiniteSets

CONSTANTS
    Threads,     \* the threads that call the manager
    Ids,         \* the values session_id can take (64 random bits in the code)
    Ops,         \* the operations the threads call
    Capacity,    \* how many sessions can be registered (MAX_SESSIONS)
    MaxCreated,  \* bound: sessions ever created
    NULL, Ok, Failed

Sessions == 1..MaxCreated

VARIABLES
    members,     \* the registered sessions
    discarded,   \* the sessions destroyed and freed
    created,     \* how many sessions have been created
    sid,         \* session -> its session_id
    phase,       \* thread -> "idle", "pending" (called), "decided" (took effect)
    op, arg,     \* thread -> the operation it calls and its argument
    ret          \* thread -> what the operation returns, NULL before

vars == <<members, discarded, created, sid, phase, op, arg, ret>>

Init ==
    /\ members = {}
    /\ discarded = {}
    /\ created = 0
    /\ sid = [s \in Sessions |-> NULL]
    /\ phase = [t \in Threads |-> "idle"]
    /\ op = [t \in Threads |-> NULL]
    /\ arg = [t \in Threads |-> NULL]
    /\ ret = [t \in Threads |-> NULL]

\* A thread calls operation o with argument a.
Invoke(t, o, a) ==
    /\ phase[t] = "idle"
    /\ o \in Ops
    /\ phase' = [phase EXCEPT ![t] = "pending"]
    /\ op' = [op EXCEPT ![t] = o]
    /\ arg' = [arg EXCEPT ![t] = a]
    /\ UNCHANGED <<members, discarded, ret>>

\* The session an add brings has just been created by the caller.
InvokeAdd(t) ==
    /\ created < MaxCreated
    /\ created' = created + 1
    /\ \E id \in Ids : sid' = [sid EXCEPT ![created + 1] = id]
    /\ Invoke(t, "add", created + 1)

InvokeById(t) ==
    /\ \E o \in {"remove", "get"}, id \in Ids : Invoke(t, o, id)
    /\ UNCHANGED <<created, sid>>

InvokeAll(t) ==
    /\ Invoke(t, "disconnect_all", NULL)
    /\ UNCHANGED <<created, sid>>

\* The operation of t takes effect and its result is r.
Decide(t, o, r) ==
    /\ phase[t] = "pending"
    /\ op[t] = o
    /\ phase' = [phase EXCEPT ![t] = "decided"]
    /\ ret' = [ret EXCEPT ![t] = r]
    /\ UNCHANGED <<created, sid, op, arg>>

Add(t) ==
    /\ Cardinality(members) < Capacity
    /\ members' = members \cup {arg[t]}
    /\ UNCHANGED discarded
    /\ Decide(t, "add", Ok)

AddRefused(t) ==
    /\ Cardinality(members) = Capacity
    /\ UNCHANGED <<members, discarded>>
    /\ Decide(t, "add", Failed)

WithId(id) == {s \in members : sid[s] = id}

Remove(t) ==
    /\ \E s \in WithId(arg[t]) :
          /\ members' = members \ {s}
          /\ discarded' = discarded \cup {s}
    /\ Decide(t, "remove", Ok)

Get(t) ==
    /\ \E s \in WithId(arg[t]) : Decide(t, "get", s)
    /\ UNCHANGED <<members, discarded>>

NotFound(t) ==
    /\ WithId(arg[t]) = {}
    /\ UNCHANGED <<members, discarded>>
    /\ Decide(t, "remove", Failed) \/ Decide(t, "get", NULL)

DisconnectAll(t) ==
    /\ members' = {}
    /\ discarded' = discarded \cup members
    /\ Decide(t, "disconnect_all", NULL)

\* The call returns; the caller of a refused add destroys its session.
Respond(t) ==
    /\ phase[t] = "decided"
    /\ phase' = [phase EXCEPT ![t] = "idle"]
    /\ discarded' = IF ret[t] = Failed /\ op[t] = "add"
                    THEN discarded \cup {arg[t]} ELSE discarded
    /\ op' = [op EXCEPT ![t] = NULL]
    /\ arg' = [arg EXCEPT ![t] = NULL]
    /\ ret' = [ret EXCEPT ![t] = NULL]
    /\ UNCHANGED <<members, created, sid>>

Next ==
    \E t \in Threads :
        \/ InvokeAdd(t) \/ InvokeById(t) \/ InvokeAll(t)
        \/ Add(t) \/ AddRefused(t) \/ Remove(t) \/ Get(t) \/ NotFound(t)
        \/ DisconnectAll(t)
        \/ Respond(t)

Spec == Init /\ [][Next]_vars
==============================================================================
