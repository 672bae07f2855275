---------------------------- MODULE SessionManager ----------------------------
(***************************************************************************)
(* The session table of src/sessions/session_manager.c: a fixed array of   *)
(* slots scanned from 0 under manager->lock by add, remove, get and        *)
(* disconnect_all, called by any number of threads.  One action per step   *)
(* that another thread could observe or that takes or frees a session:     *)
(* taking the mutex, examining one slot, leaving the loop, releasing the   *)
(* mutex, returning.                                                       *)
(***************************************************************************)
EXTENDS Integers, FiniteSets

CONSTANTS
    Threads,     \* the threads that call the manager
    Ids,         \* the values session_id can take
    Ops,         \* the operations the threads call
    NumSlots,    \* MAX_SESSIONS
    OctetValues, \* how many values a uint8_t has: 256
    MaxCreated,  \* bound: sessions ever created (malloc calls)
    NULL, Ok, Failed

Sessions == 1..MaxCreated
Slot == 0..NumSlots - 1
AllOps == {"add", "remove", "get", "disconnect_all"}

ASSUME SlotsAssumption == NumSlots \in Nat /\ MaxCreated \in Nat
ASSUME OctetAssumption == OctetValues \in Nat \ {0}
ASSUME NullAssumption == NULL \notin Sessions \cup Threads \cup Ids
ASSUME ResultAssumption == Ok # Failed /\ NULL \notin {Ok, Failed}
ASSUME OpsAssumption == Ops \subseteq AllOps

VARIABLES
    slots,     \* manager->sessions: slot -> session or NULL
    count,     \* manager->session_count
    lock,      \* manager->lock: the thread that holds it, or NULL
    octet,     \* session -> session->tunnel_ip_octet
    sid,       \* session -> session->session_id
    created,   \* how many sessions have been allocated
    freed,     \* the sessions passed to session_destroy and free
    pc,        \* thread -> where it is in the operation
    op, arg,   \* thread -> the operation and its argument
    idx,       \* thread -> the loop variable i
    ret        \* thread -> the value to return

tableVars == <<slots, count, octet, freed>>
callVars == <<op, arg, idx, ret>>
vars == <<slots, count, lock, octet, sid, created, freed, pc, op, arg, idx, ret>>

Registered == {slots[i] : i \in Slot} \ {NULL}

\* (uint8_t)(i + 2)
ToByte(n) == n % OctetValues
\* Mutant: the first slot's octet is 1.
SlotOctetFromOne(i) == ToByte(i + 1)

SlotOctet(i) == ToByte(i + 2)

Init ==
    /\ slots = [i \in Slot |-> NULL]
    /\ count = 0
    /\ lock = NULL
    /\ octet = [s \in Sessions |-> 0]
    /\ sid = [s \in Sessions |-> NULL]
    /\ created = 0
    /\ freed = {}
    /\ pc = [t \in Threads |-> "idle"]
    /\ op = [t \in Threads |-> NULL]
    /\ arg = [t \in Threads |-> NULL]
    /\ idx = [t \in Threads |-> 0]
    /\ ret = [t \in Threads |-> NULL]

------------------------------------------------------------------------------
(* The calls. *)

Call(t, o, a) ==
    /\ pc[t] = "idle"
    /\ o \in Ops
    /\ pc' = [pc EXCEPT ![t] = "lock"]
    /\ op' = [op EXCEPT ![t] = o]
    /\ arg' = [arg EXCEPT ![t] = a]
    /\ UNCHANGED <<idx, ret, lock, tableVars>>

\* session_manager_connect: malloc, session_create (which draws the random
\* session_id), then session_manager_add.
CallAdd(t) ==
    /\ created < MaxCreated
    /\ created' = created + 1
    /\ \E id \in Ids : sid' = [sid EXCEPT ![created + 1] = id]
    /\ Call(t, "add", created + 1)

CallById(t) ==
    /\ \E o \in {"remove", "get"}, id \in Ids : Call(t, o, id)
    /\ UNCHANGED <<created, sid>>

CallDisconnectAll(t) ==
    /\ Call(t, "disconnect_all", NULL)
    /\ UNCHANGED <<created, sid>>

------------------------------------------------------------------------------
(* The critical section. *)

\* Mutant: the mutex is not taken.
LockUnguarded(t) ==
    /\ pc[t] = "lock"
    /\ lock' = t
    /\ pc' = [pc EXCEPT ![t] = "scan"]
    /\ UNCHANGED <<tableVars, sid, created, callVars>>

Lock(t) ==
    /\ pc[t] = "lock"
    /\ lock = NULL
    /\ lock' = t
    /\ pc' = [pc EXCEPT ![t] = "scan"]
    /\ UNCHANGED <<tableVars, sid, created, callVars>>

AtSlot(t, o) == pc[t] = "scan" /\ idx[t] < NumSlots /\ op[t] = o

\* Mutant: an early return forgets pthread_mutex_unlock.
LeaveLocked(t, r) ==
    /\ ret' = [ret EXCEPT ![t] = r]
    /\ pc' = [pc EXCEPT ![t] = "return"]
    /\ UNCHANGED <<lock, sid, created, op, arg, idx>>

\* The early return out of the loop with value r.
Leave(t, r) ==
    /\ ret' = [ret EXCEPT ![t] = r]
    /\ pc' = [pc EXCEPT ![t] = "unlock"]
    /\ UNCHANGED <<lock, sid, created, op, arg, idx>>

TakeSlot(t) ==
    /\ AtSlot(t, "add")
    /\ slots[idx[t]] = NULL
    /\ octet' = [octet EXCEPT ![arg[t]] = SlotOctet(idx[t])]
    /\ slots' = [slots EXCEPT ![idx[t]] = arg[t]]
    /\ count' = count + 1
    /\ UNCHANGED freed
    /\ Leave(t, Ok)

HasId(i, id) == slots[i] # NULL /\ sid[slots[i]] = id

\* Mutant: remove frees the session and leaves session_count alone.
ClearSlotUncounted(t) ==
    /\ AtSlot(t, "remove")
    /\ HasId(idx[t], arg[t])
    /\ freed' = freed \cup {slots[idx[t]]}
    /\ slots' = [slots EXCEPT ![idx[t]] = NULL]
    /\ UNCHANGED <<count, octet>>
    /\ Leave(t, Ok)

ClearSlot(t) ==
    /\ AtSlot(t, "remove")
    /\ HasId(idx[t], arg[t])
    /\ freed' = freed \cup {slots[idx[t]]}
    /\ slots' = [slots EXCEPT ![idx[t]] = NULL]
    /\ count' = count - 1
    /\ UNCHANGED octet
    /\ Leave(t, Ok)

ReadSlot(t) ==
    /\ AtSlot(t, "get")
    /\ HasId(idx[t], arg[t])
    /\ Leave(t, slots[idx[t]])
    /\ UNCHANGED tableVars

Advance(t) ==
    /\ idx' = [idx EXCEPT ![t] = @ + 1]
    /\ UNCHANGED <<lock, sid, created, pc, op, arg, ret>>

\* Mutant: disconnect_all frees the session and leaves it in its slot.
SweepSlotDangling(t) ==
    /\ AtSlot(t, "disconnect_all")
    /\ freed' = freed \cup ({slots[idx[t]]} \ {NULL})
    /\ UNCHANGED <<slots, count, octet>>
    /\ Advance(t)

\* disconnect_all destroys whatever it meets and goes on.
SweepSlot(t) ==
    /\ AtSlot(t, "disconnect_all")
    /\ freed' = freed \cup ({slots[idx[t]]} \ {NULL})
    /\ slots' = [slots EXCEPT ![idx[t]] = NULL]
    /\ UNCHANGED <<count, octet>>
    /\ Advance(t)

\* The slot is not the one the operation looks for.
SkipSlot(t) ==
    /\ \/ AtSlot(t, "add") /\ slots[idx[t]] # NULL
       \/ (AtSlot(t, "remove") \/ AtSlot(t, "get")) /\ ~HasId(idx[t], arg[t])
    /\ UNCHANGED tableVars
    /\ Advance(t)

\* Mutant: disconnect_all does not reset session_count.
EndLoopKeepsCount(t) ==
    /\ pc[t] = "scan"
    /\ idx[t] = NumSlots
    /\ UNCHANGED tableVars
    /\ Leave(t, IF op[t] \in {"add", "remove"} THEN Failed ELSE NULL)

\* The loop ends: nothing was found, or everything was swept.
EndLoop(t) ==
    /\ pc[t] = "scan"
    /\ idx[t] = NumSlots
    /\ count' = IF op[t] = "disconnect_all" THEN 0 ELSE count
    /\ UNCHANGED <<slots, octet, freed>>
    /\ Leave(t, IF op[t] \in {"add", "remove"} THEN Failed ELSE NULL)

Unlock(t) ==
    /\ pc[t] = "unlock"
    /\ lock' = NULL
    /\ pc' = [pc EXCEPT ![t] = "return"]
    /\ UNCHANGED <<tableVars, sid, created, callVars>>

\* The call returns and its locals are gone; session_manager_connect destroys
\* the session it could not add.
Return(t) ==
    /\ pc[t] = "return"
    /\ pc' = [pc EXCEPT ![t] = "idle"]
    /\ freed' = IF ret[t] = Failed /\ op[t] = "add"
                THEN freed \cup {arg[t]} ELSE freed
    /\ op' = [op EXCEPT ![t] = NULL]
    /\ arg' = [arg EXCEPT ![t] = NULL]
    /\ idx' = [idx EXCEPT ![t] = 0]
    /\ ret' = [ret EXCEPT ![t] = NULL]
    /\ UNCHANGED <<slots, count, octet, lock, sid, created>>

Critical(t) ==
    \/ TakeSlot(t) \/ ClearSlot(t) \/ ReadSlot(t) \/ SweepSlot(t)
    \/ SkipSlot(t) \/ EndLoop(t) \/ Unlock(t)

Next ==
    \E t \in Threads :
        \/ CallAdd(t) \/ CallById(t) \/ CallDisconnectAll(t)
        \/ Lock(t)
        \/ Critical(t)
        \/ Return(t)

Spec == Init /\ [][Next]_vars

\* A thread inside the critical section keeps running: nothing in the loop
\* blocks.  Nothing is assumed of a thread that waits for the mutex.
FairSpec == Spec /\ \A t \in Threads : WF_vars(Critical(t))
------------------------------------------------------------------------------
(* Properties. *)

Occupied == {i \in Slot : slots[i] # NULL}

\* disconnect_all is between its lock and its unlock: the table is half swept
\* and session_count not yet reset, which only the lock hides.
Sweeping(t) == pc[t] = "scan" /\ op[t] = "disconnect_all"
SweepInProgress == \E t \in Threads : Sweeping(t)

\* The session of a pending or refused add still belongs to its caller.
Carries(t) ==
    /\ op[t] = "add"
    /\ \/ pc[t] \in {"lock", "scan"}
       \/ pc[t] \in {"unlock", "return"} /\ ret[t] = Failed

\* The shape of the state: every variable of session_manager.c's table and of
\* the calls in progress has its type.
TypeOK ==
    /\ slots \in [Slot -> Sessions \cup {NULL}]
    /\ count \in Int
    /\ lock \in Threads \cup {NULL}
    /\ octet \in [Sessions -> 0..OctetValues - 1]
    /\ sid \in [Sessions -> Ids \cup {NULL}]
    /\ created \in 0..MaxCreated
    /\ freed \in SUBSET Sessions
    /\ pc \in [Threads -> {"idle", "lock", "scan", "unlock", "return"}]
    /\ op \in [Threads -> AllOps \cup {NULL}]
    /\ arg \in [Threads -> Sessions \cup Ids \cup {NULL}]
    /\ idx \in [Threads -> 0..NumSlots]
    /\ ret \in [Threads -> Sessions \cup {NULL, Ok, Failed}]

\* At most one thread is between pthread_mutex_lock and pthread_mutex_unlock,
\* on every path through the four operations.
LockDiscipline ==
    \A t \in Threads : pc[t] \in {"scan", "unlock"} <=> lock = t

\* Outside a sweep, session_count is the number of non-NULL slots: each of the
\* early returns of add and remove adjusts it exactly once.
CountMatchesTable == ~SweepInProgress => count = Cardinality(Occupied)

\* No slot refers to a session that session_destroy and free have been given,
\* so no operation can hand out or free a dead session.
NoDanglingSlot == Registered \cap freed = {}

\* A session is in at most one slot, and one whose add has not succeeded yet
\* (or was refused) is in none and has not been freed by anyone else.
SingleOwner ==
    /\ \A i, j \in Slot : slots[i] # NULL /\ slots[i] = slots[j] => i = j
    /\ \A t \in Threads : Carries(t) =>
          /\ arg[t] \in 1..created
          /\ arg[t] \notin Registered \cup freed
          /\ \A u \in Threads : u # t /\ Carries(u) => arg[u] # arg[t]

\* What the loop has established about the slots below i holds until the lock
\* is released, whatever the other threads do.
ScannedPrefix ==
    \A t \in Threads : pc[t] = "scan" =>
        \A i \in Slot : i < idx[t] =>
            /\ op[t] = "add" => slots[i] # NULL
            /\ op[t] \in {"remove", "get"} => ~HasId(i, arg[t])
            /\ op[t] = "disconnect_all" => slots[i] = NULL

\* The octet of a registered session is the one of its slot.
OctetOfSlot ==
    \A i \in Slot : slots[i] # NULL => octet[slots[i]] = SlotOctet(i)

\* Every session in a slot or in freed was created, and a call that is under
\* way has an operation and an argument that fit.
Provenance ==
    /\ Registered \cup freed \subseteq 1..created
    /\ \A t \in Threads : pc[t] # "idle" =>
          /\ op[t] \in AllOps
          /\ op[t] = "add" => arg[t] \in Sessions
          /\ op[t] \in {"remove", "get"} => arg[t] \in Ids
    /\ \A t \in Threads : pc[t] \in {"idle", "lock"} => idx[t] = 0

\* The inductive invariant of the table under its lock.
IInv ==
    /\ TypeOK
    /\ Provenance
    /\ LockDiscipline
    /\ SingleOwner
    /\ NoDanglingSlot
    /\ ScannedPrefix
    /\ OctetOfSlot
    /\ CountMatchesTable

\* The last octet of SERVER_DEFAULT_VNI "10.8.0.1".
ServerOctet == 1

\* No registered session has the server's own tunnel address: a packet for the
\* server would be taken for that session's (README.md:44, sencd assigns the
\* server and the clients addresses so that traffic can be routed between them).
ServerAddressReserved == \A s \in Registered : octet[s] # ServerOctet

\* A slot is occupied only if more sessions were added than it has slots before
\* it: add takes the first free one under the lock, so the table never grows past
\* the sessions it was given, whatever is removed and swept in between.
SlotsByNumber == \A i \in Slot : slots[i] # NULL => i < created

\* (uint8_t)(i + 2) has not yet come round to the server's octet: 255 sessions.
BeforeWrap == created < OctetValues

\* However long the table is, until as many sessions were added as an octet has
\* values, every registered one has a tunnel address of its own that is not the
\* server's: what session_manager_tun_sender needs to find the session a packet is
\* for (session_manager.c:94-97, 289-297).
AddressesDistinct ==
    BeforeWrap =>
        /\ ServerAddressReserved
        /\ \A s, u \in Registered : octet[s] = octet[u] => s = u

\* Every critical section ends: no path through the loop returns without
\* unlocking.
LockReleased == \A t \in Threads : lock = t ~> lock # t

\* The table implements the atomic registry: an operation takes effect when it
\* leaves the loop, disconnect_all when it takes the lock.
Registry == INSTANCE SessionRegistry WITH
    Capacity <- NumSlots,
    members <- IF SweepInProgress THEN {} ELSE Registered,
    discarded <- IF SweepInProgress THEN freed \cup Registered ELSE freed,
    phase <- [t \in Threads |->
                 IF pc[t] = "idle" THEN "idle"
                 ELSE IF pc[t] = "lock" \/ (pc[t] = "scan" /\ ~Sweeping(t))
                      THEN "pending" ELSE "decided"]

RefinesRegistry == Registry!Spec
==============================================================================
