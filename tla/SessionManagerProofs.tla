------------------------- MODULE SessionManagerProofs -------------------------
(***************************************************************************)
(* Theorems of SessionManager, for every number of threads, slots and      *)
(* sessions.  IInv is inductive: the table's count, owners and octets are  *)
(* disturbed only by the thread that holds the lock, and ScannedPrefix is  *)
(* what that thread knows when it leaves the loop.                         *)
(***************************************************************************)
EXTENDS SessionManager, FiniteSetTheorems, FunctionTheorems, TLAPS

USE SlotsAssumption, NullAssumption, ResultAssumption, OpsAssumption

\* The octet of any slot is a byte: the conversion (uint8_t)(i + 2) of
\* session_manager_add.
LEMMA OctetIsByte == \A i \in Slot : SlotOctet(i) \in 0..OctetValues - 1
  BY OctetAssumption DEF Slot, SlotOctet, ToByte

\* The slots are finitely many, so the occupied ones can be counted.
LEMMA SlotsFinite == IsFiniteSet(Slot) /\ IsFiniteSet(Occupied)
  <1>1. IsFiniteSet(Slot)
    BY FS_Interval DEF Slot
  <1>2. Occupied \subseteq Slot
    BY DEF Occupied
  <1> QED
    BY <1>1, <1>2, FS_Subset

\* Filling an empty slot adds one to the number of occupied slots, emptying a
\* full one takes one away: what session_count++ and session_count-- rely on.
LEMMA OccupiedChange ==
    ASSUME slots \in [Slot -> Sessions \cup {NULL}], NEW i \in Slot,
           NEW s \in Sessions \cup {NULL},
           slots' = [slots EXCEPT ![i] = s]
    PROVE  /\ slots[i] = NULL /\ s # NULL =>
                Cardinality(Occupied') = Cardinality(Occupied) + 1
           /\ slots[i] # NULL /\ s = NULL =>
                Cardinality(Occupied') = Cardinality(Occupied) - 1
  <1>1. ASSUME slots[i] = NULL, s # NULL
        PROVE  Cardinality(Occupied') = Cardinality(Occupied) + 1
    <2>1. Occupied' = Occupied \cup {i} /\ i \notin Occupied
      BY <1>1 DEF Occupied
    <2> QED
      BY <2>1, SlotsFinite, FS_AddElement
  <1>2. ASSUME slots[i] # NULL, s = NULL
        PROVE  Cardinality(Occupied') = Cardinality(Occupied) - 1
    <2>1. Occupied' = Occupied \ {i} /\ i \in Occupied
      BY <1>2 DEF Occupied
    <2> QED
      BY <2>1, SlotsFinite, FS_RemoveElement
  <1> QED
    BY <1>1, <1>2

------------------------------------------------------------------------------

\* The empty table of session_manager_init satisfies the invariant.
LEMMA InitEstablishesIInv == Init => IInv
  <1> SUFFICES ASSUME Init PROVE IInv
    OBVIOUS
  <1>1. TypeOK
    BY OctetAssumption DEF Init, TypeOK, Slot
  <1>2. Registered = {} /\ Occupied = {}
    BY DEF Init, Registered, Occupied
  <1>3. CountMatchesTable
    BY <1>2, FS_EmptySet DEF Init, CountMatchesTable
  <1>4. LockDiscipline /\ ScannedPrefix /\ Provenance
    BY <1>2, NullAssumption DEF Init, LockDiscipline, ScannedPrefix, Provenance, Carries
  <1>5. SingleOwner /\ NoDanglingSlot /\ OctetOfSlot
    BY <1>2 DEF Init, SingleOwner, Carries, NoDanglingSlot, OctetOfSlot
  <1> QED
    BY <1>1, <1>2, <1>3, <1>4, <1>5 DEF IInv

\* Calling an operation takes no slot: a new session is one nobody has seen.
LEMMA CallPreserves ==
    ASSUME IInv, NEW t \in Threads,
           CallAdd(t) \/ CallById(t) \/ CallDisconnectAll(t)
    PROVE  IInv'
  <1> USE DEF IInv
  <1>c. /\ created' \in created..MaxCreated
        /\ sid' \in [Sessions -> Ids \cup {NULL}]
        /\ \A s \in 1..created : sid'[s] = sid[s]
    BY DEF CallAdd, CallById, CallDisconnectAll, TypeOK, Sessions
  <1>p. PICK o \in AllOps, a \in Sessions \cup Ids \cup {NULL} :
              /\ Call(t, o, a)
              /\ o = "add" => a = created + 1 /\ created' = created + 1
              /\ o \in {"remove", "get"} => a \in Ids
    <2>1. CASE CallAdd(t)
      <3>1. created + 1 \in Sessions
        BY <2>1 DEF CallAdd, TypeOK, Sessions
      <3> QED
        BY <2>1, <3>1 DEF CallAdd, AllOps
    <2>2. CASE CallById(t)
      BY <2>2 DEF CallById, AllOps
    <2>3. CASE CallDisconnectAll(t)
      BY <2>3 DEF CallDisconnectAll, AllOps
    <2> QED
      BY <2>1, <2>2, <2>3
  <1>1. /\ UNCHANGED <<tableVars, lock, idx, ret>>
        /\ pc[t] = "idle" /\ pc' = [pc EXCEPT ![t] = "lock"]
        /\ op' = [op EXCEPT ![t] = o] /\ arg' = [arg EXCEPT ![t] = a]
    BY <1>p DEF Call
  <1>2. TypeOK'
    BY <1>1, <1>c, <1>p DEF TypeOK, tableVars
  <1>3. Registered' = Registered /\ Occupied' = Occupied
    BY <1>1, <1>c, <1>p DEF Registered, Occupied, tableVars
  <1>4. Provenance'
    BY <1>1, <1>c, <1>p, <1>3 DEF Provenance, TypeOK, tableVars, Sessions
  <1>5. LockDiscipline'
    BY <1>1, <1>c, <1>p DEF LockDiscipline, TypeOK
  <1>6. SingleOwner'
    <2>1. \A u \in Threads : u # t => (Carries(u)' <=> Carries(u)) /\ arg'[u] = arg[u]
      BY <1>1, <1>c, <1>p DEF Carries, TypeOK
    <2>2. Carries(t)' => arg'[t] = created + 1 /\ created' = created + 1
      BY <1>1, <1>c, <1>p DEF Carries, TypeOK
    <2> QED
      BY <1>1, <1>c, <1>p, <1>3, <2>1, <2>2 DEF SingleOwner, Provenance, TypeOK, tableVars,
             Sessions
  <1>7. NoDanglingSlot'
    BY <1>1, <1>c, <1>p, <1>3 DEF NoDanglingSlot, tableVars
  <1>8. ScannedPrefix'
    <2>1. \A i \in Slot : slots[i] # NULL => slots[i] \in 1..created
      BY DEF Provenance, Registered
    <2>2. \A i \in Slot, id \in Ids : HasId(i, id)' <=> HasId(i, id)
      BY <1>1, <1>c, <1>p, <2>1 DEF HasId, tableVars
    <2> QED
      BY <1>1, <1>c, <1>p, <2>2 DEF ScannedPrefix, TypeOK, Provenance, tableVars
  <1>9. OctetOfSlot'
    BY <1>1, <1>c, <1>p DEF OctetOfSlot, tableVars
  <1>10. CountMatchesTable'
    BY <1>1, <1>c, <1>p, <1>3 DEF CountMatchesTable, SweepInProgress, Sweeping, TypeOK,
           tableVars
  <1> QED
    BY <1>2, <1>4, <1>5, <1>6, <1>7, <1>8, <1>9, <1>10

\* Taking and releasing the mutex moves only one thread.
LEMMA LockPreserves ==
    ASSUME IInv, NEW t \in Threads, Lock(t) \/ Unlock(t)
    PROVE  IInv'
  <1> USE DEF IInv
  <1>1. /\ UNCHANGED <<tableVars, sid, created, callVars>>
        /\ \/ /\ pc[t] = "lock" /\ lock = NULL /\ lock' = t
              /\ pc' = [pc EXCEPT ![t] = "scan"]
           \/ /\ pc[t] = "unlock" /\ lock' = NULL
              /\ pc' = [pc EXCEPT ![t] = "return"]
    BY DEF Lock, Unlock
  <1>2. TypeOK'
    BY <1>1 DEF TypeOK, tableVars, callVars
  <1>3. Registered' = Registered /\ Occupied' = Occupied
    BY <1>1 DEF Registered, Occupied, tableVars
  <1>4. Provenance'
    BY <1>1, <1>3 DEF Provenance, TypeOK, tableVars, callVars
  <1>5. LockDiscipline'
    BY <1>1 DEF LockDiscipline, TypeOK
  <1>6. \A u \in Threads : Carries(u)' <=> Carries(u)
    BY <1>1 DEF Carries, TypeOK, callVars
  <1>7. SingleOwner'
    BY <1>1, <1>3, <1>6 DEF SingleOwner, tableVars, callVars
  <1>8. NoDanglingSlot'
    BY <1>1, <1>3 DEF NoDanglingSlot, tableVars
  <1>9. ScannedPrefix'
    <2>1. UNCHANGED <<slots, sid, op, arg, idx>>
      BY <1>1 DEF tableVars, callVars
    <2>2. \A u \in Threads : pc'[u] = "scan" => pc[u] = "scan" \/ idx[u] = 0
      BY <1>1 DEF Provenance, TypeOK
    <2> QED
      BY <2>1, <2>2 DEF ScannedPrefix, HasId, Slot
  <1>10. OctetOfSlot'
    BY <1>1 DEF OctetOfSlot, tableVars
  <1>11. CountMatchesTable'
    <2>1. ~SweepInProgress => count = Cardinality(Occupied)
      BY DEF CountMatchesTable
    <2>2. ~SweepInProgress' => ~SweepInProgress
      BY <1>1 DEF SweepInProgress, Sweeping, TypeOK, callVars
    <2> QED
      BY <1>1, <1>3, <2>1, <2>2 DEF CountMatchesTable, tableVars
  <1> QED
    BY <1>2, <1>4, <1>5, <1>7, <1>8, <1>9, <1>10, <1>11

\* While one thread is in the loop no other is between lock and unlock, so what
\* the invariant says of the scanning threads it says of that one.
LEMMA Exclusive ==
    ASSUME IInv, NEW t \in Threads, pc[t] = "scan"
    PROVE  /\ lock = t
           /\ \A u \in Threads : u # t => pc[u] \in {"idle", "lock", "return"}
  BY DEF IInv, LockDiscipline, TypeOK

\* add stores its session in the first empty slot.
LEMMA TakeSlotPreserves ==
    ASSUME IInv, NEW t \in Threads, TakeSlot(t)
    PROVE  IInv'
  <1> USE DEF IInv
  <1> DEFINE i == idx[t]
             s == arg[t]
  <1>1. /\ i \in Slot /\ slots[i] = NULL /\ op[t] = "add" /\ pc[t] = "scan"
        /\ s \in Sessions /\ s \in 1..created
        /\ s \notin Registered \cup freed
        /\ slots' = [slots EXCEPT ![i] = s]
        /\ octet' = [octet EXCEPT ![s] = SlotOctet(i)]
        /\ count' = count + 1
        /\ ret' = [ret EXCEPT ![t] = Ok] /\ pc' = [pc EXCEPT ![t] = "unlock"]
        /\ UNCHANGED <<freed, lock, sid, created, op, arg, idx>>
    BY DEF TakeSlot, AtSlot, Leave, Slot, TypeOK, SingleOwner, Carries, Provenance
  <1>2. \A u \in Threads : u # t => pc[u] \in {"idle", "lock", "return"}
    BY <1>1, Exclusive
  <1>3. TypeOK'
    BY <1>1, OctetIsByte DEF TypeOK
  <1>4. Registered' = Registered \cup {s}
    BY <1>1 DEF Registered, TypeOK
  <1>5. Provenance'
    BY <1>1, <1>4 DEF Provenance, TypeOK
  <1>6. LockDiscipline'
    BY <1>1 DEF LockDiscipline, TypeOK
  <1>7. /\ ~Carries(t)' /\ Carries(t)
        /\ \A u \in Threads : u # t => (Carries(u)' <=> Carries(u))
    BY <1>1 DEF Carries, TypeOK
  <1>8. SingleOwner'
    <2>1. \A j, k \in Slot : slots'[j] # NULL /\ slots'[j] = slots'[k] => j = k
      BY <1>1 DEF SingleOwner, Registered, TypeOK
    <2>2. \A u \in Threads : Carries(u)' =>
             /\ arg'[u] \in 1..created'
             /\ arg'[u] \notin Registered' \cup freed'
             /\ \A v \in Threads : v # u /\ Carries(v)' => arg'[v] # arg'[u]
      BY <1>1, <1>4, <1>7 DEF SingleOwner
    <2> QED
      BY <2>1, <2>2 DEF SingleOwner
  <1>9. NoDanglingSlot'
    BY <1>1, <1>4 DEF NoDanglingSlot
  <1>10. ScannedPrefix'
    BY <1>1, <1>2 DEF ScannedPrefix, TypeOK
  <1>11. OctetOfSlot'
    <2>1. \A j \in Slot : j # i => slots[j] # s
      BY <1>1 DEF Registered, TypeOK
    <2> QED
      BY <1>1, <2>1 DEF OctetOfSlot, TypeOK
  <1>12. CountMatchesTable'
    <2>1. ~SweepInProgress
      BY <1>1, <1>2 DEF SweepInProgress, Sweeping
    <2>2. Cardinality(Occupied') = Cardinality(Occupied) + 1
      BY <1>1, OccupiedChange DEF TypeOK
    <2> QED
      BY <1>1, <2>1, <2>2 DEF CountMatchesTable
  <1> QED
    BY <1>3, <1>5, <1>6, <1>8, <1>9, <1>10, <1>11, <1>12

\* remove and disconnect_all empty a slot and free its session, or find the
\* slot empty already.
LEMMA EmptySlotPreserves ==
    ASSUME IInv, NEW t \in Threads, NEW i \in Slot, i = idx[t], pc[t] = "scan",
           slots' = [slots EXCEPT ![i] = NULL],
           freed' = freed \cup ({slots[i]} \ {NULL}),
           UNCHANGED <<lock, octet, sid, created, op, arg>>
    PROVE  /\ slots' \in [Slot -> Sessions \cup {NULL}]
           /\ freed' \in SUBSET Sessions
           /\ Registered' = Registered \ {slots[i]}
           /\ Registered' \cup freed' = Registered \cup freed
           /\ NoDanglingSlot'
           /\ OctetOfSlot'
           /\ \A j, k \in Slot : slots'[j] # NULL /\ slots'[j] = slots'[k] => j = k
  <1> USE DEF IInv
  <1>1. slots' \in [Slot -> Sessions \cup {NULL}] /\ freed' \in SUBSET Sessions
    BY DEF TypeOK
  <1>2. \A j \in Slot : j # i /\ slots[j] # NULL => slots[j] # slots[i]
    BY DEF SingleOwner
  <1>3. Registered' = Registered \ {slots[i]}
    BY <1>2 DEF Registered, TypeOK
  <1>4. Registered' \cup freed' = Registered \cup freed
    BY <1>3 DEF Registered
  <1>5. NoDanglingSlot'
    BY <1>3 DEF NoDanglingSlot
  <1>6. OctetOfSlot'
    BY DEF OctetOfSlot, TypeOK
  <1>7. \A j, k \in Slot : slots'[j] # NULL /\ slots'[j] = slots'[k] => j = k
    BY DEF SingleOwner, TypeOK
  <1> QED
    BY <1>1, <1>3, <1>4, <1>5, <1>6, <1>7

\* remove frees the session, clears the slot and takes one off the count.
LEMMA ClearSlotPreserves ==
    ASSUME IInv, NEW t \in Threads, ClearSlot(t)
    PROVE  IInv'
  <1> USE DEF IInv
  <1>1. /\ idx[t] \in Slot /\ slots[idx[t]] # NULL
        /\ pc[t] = "scan" /\ op[t] = "remove"
        /\ slots' = [slots EXCEPT ![idx[t]] = NULL]
        /\ freed' = freed \cup ({slots[idx[t]]} \ {NULL})
        /\ count' = count - 1
        /\ ret' = [ret EXCEPT ![t] = Ok] /\ pc' = [pc EXCEPT ![t] = "unlock"]
        /\ UNCHANGED <<octet, lock, sid, created, op, arg, idx>>
    BY DEF ClearSlot, AtSlot, HasId, Leave, Slot, TypeOK
  <1>2. \A u \in Threads : u # t => pc[u] \in {"idle", "lock", "return"}
    BY <1>1, Exclusive
  <1>3. /\ slots' \in [Slot -> Sessions \cup {NULL}]
        /\ freed' \in SUBSET Sessions
        /\ Registered' \cup freed' = Registered \cup freed
        /\ NoDanglingSlot' /\ OctetOfSlot'
        /\ \A j, k \in Slot : slots'[j] # NULL /\ slots'[j] = slots'[k] => j = k
    BY <1>1, EmptySlotPreserves
  <1>4. TypeOK'
    BY <1>1, <1>3 DEF TypeOK
  <1>5. Provenance'
    BY <1>1, <1>3 DEF Provenance, TypeOK
  <1>6. LockDiscipline'
    BY <1>1 DEF LockDiscipline, TypeOK
  <1>7. \A u \in Threads : Carries(u)' <=> Carries(u)
    BY <1>1 DEF Carries, TypeOK
  <1>8. SingleOwner'
    BY <1>1, <1>3, <1>7 DEF SingleOwner
  <1>9. ScannedPrefix'
    BY <1>1, <1>2 DEF ScannedPrefix, TypeOK
  <1>10. CountMatchesTable'
    <2>1. ~SweepInProgress
      BY <1>1, <1>2 DEF SweepInProgress, Sweeping
    <2>2. Cardinality(Occupied') = Cardinality(Occupied) - 1
      BY <1>1, OccupiedChange DEF TypeOK
    <2> QED
      BY <1>1, <2>1, <2>2 DEF CountMatchesTable
  <1> QED
    BY <1>3, <1>4, <1>5, <1>6, <1>8, <1>9, <1>10

\* disconnect_all frees and clears one slot; the count is out of date till the end.
LEMMA SweepSlotPreserves ==
    ASSUME IInv, NEW t \in Threads, SweepSlot(t)
    PROVE  IInv'
  <1> USE DEF IInv
  <1>1. /\ idx[t] \in Slot /\ pc[t] = "scan" /\ op[t] = "disconnect_all"
        /\ slots' = [slots EXCEPT ![idx[t]] = NULL]
        /\ freed' = freed \cup ({slots[idx[t]]} \ {NULL})
        /\ idx' = [idx EXCEPT ![t] = @ + 1] /\ idx[t] + 1 \in 0..NumSlots
        /\ UNCHANGED <<count, octet, lock, sid, created, op, arg, ret, pc>>
    BY DEF SweepSlot, AtSlot, Advance, Slot, TypeOK
  <1>2. \A u \in Threads : u # t => pc[u] \in {"idle", "lock", "return"}
    BY <1>1, Exclusive
  <1>3. /\ slots' \in [Slot -> Sessions \cup {NULL}]
        /\ freed' \in SUBSET Sessions
        /\ Registered' \cup freed' = Registered \cup freed
        /\ NoDanglingSlot' /\ OctetOfSlot'
        /\ \A j, k \in Slot : slots'[j] # NULL /\ slots'[j] = slots'[k] => j = k
    BY <1>1, EmptySlotPreserves
  <1>4. TypeOK'
    BY <1>1, <1>3 DEF TypeOK
  <1>5. Provenance'
    BY <1>1, <1>3 DEF Provenance, TypeOK
  <1>6. LockDiscipline'
    BY <1>1 DEF LockDiscipline
  <1>7. \A u \in Threads : Carries(u)' <=> Carries(u)
    BY <1>1 DEF Carries
  <1>8. SingleOwner'
    BY <1>1, <1>3, <1>7 DEF SingleOwner
  <1>9. ScannedPrefix'
    <2>1. \A j \in Slot : j < idx[t] + 1 => slots'[j] = NULL
      BY <1>1 DEF ScannedPrefix, TypeOK, Slot
    <2> QED
      BY <1>1, <1>2, <2>1 DEF ScannedPrefix, TypeOK
  <1>10. CountMatchesTable'
    BY <1>1 DEF CountMatchesTable, SweepInProgress, Sweeping
  <1> QED
    BY <1>3, <1>4, <1>5, <1>6, <1>8, <1>9, <1>10

\* get and a slot that does not match leave the table alone.
LEMMA LookPreserves ==
    ASSUME IInv, NEW t \in Threads, ReadSlot(t) \/ SkipSlot(t)
    PROVE  IInv'
  <1> USE DEF IInv
  <1>1. /\ idx[t] \in Slot /\ pc[t] = "scan" /\ op[t] \in {"add", "remove", "get"}
        /\ UNCHANGED <<slots, count, octet, freed, lock, sid, created, op, arg>>
        /\ \/ /\ op[t] = "get" /\ pc' = [pc EXCEPT ![t] = "unlock"]
              /\ ret' = [ret EXCEPT ![t] = slots[idx[t]]] /\ UNCHANGED idx
              /\ slots[idx[t]] \in Sessions
           \/ /\ UNCHANGED <<pc, ret>> /\ idx' = [idx EXCEPT ![t] = @ + 1]
              /\ idx[t] + 1 \in 0..NumSlots
              /\ op[t] = "add" => slots[idx[t]] # NULL
              /\ op[t] \in {"remove", "get"} => ~HasId(idx[t], arg[t])
    <2>1. CASE ReadSlot(t)
      BY <2>1 DEF ReadSlot, AtSlot, HasId, Leave, Slot, TypeOK, tableVars
    <2>2. CASE SkipSlot(t)
      BY <2>2 DEF SkipSlot, AtSlot, Advance, Slot, TypeOK, tableVars
    <2> QED
      BY <2>1, <2>2
  <1>2. \A u \in Threads : u # t => pc[u] \in {"idle", "lock", "return"}
    BY <1>1, Exclusive
  <1>3. TypeOK'
    BY <1>1 DEF TypeOK
  <1>4. Registered' = Registered /\ Occupied' = Occupied
    BY <1>1 DEF Registered, Occupied
  <1>5. Provenance'
    BY <1>1, <1>4 DEF Provenance, TypeOK
  <1>6. LockDiscipline'
    BY <1>1 DEF LockDiscipline, TypeOK
  <1>7. \A u \in Threads : Carries(u)' <=> Carries(u)
    BY <1>1 DEF Carries, TypeOK
  <1>8. SingleOwner'
    BY <1>1, <1>4, <1>7 DEF SingleOwner
  <1>9. NoDanglingSlot'
    BY <1>1, <1>4 DEF NoDanglingSlot
  <1>10. ScannedPrefix'
    <2>1. pc'[t] = "scan" =>
             \A i \in Slot : i < idx'[t] =>
                /\ op[t] = "add" => slots[i] # NULL
                /\ op[t] \in {"remove", "get"} => ~HasId(i, arg[t])
      BY <1>1 DEF ScannedPrefix, TypeOK, Slot
    <2> QED
      BY <1>1, <1>2, <2>1 DEF ScannedPrefix, HasId, TypeOK
  <1>11. OctetOfSlot'
    BY <1>1 DEF OctetOfSlot
  <1>12. CountMatchesTable'
    <2>1. ~SweepInProgress
      BY <1>1, <1>2 DEF SweepInProgress, Sweeping
    <2> QED
      BY <1>1, <1>4, <2>1 DEF CountMatchesTable
  <1> QED
    BY <1>3, <1>5, <1>6, <1>8, <1>9, <1>10, <1>11, <1>12

\* Leaving the loop at its end: after a sweep every slot is empty, so resetting
\* session_count to 0 is right.
LEMMA EndLoopPreserves ==
    ASSUME IInv, NEW t \in Threads, EndLoop(t)
    PROVE  IInv'
  <1> USE DEF IInv
  <1>1. /\ pc[t] = "scan" /\ idx[t] = NumSlots
        /\ count' = IF op[t] = "disconnect_all" THEN 0 ELSE count
        /\ pc' = [pc EXCEPT ![t] = "unlock"]
        /\ ret' = [ret EXCEPT ![t] = IF op[t] \in {"add", "remove"} THEN Failed ELSE NULL]
        /\ UNCHANGED <<slots, octet, freed, lock, sid, created, op, arg, idx>>
    BY DEF EndLoop, Leave
  <1>2. \A u \in Threads : u # t => pc[u] \in {"idle", "lock", "return"}
    BY <1>1, Exclusive
  <1>3. TypeOK'
    BY <1>1 DEF TypeOK
  <1>4. Registered' = Registered /\ Occupied' = Occupied
    BY <1>1 DEF Registered, Occupied
  <1>5. Provenance'
    BY <1>1, <1>4 DEF Provenance, TypeOK
  <1>6. LockDiscipline'
    BY <1>1 DEF LockDiscipline, TypeOK
  <1>7. \A u \in Threads : Carries(u)' <=> Carries(u)
    BY <1>1 DEF Carries, TypeOK
  <1>8. SingleOwner'
    BY <1>1, <1>4, <1>7 DEF SingleOwner
  <1>9. NoDanglingSlot'
    BY <1>1, <1>4 DEF NoDanglingSlot
  <1>10. ScannedPrefix'
    BY <1>1, <1>2 DEF ScannedPrefix, TypeOK
  <1>11. OctetOfSlot'
    BY <1>1 DEF OctetOfSlot
  <1>12. CountMatchesTable'
    <2>1. CASE op[t] = "disconnect_all"
      <3>1. Occupied = {}
        BY <1>1, <2>1 DEF ScannedPrefix, Occupied, Slot
      <3> QED
        BY <1>1, <1>4, <2>1, <3>1, FS_EmptySet DEF CountMatchesTable
    <2>2. CASE op[t] # "disconnect_all"
      <3>1. ~SweepInProgress
        BY <1>1, <1>2, <2>2 DEF SweepInProgress, Sweeping
      <3> QED
        BY <1>1, <1>4, <2>2, <3>1 DEF CountMatchesTable
    <2> QED
      BY <2>1, <2>2
  <1> QED
    BY <1>3, <1>5, <1>6, <1>8, <1>9, <1>10, <1>11, <1>12

\* The session a refused add leaves to session_manager_connect is in no slot.
LEMMA ReturnPreserves ==
    ASSUME IInv, NEW t \in Threads, Return(t)
    PROVE  IInv'
  <1> USE DEF IInv
  <1>1. /\ pc[t] = "return" /\ pc' = [pc EXCEPT ![t] = "idle"]
        /\ \/ Carries(t) /\ freed' = freed \cup {arg[t]}
           \/ ~Carries(t) /\ freed' = freed
        /\ op' = [op EXCEPT ![t] = NULL] /\ arg' = [arg EXCEPT ![t] = NULL]
        /\ idx' = [idx EXCEPT ![t] = 0] /\ ret' = [ret EXCEPT ![t] = NULL]
        /\ UNCHANGED <<slots, count, octet, lock, sid, created>>
    BY DEF Return, Carries
  <1>2. Carries(t) => arg[t] \in Sessions /\ arg[t] \in 1..created
    BY DEF SingleOwner, TypeOK, Sessions
  <1>3. TypeOK'
    BY <1>1, <1>2 DEF TypeOK
  <1>4. Registered' = Registered /\ Occupied' = Occupied
    BY <1>1 DEF Registered, Occupied
  <1>5. Provenance'
    BY <1>1, <1>2, <1>4 DEF Provenance, TypeOK
  <1>6. LockDiscipline'
    BY <1>1 DEF LockDiscipline, TypeOK
  <1>7. /\ ~Carries(t)'
        /\ \A u \in Threads : u # t => (Carries(u)' <=> Carries(u)) /\ arg'[u] = arg[u]
    BY <1>1 DEF Carries, TypeOK
  <1>8. SingleOwner'
    BY <1>1, <1>4, <1>7 DEF SingleOwner
  <1>9. NoDanglingSlot'
    BY <1>1, <1>4 DEF NoDanglingSlot, SingleOwner
  <1>10. ScannedPrefix'
    BY <1>1 DEF ScannedPrefix, HasId, TypeOK
  <1>11. OctetOfSlot'
    BY <1>1 DEF OctetOfSlot
  <1>12. CountMatchesTable'
    <2>1. SweepInProgress' <=> SweepInProgress
      BY <1>1 DEF SweepInProgress, Sweeping, TypeOK
    <2> QED
      BY <1>1, <1>4, <2>1 DEF CountMatchesTable
  <1> QED
    BY <1>3, <1>5, <1>6, <1>8, <1>9, <1>10, <1>11, <1>12

\* The invariant is inductive.
LEMMA NextPreservesIInv == IInv /\ [Next]_vars => IInv'
  <1> SUFFICES ASSUME IInv, [Next]_vars PROVE IInv'
    OBVIOUS
  <1>1. ASSUME NEW t \in Threads, CallAdd(t) \/ CallById(t) \/ CallDisconnectAll(t)
        PROVE IInv'
    BY <1>1, CallPreserves
  <1>2. ASSUME NEW t \in Threads, Lock(t) \/ Unlock(t) PROVE IInv'
    BY <1>2, LockPreserves
  <1>3. ASSUME NEW t \in Threads, TakeSlot(t) PROVE IInv'
    BY <1>3, TakeSlotPreserves
  <1>4. ASSUME NEW t \in Threads, ClearSlot(t) PROVE IInv'
    BY <1>4, ClearSlotPreserves
  <1>5. ASSUME NEW t \in Threads, ReadSlot(t) \/ SkipSlot(t) PROVE IInv'
    BY <1>5, LookPreserves
  <1>6. ASSUME NEW t \in Threads, SweepSlot(t) PROVE IInv'
    BY <1>6, SweepSlotPreserves
  <1>7. ASSUME NEW t \in Threads, EndLoop(t) PROVE IInv'
    BY <1>7, EndLoopPreserves
  <1>8. ASSUME NEW t \in Threads, Return(t) PROVE IInv'
    BY <1>8, ReturnPreserves
  <1>9. CASE UNCHANGED vars
    BY <1>9 DEF IInv, vars, TypeOK, Provenance, Registered, LockDiscipline, SingleOwner,
       Carries, NoDanglingSlot, ScannedPrefix, HasId, OctetOfSlot, CountMatchesTable,
       SweepInProgress, Sweeping, Occupied
  <1> QED
    BY <1>1, <1>2, <1>3, <1>4, <1>5, <1>6, <1>7, <1>8, <1>9 DEF Next, Critical

\* The table under its lock: types, owners, octets, count and what a scanning
\* thread knows, in every reachable state of session_manager.c.
THEOREM TableInvariant == Spec => []IInv
  <1>1. Init => IInv
    BY InitEstablishesIInv
  <1>2. IInv /\ [Next]_vars => IInv'
    BY NextPreservesIInv
  <1> QED
    BY <1>1, <1>2, PTL DEF Spec

\* session_count is the number of non-NULL slots whenever no sweep is under way:
\* add and remove adjust it once on each of their exits.
THEOREM CountCorrect == Spec => []CountMatchesTable
  BY TableInvariant, PTL DEF IInv

\* No slot of the table refers to a session that was destroyed and freed.
THEOREM NoDanglingSessions == Spec => []NoDanglingSlot
  BY TableInvariant, PTL DEF IInv

\* A session can take slot i only when i others are registered and it is yet
\* another one: the first free slot is never above the number of sessions added.
LEMMA TakenByNumber ==
    ASSUME IInv, NEW t \in Threads, TakeSlot(t)
    PROVE  idx[t] < created
  <1> DEFINE i == idx[t]
             Below == {slots[j] : j \in 0..i - 1}
             f == [j \in 0..i - 1 |-> slots[j]]
  <1>1. i \in Slot /\ arg[t] \in 1..created /\ arg[t] \notin Registered
    BY DEF TakeSlot, AtSlot, Slot, IInv, TypeOK, SingleOwner, Carries
  <1>2. \A j \in 0..i - 1 : j \in Slot /\ slots[j] # NULL
    BY <1>1 DEF TakeSlot, AtSlot, IInv, ScannedPrefix, Slot
  <1>3. f \in Bijection(0..i - 1, Below)
    <2>1. f \in [0..i - 1 -> Below]
      OBVIOUS
    <2>2. \A j, k \in 0..i - 1 : f[j] = f[k] => j = k
      BY <1>2 DEF IInv, SingleOwner
    <2>3. \A s \in Below : \E j \in 0..i - 1 : f[j] = s
      OBVIOUS
    <2> QED
      BY <2>1, <2>2, <2>3, Fun_IsBij
  <1>4. IsFiniteSet(Below) /\ Cardinality(Below) = i
    <2>1. i \in Nat
      BY <1>1 DEF Slot
    <2>2. ExistsBijection(0..i - 1, Below)
      BY <1>3 DEF ExistsBijection
    <2> HIDE DEF Below, i
    <2>3. IsFiniteSet(0..i - 1) /\ Cardinality(0..i - 1) = i
      BY <2>1, FS_Interval
    <2> QED
      BY <2>2, <2>3, FS_Bijection
  <1>5. Below \cup {arg[t]} \in SUBSET (1..created) /\ arg[t] \notin Below
    BY <1>1, <1>2 DEF IInv, Provenance, Registered
  <1>6. Cardinality(Below \cup {arg[t]}) = i + 1
    BY <1>4, <1>5, FS_AddElement
  <1>7. created \in Nat /\ IsFiniteSet(1..created) /\ Cardinality(1..created) = created
    <2>1. created \in Nat
      BY DEF IInv, TypeOK
    <2> QED
      BY <2>1, FS_Interval
  <1>8. Cardinality(Below \cup {arg[t]}) <= Cardinality(1..created)
    BY <1>5, <1>7, FS_Subset
  <1> QED
    BY <1>1, <1>6, <1>7, <1>8 DEF Slot

\* No step puts a session into a slot above the number of sessions added.
LEMMA NextPreservesNumber == IInv /\ SlotsByNumber /\ [Next]_vars => SlotsByNumber'
  <1> SUFFICES ASSUME IInv, SlotsByNumber, [Next]_vars PROVE SlotsByNumber'
    OBVIOUS
  <1>1. ASSUME NEW t \in Threads, TakeSlot(t) PROVE SlotsByNumber'
    <2>1. /\ slots \in [Slot -> Sessions \cup {NULL}] /\ idx[t] \in Slot
          /\ slots' = [slots EXCEPT ![idx[t]] = arg[t]] /\ created' = created
      BY <1>1 DEF TakeSlot, AtSlot, Leave, IInv, TypeOK, Slot
    <2>2. idx[t] < created
      BY <1>1, TakenByNumber
    <2> QED
      BY <2>1, <2>2 DEF SlotsByNumber
  <1>2. ASSUME NEW t \in Threads, ClearSlot(t) \/ SweepSlot(t) PROVE SlotsByNumber'
    BY <1>2 DEF ClearSlot, SweepSlot, Leave, Advance, SlotsByNumber, IInv, TypeOK
  <1>3. ASSUME NEW t \in Threads,
               \/ CallAdd(t) \/ CallById(t) \/ CallDisconnectAll(t) \/ Lock(t)
               \/ ReadSlot(t) \/ SkipSlot(t) \/ EndLoop(t) \/ Unlock(t) \/ Return(t)
        PROVE  SlotsByNumber'
    <2>1. slots' = slots /\ created' \in {created, created + 1}
      BY <1>3 DEF CallAdd, CallById, CallDisconnectAll, Call, Lock, ReadSlot, SkipSlot,
         EndLoop, Unlock, Return, Leave, Advance, tableVars
    <2> QED
      BY <2>1 DEF SlotsByNumber, Slot, IInv, TypeOK
  <1>4. CASE UNCHANGED vars
    BY <1>4 DEF vars, SlotsByNumber
  <1> QED
    BY <1>1, <1>2, <1>3, <1>4 DEF Next, Critical

\* The octets of the slots up to the wrap are distinct and not the server's.
LEMMA OctetsBeforeWrap ==
    ASSUME NEW i \in Slot, NEW j \in Slot, i + 2 <= OctetValues, j + 2 <= OctetValues
    PROVE  /\ SlotOctet(i) # ServerOctet
           /\ SlotOctet(i) = SlotOctet(j) => i = j
  <1>1. \A n \in 2..OctetValues : n % OctetValues = IF n = OctetValues THEN 0 ELSE n
    BY OctetAssumption
  <1> QED
    BY <1>1, OctetAssumption DEF SlotOctet, ToByte, ServerOctet, Slot

\* Until 255 sessions have been added, or one fewer than an octet has values, every
\* registered session has an address of its own that is not the server's, however
\* long the table is and whatever was removed: add takes the first free slot.
THEOREM AddressesUnique == Spec => []AddressesDistinct
  <1>1. Init => SlotsByNumber
    BY DEF Init, SlotsByNumber
  <1>2. IInv /\ SlotsByNumber => AddressesDistinct
    <2> SUFFICES ASSUME IInv, SlotsByNumber, BeforeWrap PROVE
            /\ ServerAddressReserved
            /\ \A s, u \in Registered : octet[s] = octet[u] => s = u
      BY DEF AddressesDistinct
    <2>1. \A s \in Registered : \E i \in Slot :
             slots[i] = s /\ octet[s] = SlotOctet(i) /\ i + 2 <= OctetValues
      BY OctetAssumption
         DEF Registered, IInv, TypeOK, OctetOfSlot, SlotsByNumber, BeforeWrap, Slot
    <2> QED
      BY <2>1, OctetsBeforeWrap DEF ServerAddressReserved
  <1> QED
    BY <1>1, <1>2, TableInvariant, NextPreservesNumber, PTL DEF Spec

------------------------------------------------------------------------------
(* The table implements the atomic registry. *)

\* A call has no result before it leaves the loop.
NoResultYet == \A t \in Threads : pc[t] \in {"idle", "lock", "scan"} => ret[t] = NULL

\* What the theorem of the refinement rests on.
RInv == IInv /\ NoResultYet

\* The registry's variables: the members, the sessions it has discarded and the
\* phases of the calls, as the INSTANCE of SessionManager reads them.
Members == IF SweepInProgress THEN {} ELSE Registered
Discarded == IF SweepInProgress THEN freed \cup Registered ELSE freed
PhaseOf(t) ==
    IF pc[t] = "idle" THEN "idle"
    ELSE IF pc[t] = "lock" \/ (pc[t] = "scan" /\ ~Sweeping(t)) THEN "pending" ELSE "decided"
Phase == [t \in Threads |-> PhaseOf(t)]

\* A step of one thread moves the phase of no other.
LEMMA PhaseStep ==
    ASSUME TypeOK, NEW t \in Threads, NEW p, PhaseOf(t)' = p,
           \A u \in Threads : u # t => pc'[u] = pc[u] /\ op'[u] = op[u]
    PROVE  Phase' = [Phase EXCEPT ![t] = p]
  <1>1. \A u \in Threads : u # t => PhaseOf(u)' = PhaseOf(u)
    BY DEF PhaseOf, Sweeping
  <1> QED
    BY <1>1 DEF Phase

\* As many sessions are registered as slots are occupied: no session is in two.
LEMMA RegisteredCount ==
    ASSUME IInv
    PROVE  Cardinality(Registered) = Cardinality(Occupied)
  <1> DEFINE f == [i \in Occupied |-> slots[i]]
  <1>1. f \in [Occupied -> Registered]
    BY DEF Occupied, Registered
  <1>2. \A i, j \in Occupied : f[i] = f[j] => i = j
    BY DEF Occupied, IInv, SingleOwner
  <1>3. \A s \in Registered : \E i \in Occupied : f[i] = s
    BY DEF Occupied, Registered
  <1>4. f \in Bijection(Occupied, Registered)
    BY <1>1, <1>2, <1>3, Fun_IsBij
  <1>5. ExistsBijection(Occupied, Registered)
    BY <1>4 DEF ExistsBijection
  <1> QED
    BY <1>5, SlotsFinite, FS_Bijection

\* The table is full if every slot is occupied, and only then.
LEMMA FullTable ==
    ASSUME IInv
    PROVE  /\ Occupied = Slot => Cardinality(Registered) = NumSlots
           /\ Occupied # Slot => Cardinality(Registered) < NumSlots
  <1>1. IsFiniteSet(Slot) /\ Cardinality(Slot) = NumSlots
    BY FS_Interval DEF Slot
  <1>2. Occupied \in SUBSET Slot
    BY DEF Occupied
  <1>3. /\ IsFiniteSet(Occupied) /\ Cardinality(Occupied) <= Cardinality(Slot)
        /\ Cardinality(Slot) = Cardinality(Occupied) => Slot = Occupied
    BY <1>1, <1>2, FS_Subset
  <1>4. Cardinality(Occupied) \in Nat
    BY <1>3, FS_CardinalityType
  <1> QED
    BY <1>1, <1>3, <1>4, RegisteredCount

\* A thread that is in the loop is the only one that could be sweeping.
LEMMA SweepOfScanner ==
    ASSUME IInv, NEW t \in Threads, pc[t] = "scan"
    PROVE  SweepInProgress <=> op[t] = "disconnect_all"
  BY Exclusive DEF SweepInProgress, Sweeping

\* The new call of a thread is an invocation.
LEMMA CallRefines ==
    ASSUME RInv, NEW t \in Threads, CallAdd(t) \/ CallById(t) \/ CallDisconnectAll(t)
    PROVE  Registry!Next
  <1> USE DEF RInv
  <1>1. TypeOK /\ pc[t] = "idle" /\ UNCHANGED <<slots, freed, ret>>
        /\ pc' = [pc EXCEPT ![t] = "lock"]
        /\ \A u \in Threads : u # t => pc'[u] = pc[u] /\ op'[u] = op[u]
    BY DEF CallAdd, CallById, CallDisconnectAll, Call, IInv, TypeOK, tableVars
  <1>2. (SweepInProgress' <=> SweepInProgress) /\ Registered' = Registered
    BY <1>1 DEF SweepInProgress, Sweeping, TypeOK, Registered
  <1>3. Members' = Members /\ Discarded' = Discarded
    BY <1>1, <1>2 DEF Members, Discarded
  <1>4. PhaseOf(t)' = "pending" /\ Phase[t] = "idle"
    BY <1>1 DEF PhaseOf, Phase, TypeOK
  <1>5. Phase' = [Phase EXCEPT ![t] = "pending"]
    BY <1>1, <1>4, PhaseStep
  <1>6. ASSUME NEW o, NEW a, Call(t, o, a) PROVE Registry!Invoke(t, o, a)
    <2>1. o \in Ops /\ op' = [op EXCEPT ![t] = o] /\ arg' = [arg EXCEPT ![t] = a]
      BY <1>6 DEF Call
    <2> QED
      BY <1>1, <1>3, <1>4, <1>5, <2>1, Zenon
         DEF Registry!Invoke, Members, Discarded, Phase, PhaseOf
  <1>7. CASE CallAdd(t)
    <2>. PICK s : s = created + 1
      OBVIOUS
    <2>1. Registry!Invoke(t, "add", s)
      <3>1. Call(t, "add", s)
        BY <1>7 DEF CallAdd
      <3> QED
        BY <1>6, <3>1, Zenon
    <2>2. Registry!InvokeAdd(t)
      BY <1>7, <2>1, Zenon DEF CallAdd, Registry!InvokeAdd, Registry!Invoke
    <2> QED
      BY <2>2, Zenon DEF Registry!Next
  <1>8. CASE CallById(t)
    <2>1. PICK o \in {"remove", "get"}, id \in Ids : Call(t, o, id)
      BY <1>8, Zenon DEF CallById
    <2>2. Registry!InvokeById(t)
      BY <1>6, <1>8, <2>1, Zenon DEF CallById, Registry!InvokeById
    <2> QED
      BY <2>2, Zenon DEF Registry!Next
  <1>9. CASE CallDisconnectAll(t)
    <2>1. Registry!InvokeAll(t)
      BY <1>6, <1>9, Zenon DEF CallDisconnectAll, Registry!InvokeAll
    <2> QED
      BY <2>1, Zenon DEF Registry!Next
  <1> QED
    BY <1>7, <1>8, <1>9

\* Taking the lock is invisible, except to disconnect_all, which takes effect then.
LEMMA LockRefines ==
    ASSUME RInv, NEW t \in Threads, Lock(t)
    PROVE  Registry!Next \/ UNCHANGED Registry!vars
  <1> USE DEF RInv
  <1>1. /\ TypeOK /\ pc[t] = "lock" /\ lock = NULL
        /\ UNCHANGED <<slots, freed, sid, created, op, arg, idx, ret>>
        /\ pc' = [pc EXCEPT ![t] = "scan"] /\ pc'[t] = "scan"
        /\ \A u \in Threads : u # t => pc'[u] = pc[u] /\ op'[u] = op[u]
        /\ ret[t] = NULL /\ op[t] \in AllOps
    BY DEF Lock, IInv, TypeOK, Provenance, NoResultYet, tableVars, callVars
  <1>2. ~SweepInProgress /\ Registered' = Registered
    BY <1>1 DEF SweepInProgress, Sweeping, IInv, LockDiscipline, Registered
  <1>3. SweepInProgress' <=> op[t] = "disconnect_all"
    BY <1>1, <1>2 DEF SweepInProgress, Sweeping
  <1>4. Phase[t] = "pending"
    BY <1>1 DEF Phase, PhaseOf
  <1>5. CASE op[t] = "disconnect_all"
    <2>1. PhaseOf(t)' = "decided"
      BY <1>1, <1>5 DEF PhaseOf, Sweeping
    <2>2. Phase' = [Phase EXCEPT ![t] = "decided"]
      BY <1>1, <2>1, PhaseStep
    <2>3. Members' = {} /\ Discarded' = Discarded \cup Members
      BY <1>1, <1>2, <1>3, <1>5 DEF Members, Discarded
    <2>4. ret' = [ret EXCEPT ![t] = NULL]
      BY <1>1 DEF TypeOK
    <2>5. Registry!Decide(t, "disconnect_all", NULL)
      BY <1>1, <1>4, <1>5, <2>2, <2>4, Zenon DEF Registry!Decide, Phase, PhaseOf
    <2>6. Registry!DisconnectAll(t)
      BY <2>3, <2>5, Zenon DEF Registry!DisconnectAll, Members, Discarded
    <2> QED
      BY <2>6, Zenon DEF Registry!Next
  <1>6. CASE op[t] # "disconnect_all"
    <2>1. PhaseOf(t)' = "pending"
      BY <1>1, <1>6 DEF PhaseOf, Sweeping
    <2>2. Phase' = [Phase EXCEPT ![t] = "pending"]
      BY <1>1, <2>1, PhaseStep
    <2>3. Phase' = Phase
      BY <1>4, <2>2 DEF Phase
    <2>4. Members' = Members /\ Discarded' = Discarded
      BY <1>1, <1>2, <1>3, <1>6 DEF Members, Discarded
    <2> QED
      BY <1>1, <2>3, <2>4, Zenon DEF Registry!vars, Members, Discarded, Phase, PhaseOf
  <1> QED
    BY <1>5, <1>6

\* What leaving the loop with result r is to the registry, for a call that has not
\* taken effect before.
LEMMA LeaveDecides ==
    ASSUME RInv, NEW t \in Threads, NEW r, NEW o, Leave(t, r), pc[t] = "scan",
           op[t] = o, o # "disconnect_all"
    PROVE  /\ ~SweepInProgress /\ ~SweepInProgress'
           /\ Registry!Decide(t, o, r)
  <1> USE DEF RInv
  <1>1. /\ TypeOK /\ UNCHANGED <<created, sid, op, arg>>
        /\ pc'[t] = "unlock" /\ ret' = [ret EXCEPT ![t] = r]
        /\ \A u \in Threads : u # t => pc'[u] = pc[u] /\ op'[u] = op[u]
    BY DEF Leave, IInv, TypeOK
  <1>2. ~SweepInProgress
    BY SweepOfScanner
  <1>3. ~SweepInProgress'
    BY <1>1, <1>2 DEF SweepInProgress, Sweeping
  <1>4. Phase[t] = "pending"
    BY DEF Phase, PhaseOf, Sweeping
  <1>5. PhaseOf(t)' = "decided"
    BY <1>1 DEF PhaseOf, Sweeping
  <1>6. Phase' = [Phase EXCEPT ![t] = "decided"]
    BY <1>1, <1>5, PhaseStep
  <1>7. Registry!Decide(t, o, r)
    BY <1>1, <1>4, <1>6, Zenon DEF Registry!Decide, Phase, PhaseOf
  <1> QED
    BY <1>2, <1>3, <1>7

\* A step of the loop that does not leave it is invisible.
LEMMA AdvanceHides ==
    ASSUME RInv, Registered' \cup freed' = Registered \cup freed,
           SweepInProgress \/ (Registered' = Registered /\ freed' = freed),
           UNCHANGED <<sid, created, pc, op, arg, ret>>
    PROVE  UNCHANGED Registry!vars
  <1>1. (SweepInProgress' <=> SweepInProgress) /\ Phase' = Phase
    BY DEF SweepInProgress, Sweeping, Phase, PhaseOf
  <1>2. Members' = Members /\ Discarded' = Discarded
    BY <1>1 DEF Members, Discarded
  <1> QED
    BY <1>1, <1>2, Zenon DEF Registry!vars, Members, Discarded, Phase, PhaseOf

\* The registry counts its members as the table does its sessions.
LEMMA SameCardinality == \A S : Registry!Cardinality(S) = Cardinality(S)
  BY Zenon DEF Registry!Cardinality, Cardinality

\* add leaves the loop at the first empty slot, or past the last one.
LEMMA AddRefines ==
    ASSUME RInv, NEW t \in Threads, op[t] = "add", TakeSlot(t) \/ EndLoop(t)
    PROVE  Registry!Next
  <1> USE DEF RInv
  <1>1. CASE TakeSlot(t)
    <2>1. /\ pc[t] = "scan" /\ op[t] = "add" /\ Leave(t, Ok)
          /\ idx[t] \in Slot /\ slots[idx[t]] = NULL
          /\ slots' = [slots EXCEPT ![idx[t]] = arg[t]] /\ freed' = freed
          /\ arg[t] \in Sessions /\ slots \in [Slot -> Sessions \cup {NULL}]
      BY <1>1 DEF TakeSlot, AtSlot, IInv, TypeOK, Provenance, Slot
    <2>2. ~SweepInProgress /\ ~SweepInProgress' /\ Registry!Decide(t, "add", Ok)
      BY <2>1, LeaveDecides, Zenon
    <2>3. Registered' = Registered \cup {arg[t]}
      BY <2>1 DEF Registered
    <2>4. Cardinality(Registered) < NumSlots
      BY <2>1, FullTable DEF Occupied
    <2>5. /\ Members = Registered /\ Members' = Members \cup {arg[t]}
          /\ Discarded' = Discarded
      BY <2>1, <2>2, <2>3 DEF Members, Discarded
    <2>6. Cardinality(Members) < NumSlots
      BY <2>4, <2>5
    <2>7. Registry!Add(t)
      BY <2>2, <2>5, <2>6, SameCardinality DEF Registry!Add, Members, Discarded
    <2> QED
      BY <2>7, Zenon DEF Registry!Next
  <1>2. CASE EndLoop(t)
    <2>1. /\ pc[t] = "scan" /\ op[t] = "add" /\ idx[t] = NumSlots /\ Leave(t, Failed)
          /\ slots' = slots /\ freed' = freed
      BY <1>2 DEF EndLoop
    <2>2. ~SweepInProgress /\ ~SweepInProgress' /\ Registry!Decide(t, "add", Failed)
      BY <2>1, LeaveDecides
    <2>3. Occupied = Slot
      BY <2>1 DEF Occupied, Slot, IInv, ScannedPrefix
    <2>4. Cardinality(Registered) = NumSlots /\ Registered' = Registered
      BY <2>1, <2>3, FullTable DEF Registered
    <2>5. Members = Registered /\ Members' = Members /\ Discarded' = Discarded
      BY <2>1, <2>2, <2>4 DEF Members, Discarded
    <2>6. Cardinality(Members) = NumSlots
      BY <2>4, <2>5
    <2>7. Registry!AddRefused(t)
      BY <2>2, <2>5, <2>6, SameCardinality DEF Registry!AddRefused, Members, Discarded
    <2> QED
      BY <2>7, Zenon DEF Registry!Next
  <1> QED
    BY <1>1, <1>2

\* remove and get leave the loop at the first session with the id, or past the last.
LEMMA FindRefines ==
    ASSUME RInv, NEW t \in Threads, op[t] \in {"remove", "get"},
           ClearSlot(t) \/ ReadSlot(t) \/ EndLoop(t)
    PROVE  Registry!Next
  <1> USE DEF RInv
  <1>. PICK s : s = slots[idx[t]]
    OBVIOUS
  <1>1. pc[t] = "scan" /\ ~SweepInProgress
    BY SweepOfScanner DEF ClearSlot, ReadSlot, EndLoop, AtSlot
  <1>2. Members = Registered /\ Discarded = freed
    BY <1>1 DEF Members, Discarded
  <1>3. \A x : x \in Registry!WithId(arg[t]) <=> x \in Registered /\ sid[x] = arg[t]
    BY <1>1 DEF Registry!WithId
  <1>4. CASE ClearSlot(t)
    <2>1. /\ op[t] = "remove" /\ idx[t] \in Slot /\ s # NULL /\ sid[s] = arg[t] /\ Leave(t, Ok)
          /\ slots' = [slots EXCEPT ![idx[t]] = NULL]
          /\ freed' = freed \cup {s}
          /\ UNCHANGED <<lock, octet, sid, created, op, arg>>
      BY <1>4 DEF ClearSlot, AtSlot, HasId, IInv, TypeOK, Slot, Leave
    <2>2. ~SweepInProgress' /\ Registry!Decide(t, "remove", Ok)
      BY <1>1, <2>1, LeaveDecides
    <2>3. {s} = {s} \ {NULL}
      BY <2>1
    <2>4. Registered' = Registered \ {s}
      BY <1>1, <2>1, <2>3, EmptySlotPreserves
    <2>5. s \in Registry!WithId(arg[t])
      BY <1>3, <2>1 DEF Registered
    <2>6. Members' = Members \ {s} /\ Discarded' = Discarded \cup {s}
      BY <1>2, <2>1, <2>2, <2>4 DEF Members, Discarded
    <2>7. Registry!Remove(t)
      BY <2>2, <2>5, <2>6, Zenon DEF Registry!Remove, Members, Discarded
    <2> QED
      BY <2>7, Zenon DEF Registry!Next
  <1>5. CASE ReadSlot(t)
    <2>1. /\ op[t] = "get" /\ idx[t] \in Slot /\ s # NULL /\ sid[s] = arg[t] /\ Leave(t, s)
          /\ slots' = slots /\ freed' = freed
      BY <1>5 DEF ReadSlot, AtSlot, HasId, IInv, TypeOK, Slot, tableVars
    <2>2. ~SweepInProgress' /\ Registry!Decide(t, "get", s)
      BY <1>1, <2>1, LeaveDecides
    <2>3. s \in Registry!WithId(arg[t])
      BY <1>3, <2>1 DEF Registered
    <2>4. Members' = Members /\ Discarded' = Discarded
      BY <1>2, <2>1, <2>2 DEF Members, Discarded, Registered
    <2>5. Registry!Get(t)
      BY <2>2, <2>3, <2>4, Zenon DEF Registry!Get, Members, Discarded
    <2> QED
      BY <2>5, Zenon DEF Registry!Next
  <1>6. CASE EndLoop(t)
    <2>1. /\ idx[t] = NumSlots /\ slots' = slots /\ freed' = freed
          /\ Leave(t, IF op[t] \in {"add", "remove"} THEN Failed ELSE NULL)
      BY <1>6 DEF EndLoop
    <2>2. /\ ~SweepInProgress'
          /\ Registry!Decide(t, "remove", Failed) \/ Registry!Decide(t, "get", NULL)
      <3>1. CASE op[t] = "remove"
        <4>1. Leave(t, Failed)
          BY <2>1, <3>1
        <4> QED
          BY <1>1, <3>1, <4>1, LeaveDecides
      <3>2. CASE op[t] = "get"
        <4>1. Leave(t, NULL)
          BY <2>1, <3>2
        <4> QED
          BY <1>1, <3>2, <4>1, LeaveDecides
      <3> QED
        BY <3>1, <3>2
    <2>3. \A i \in Slot : ~HasId(i, arg[t])
      BY <1>1, <2>1 DEF IInv, ScannedPrefix, Slot
    <2>4. Registry!WithId(arg[t]) = {}
      BY <1>3, <2>3 DEF HasId, Registered
    <2>5. Members' = Members /\ Discarded' = Discarded
      BY <1>2, <2>1, <2>2 DEF Members, Discarded, Registered
    <2>6. Registry!NotFound(t)
      BY <2>2, <2>4, <2>5, Zenon DEF Registry!NotFound, Members, Discarded
    <2> QED
      BY <2>6, Zenon DEF Registry!Next
  <1> QED
    BY <1>4, <1>5, <1>6

\* The steps of the loop that go on, the end of a sweep and the unlocking change nothing
\* the registry has.
LEMMA HiddenRefines ==
    ASSUME RInv, NEW t \in Threads,
           \/ SweepSlot(t) \/ SkipSlot(t) \/ Unlock(t)
           \/ EndLoop(t) /\ op[t] = "disconnect_all"
    PROVE  UNCHANGED Registry!vars
  <1> USE DEF RInv
  <1>1. CASE SweepSlot(t)
    <2>1. /\ pc[t] = "scan" /\ op[t] = "disconnect_all" /\ idx[t] \in Slot
          /\ slots' = [slots EXCEPT ![idx[t]] = NULL]
          /\ freed' = freed \cup ({slots[idx[t]]} \ {NULL})
          /\ UNCHANGED <<lock, octet, sid, created, pc, op, arg, ret>>
      BY <1>1 DEF SweepSlot, AtSlot, Advance, IInv, TypeOK, Slot
    <2>2. Registered' \cup freed' = Registered \cup freed
      BY <2>1, EmptySlotPreserves
    <2>3. SweepInProgress
      BY <2>1, SweepOfScanner
    <2> QED
      BY <2>1, <2>2, <2>3, AdvanceHides
  <1>2. CASE SkipSlot(t)
    <2>1. UNCHANGED <<slots, freed, sid, created, pc, op, arg, ret>>
      BY <1>2 DEF SkipSlot, Advance, tableVars
    <2>2. Registered' = Registered
      BY <2>1 DEF Registered
    <2> QED
      BY <2>1, <2>2, AdvanceHides
  <1>3. CASE Unlock(t)
    <2>1. /\ TypeOK /\ UNCHANGED <<slots, freed, sid, created, op, arg, ret>>
          /\ pc[t] = "unlock" /\ pc'[t] = "return" /\ pc' = [pc EXCEPT ![t] = "return"]
          /\ \A u \in Threads : u # t => pc'[u] = pc[u]
      BY <1>3 DEF Unlock, tableVars, callVars, IInv, TypeOK
    <2>2. (SweepInProgress' <=> SweepInProgress) /\ Registered' = Registered
      BY <2>1 DEF SweepInProgress, Sweeping, Registered
    <2>3. Members' = Members /\ Discarded' = Discarded
      BY <2>1, <2>2 DEF Members, Discarded
    <2>4. \A u \in Threads : PhaseOf(u)' = PhaseOf(u)
      BY <2>1 DEF PhaseOf, Sweeping
    <2>5. Phase' = Phase
      BY <2>4 DEF Phase
    <2> QED
      BY <2>1, <2>3, <2>5, Zenon DEF Registry!vars, Members, Discarded, Phase, PhaseOf
  <1>4. CASE EndLoop(t) /\ op[t] = "disconnect_all"
    <2>1. /\ TypeOK /\ UNCHANGED <<slots, freed, sid, created, op, arg>>
          /\ pc[t] = "scan" /\ idx[t] = NumSlots /\ pc'[t] = "unlock"
          /\ ret' = [ret EXCEPT ![t] = NULL] /\ ret[t] = NULL
          /\ \A u \in Threads : u # t => pc'[u] = pc[u] /\ op'[u] = op[u]
      BY <1>4 DEF EndLoop, Leave, NoResultYet, IInv, TypeOK
    <2>2. ret' = ret
      BY <2>1 DEF TypeOK
    <2>3. SweepInProgress /\ ~SweepInProgress'
      <3>1. SweepInProgress
        BY <1>4, <2>1, SweepOfScanner
      <3>2. \A u \in Threads : u # t => pc[u] # "scan"
        BY <2>1, Exclusive
      <3> QED
        BY <2>1, <3>1, <3>2 DEF SweepInProgress, Sweeping
    <2>4. Registered = {} /\ Registered' = {}
      BY <1>4, <2>1 DEF Registered, IInv, ScannedPrefix, Slot
    <2>5. Members' = Members /\ Discarded' = Discarded
      BY <2>1, <2>3, <2>4 DEF Members, Discarded
    <2>6. \A u \in Threads : PhaseOf(u)' = PhaseOf(u)
      BY <1>4, <2>1 DEF PhaseOf, Sweeping
    <2>7. Phase' = Phase
      BY <2>6 DEF Phase
    <2> QED
      BY <2>1, <2>2, <2>5, <2>7, Zenon DEF Registry!vars, Members, Discarded, Phase, PhaseOf
  <1> QED
    BY <1>1, <1>2, <1>3, <1>4

\* The return of a call is the registry's response.
LEMMA ReturnRefines ==
    ASSUME RInv, NEW t \in Threads, Return(t)
    PROVE  Registry!Next
  <1> USE DEF RInv
  <1>1. /\ TypeOK /\ pc[t] = "return" /\ pc'[t] = "idle"
        /\ freed' = IF ret[t] = Failed /\ op[t] = "add" THEN freed \cup {arg[t]} ELSE freed
        /\ op' = [op EXCEPT ![t] = NULL] /\ arg' = [arg EXCEPT ![t] = NULL]
        /\ ret' = [ret EXCEPT ![t] = NULL]
        /\ UNCHANGED <<slots, created, sid>>
        /\ \A u \in Threads : u # t => pc'[u] = pc[u] /\ op'[u] = op[u]
    BY DEF Return, IInv, TypeOK
  <1>2. (SweepInProgress' <=> SweepInProgress) /\ Registered' = Registered
    BY <1>1 DEF SweepInProgress, Sweeping, Registered
  <1>3. /\ Members' = Members
        /\ Discarded' = IF ret[t] = Failed /\ op[t] = "add"
                        THEN Discarded \cup {arg[t]} ELSE Discarded
    BY <1>1, <1>2 DEF Members, Discarded
  <1>4. PhaseOf(t)' = "idle" /\ Phase[t] = "decided"
    BY <1>1 DEF PhaseOf, Phase, Sweeping
  <1>5. Phase' = [Phase EXCEPT ![t] = "idle"]
    BY <1>1, <1>4, PhaseStep
  <1>6. Registry!Respond(t)
    BY <1>1, <1>3, <1>4, <1>5, Zenon DEF Registry!Respond, Members, Discarded, Phase, PhaseOf
  <1> QED
    BY <1>6, Zenon DEF Registry!Next

\* No call has a result while it waits for the lock or goes through the loop.
LEMMA RInvInductive ==
    ASSUME RInv, [Next]_vars
    PROVE  RInv'
  <1> USE DEF RInv
  <1>1. IInv' /\ TypeOK
    BY NextPreservesIInv DEF IInv
  <1>2. ASSUME NEW t \in Threads,
               \/ CallAdd(t) \/ CallById(t) \/ CallDisconnectAll(t)
               \/ Lock(t) \/ SweepSlot(t) \/ SkipSlot(t)
        PROVE  NoResultYet'
    <2>1. /\ ret' = ret /\ pc[t] \in {"idle", "lock", "scan"}
          /\ \A u \in Threads : u # t => pc'[u] = pc[u]
      BY <1>1, <1>2 DEF CallAdd, CallById, CallDisconnectAll, Call, Lock, SweepSlot, SkipSlot,
                        AtSlot, Advance, callVars, TypeOK
    <2> QED
      BY <2>1 DEF NoResultYet
  <1>3. ASSUME NEW t \in Threads, NEW r, Leave(t, r)
        PROVE  NoResultYet'
    BY <1>1, <1>3 DEF Leave, NoResultYet, TypeOK
  <1>4. ASSUME NEW t \in Threads, TakeSlot(t) \/ ClearSlot(t) \/ ReadSlot(t) \/ EndLoop(t)
        PROVE  NoResultYet'
    <2>1. PICK r : Leave(t, r)
      BY <1>4 DEF TakeSlot, ClearSlot, ReadSlot, EndLoop
    <2> QED
      BY <1>3, <2>1
  <1>5. ASSUME NEW t \in Threads, Unlock(t) \/ Return(t)
        PROVE  NoResultYet'
    BY <1>1, <1>5 DEF Unlock, Return, callVars, NoResultYet, TypeOK
  <1>6. CASE UNCHANGED vars
    BY <1>1, <1>6 DEF vars, NoResultYet
  <1> QED
    BY <1>1, <1>2, <1>4, <1>5, <1>6 DEF Next, Critical

\* Whatever the number of threads, sessions and slots: every operation of
\* session_manager.c takes effect at one instant between its call and its return.
THEOREM TableImplementsRegistry == Spec => RefinesRegistry
  <1>1. Init => RInv
    BY InitEstablishesIInv DEF Init, RInv, NoResultYet
  <1>2. RInv /\ [Next]_vars => RInv'
    BY RInvInductive
  <1>3. Init => Registry!Init
    <2> SUFFICES ASSUME Init PROVE Registry!Init
      OBVIOUS
    <2>1. ~SweepInProgress /\ Registered = {}
      BY DEF Init, SweepInProgress, Sweeping, Registered
    <2>2. Members = {} /\ Discarded = {}
      BY <2>1 DEF Members, Discarded, Init
    <2>3. Phase = [t \in Threads |-> "idle"]
      BY DEF Init, Phase, PhaseOf
    <2> QED
      BY <2>2, <2>3, Zenon DEF Init, Registry!Init, Registry!Sessions, Sessions, Members,
                               Discarded, Phase, PhaseOf
  <1>4. RInv /\ [Next]_vars => [Registry!Next]_Registry!vars
    <2> SUFFICES ASSUME RInv, [Next]_vars PROVE Registry!Next \/ UNCHANGED Registry!vars
      OBVIOUS
    <2>1. ASSUME NEW t \in Threads, TakeSlot(t) PROVE op[t] = "add"
      BY <2>1 DEF TakeSlot, AtSlot
    <2>2. ASSUME NEW t \in Threads, ClearSlot(t) \/ ReadSlot(t)
          PROVE  op[t] \in {"remove", "get"}
      BY <2>2 DEF ClearSlot, ReadSlot, AtSlot
    <2>3. ASSUME NEW t \in Threads, EndLoop(t) PROVE op[t] \in AllOps
      BY <2>3 DEF EndLoop, RInv, IInv, Provenance
    <2>4. CASE UNCHANGED vars
      <3>1. UNCHANGED <<Members, Discarded, Phase, created, sid, op, arg, ret>>
        BY <2>4 DEF vars, Members, Discarded, Phase, PhaseOf, SweepInProgress, Sweeping,
               Registered
      <3> QED
        BY <3>1, Zenon DEF Registry!vars, Members, Discarded, Phase, PhaseOf
    <2>5. ASSUME NEW t \in Threads, EndLoop(t)
          PROVE  Registry!Next \/ UNCHANGED Registry!vars
      BY <2>3, <2>5, AddRefines, FindRefines, HiddenRefines DEF AllOps
    <2> QED
      BY <2>1, <2>2, <2>4, <2>5, CallRefines, LockRefines, AddRefines, FindRefines,
         HiddenRefines, ReturnRefines DEF Next, Critical
  <1> QED
    BY <1>1, <1>2, <1>3, <1>4, PTL DEF Spec, RefinesRegistry, Registry!Spec
===============================================================================
