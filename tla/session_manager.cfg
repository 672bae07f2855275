\* Two threads, every operation, more sessions than slots, two session ids for
\* three sessions (so two sessions may draw the same id), octets of three values, so
\* that the second slot's has wrapped; no symmetry, which the temporal properties do
\* not allow.
SPECIFICATION FairSpec
CONSTANTS
    t1 = t1
    t2 = t2
    Threads = {t1, t2}
    Ids = {7, 8}
    Ops = {"add", "remove", "get", "disconnect_all"}
    NumSlots = 2
    OctetValues = 3
    MaxCreated = 3
    NULL = NULL
    Ok = Ok
    Failed = Failed
INVARIANTS
    IInv
    CountMatchesTable
    NoDanglingSlot
    AddressesDistinct
PROPERTIES
    RefinesRegistry
    LockReleased
