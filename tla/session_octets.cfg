\* One thread adding sessions to a table longer than an octet can number.
SPECIFICATION Spec
CONSTANTS
    t1 = t1
    t2 = t2
    Threads = {t1}
    Ids = {7}
    Ops = {"add"}
    NumSlots = 256
    OctetValues = 256
    MaxCreated = 256
    NULL = NULL
    Ok = Ok
    Failed = Failed
INVARIANT ServerAddressReserved
CHECK_DEADLOCK FALSE
