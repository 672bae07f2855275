\* Server and clients make progress; two clients for one slot.
SPECIFICATION FairSpec
CONSTANTS
    c1 = c1
    c2 = c2
    c3 = c3
    Clients = {c1, c2}
    Capacity = 1
    MaxOpen = 1
    NULL = NULL
CHECK_DEADLOCK FALSE
PROPERTIES
    ShutdownTerminates
    ClientsAnswered
