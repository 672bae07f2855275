\* Three clients for two slots, every failure and every order of shutdown.
SPECIFICATION Spec
CONSTANTS
    c1 = c1
    c2 = c2
    c3 = c3
    Clients = {c1, c2, c3}
    Capacity = 2
    MaxOpen = 3
    NULL = NULL
CHECK_DEADLOCK FALSE
SYMMETRY ClientSymmetry
INVARIANTS
    IInv
    NoUseAfterFree
    NoUseAfterTeardown
    SuccessKept
    CleanShutdown
    ListenerWaitsForClientOnly
PROPERTY
    NoLateRegistration
