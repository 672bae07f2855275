\* A client that goes away in the middle of its handshake.
SPECIFICATION Spec
CONSTANTS
    c1 = c1
    c2 = c2
    c3 = c3
    Clients = {c1}
    Capacity = 1
    MaxOpen = 1
    NULL = NULL
CHECK_DEADLOCK FALSE
INVARIANT ServerSurvives
