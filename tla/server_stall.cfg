\* Only the server's own threads are sure to make progress.
SPECIFICATION FairServerSpec
CONSTANTS
    c1 = c1
    c2 = c2
    c3 = c3
    Clients = {c1}
    Capacity = 1
    MaxOpen = 1
    NULL = NULL
CHECK_DEADLOCK FALSE
PROPERTY ShutdownTerminates
