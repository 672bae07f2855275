\* Two clients, both with the address 10.8.0.2 on their TUN devices.
SPECIFICATION Spec
CONSTANTS
    c1 = c1
    c2 = c2
    elsewhere = elsewhere
    s1 = s1
    s2 = s2
    Clients = {c1, c2}
    Ids = {s1, s2}
    NumSlots = 2
    Data = {1}
    MaxCounter = 2
    MaxDown = 3
    MaxPort = 1
    StraySources = {}
    NULL = NULL
INVARIANT AnswersReachAsker
