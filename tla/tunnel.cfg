\* Two clients, session ids that may coincide, two datagrams per key and three
\* from the server, one change of address, stray datagrams with any id from one other
\* source.
SPECIFICATION Spec
CONSTANTS
    c1 = c1
    c2 = c2
    elsewhere = elsewhere
    s1 = s1
    s2 = s2
    Clients = {c1, c2}
    Ids = {s1, s2}
    NumSlots = 2
    Data = {1}
    MaxCounter = 2
    MaxDown = 3
    MaxPort = 2
    StraySources = {elsewhere}
    NULL = NULL
SYMMETRY ModelSymmetry
INVARIANTS
    IInv
    NonceNeverReused
    PeerIsSource
    RoutedByOctet
PROPERTY
    ImplementsChannel
