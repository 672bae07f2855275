SPECIFICATION FairSpec
CONSTANTS
    c1 = c1
    c2 = c2
    Clients = {c1, c2}
    MaxConns = 2
    MaxKeys = 2
    NULL = NULL
INVARIANTS
    IInv
    RefusedOnlyAfterLoss
    NobodyWaitsForTheOther
    TrustIsCurrent
PROPERTIES
    ConnectEnds
    ImplementsAgreement
