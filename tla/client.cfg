\* The whole client: two threads that may both destroy the session.
SPECIFICATION FairSpec
CHECK_DEADLOCK FALSE
INVARIANTS
    IInv
    SealedWithLiveKeys
    ConnectionClosedAtExit
    ShellKeepsItsInput
PROPERTIES
    ServerLossEnds
    DisconnectEnds
