SPECIFICATION FairSpec
CONSTANTS
    HeaderSize = 3
    MaxPacketSize = 3
    MaxLength = 4
    Capacity = 2
    MaxPackets = 4
INVARIANTS
    IInv
    NeitherEndStalls
PROPERTIES
    ImplementsChannel
    Delivered
CHECK_DEADLOCK FALSE
