SPECIFICATION Spec
CONSTANTS
    Lengths <- MCLengths
    CompressedLengths <- MCCompressedLengths
    StrayLengths <- MCStrayLengths
    MaxPackets = 2
    NULL = NULL
INVARIANTS
    IInv
    CarriedLengths
    WholePackets
    BuffersSuffice
