SPECIFICATION FairSpec
CONSTANTS
    Sectors = {1, 2, 3}
    Frames = {1, 2}
    Values = {"a", "b"}
    Junk = "junk"
    NUM = 8
    MaxFaults = 2
    LateDevice = FALSE
    capacity = 1
    rSPC = 1
INVARIANTS
    DiskDone
    HeldListed
    CacheExact
PROPERTIES
    ImplementsBlocks
    CallReturns
