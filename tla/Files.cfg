SPECIFICATION Spec
CONSTANTS
    Names = {"a", "b"}
    Values = {"x"}
    Dirs = {"a"}
    Slots = 3
    Clusters = 7
    BPC = 2
    MaxSize = 3
    MaxRef = 1
    InDir = "a"
    InFile = "b"
    InValue = "x"
INVARIANTS
    ClustersExact
    CachedTrue
    DEntryKept
    PlaceExact

    
CHECK_DEADLOCK FALSE
