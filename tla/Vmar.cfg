SPECIFICATION Spec
CONSTANTS
    Procs = {p1, p2}
    First = p1
    MaxPage = 3
    MaxVmos = 2
    Lens = {2}
    UnmapRegions = "prefix"
    ProtectRegions = "prefix"
    HeapUse = "pages"
    ForkedMap = FALSE
CHECK_DEADLOCK FALSE
INVARIANTS
    MemoryExact
    InSync
