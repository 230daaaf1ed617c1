SPECIFICATION FairSpec
CONSTANTS
    Readers = {r1, r2}
    Writers = {w1, w2}
    bufSize = 2
    Lens = {1, 3}
    MaxBytes = 4
    MaxChildren = 1
    ParentsShare = FALSE
CHECK_DEADLOCK FALSE
INVARIANTS
    InOrder
    
PROPERTIES
    EofReturns
