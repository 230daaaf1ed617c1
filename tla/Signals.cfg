SPECIFICATION FairSpec
CONSTANTS
    Threads = {t1, t2}
    Sigs = {9, 10, 17}
    Acts <- OneShot
    Masks <- BlockAll
    MaxSends = 2
CHECK_DEADLOCK FALSE
INVARIANTS
    NestingExact

    
    
