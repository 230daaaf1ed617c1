SPECIFICATION FairSpec
CONSTANTS
    UserTasks = {t1, t2, t3}
    Idle = idle
    InitTask = t1
    tickDuration = 2
    Durations = {0, 1, 3}
    Exits = TRUE
PROPERTIES
    SleepEnds

    
    
