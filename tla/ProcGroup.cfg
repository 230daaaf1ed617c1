SPECIFICATION FairSpec
CONSTANTS
    UserTasks <- Ids5
    Procs <- Ids5
    Idle = 2
    InitTask = 1
    Calls = {}

    
PROPERTIES
    WaitReturns
