SPECIFICATION Spec
CONSTANTS
    UserTasks <- Ids3
    Procs <- Ids3
    Idle = 2
    InitTask = 1
    Calls = {"kill"}
CHECK_DEADLOCK FALSE
INVARIANTS
    ExitedDoNotRun
