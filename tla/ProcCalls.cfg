SPECIFICATION Spec
CONSTANTS
    UserTasks <- Ids4
    Procs <- Ids3
    Idle = 2
    InitTask = 1
    Calls = {"thread", "exit", "kill", "firstExits"}
CHECK_DEADLOCK FALSE
INVARIANTS
    SchedulerSound
    ParentExists

    
