SPECIFICATION SchedFairSpec
CONSTANTS
    UserTasks = {t1, t2, t3, t4}
    Idle = idle
    InitTask = t1
INVARIANTS
    QueuesExact
    CurrentMayRun
PROPERTIES
    DeadStayDead
    NoOvertaking
    RunnableRuns
