CONSTANTS
  Threads = {t1, t2, t3}
  Main = t1
  Mutex = m
  Cond = c
  MaxCast = 2
SPECIFICATION FairSpec
INVARIANTS
  
  
  CondNotMissed
PROPERTIES
  JoinReturns
CHECK_DEADLOCK FALSE
