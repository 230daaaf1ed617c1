-------------------------------- MODULE Sched --------------------------------
(***************************************************************************)
(* The scheduler driven by everything that can call it: the timer tick,    *)
(* the current task's system calls, and wake-ups from system calls and     *)
(* interrupt handlers.  What the tasks do in between is left open here;    *)
(* the modules Process, Pipe, Timer, Futex and Signal fill it in.          *)
(***************************************************************************)
EXTENDS Scheduler

CONSTANT InitTask   \* the task of the first user process

ASSUME InitTaskAssumption == InitTask \in UserTasks

VARIABLE sched

SchedInit == sched = Boot(InitTask)

cur == sched.curtask

\* The timer's schedule() callback, and kernel::yield() of a task that
\* stays runnable.
Yield == sched' = Schedule(sched)

\* kernel::sleep().
SleepCur ==
    /\ cur # Idle
    /\ sched' = Schedule(Sleep(sched, cur))

\* The current task, or an interrupt that arrives while it runs, wakes t.
WakeupTask(t) ==
    /\ sched.state[t] # "None"
    /\ sched' = Wakeup(sched, t)

\* Process::newTask: clone() of a thread or of a process.
NewTask(t) ==
    /\ cur # Idle
    /\ sched.state[t] = "None"
    /\ sched' = Create(sched, t)

\* Task::exit ({cur}) and exitGroup (all the tasks of the process, some of
\* which may be asleep or queued): Zombies, then yield.
ExitTasks(S) ==
    /\ cur \in S
    /\ \A t \in S : sched.state[t] \notin {"None", "Zombie"}
    /\ sched' = Schedule(Kill(sched, S))

SchedNext ==
    \/ Yield
    \/ SleepCur
    \/ \E t \in UserTasks : WakeupTask(t)
    \/ \E t \in UserTasks : NewTask(t)
    \/ \E S \in SUBSET UserTasks : ExitTasks(S)

SchedSpec == SchedInit /\ [][SchedNext]_sched

(***************************************************************************)
(* The timer is re-armed on every interrupt (Timer::next), so a tick is    *)
(* always going to come.                                                   *)
(***************************************************************************)
SchedFairSpec == SchedSpec /\ WF_sched(Yield)

-----------------------------------------------------------------------------
\* The types: states, ready lists and a current task, as in sched.hh.
SchedTypeOK == sched \in SchedType

(***************************************************************************)
(* Scheduler::add, sleep, wakeup, remove and next keep the ready lists     *)
(* exact: a runnable task is running or queued exactly once, a sleeping or *)
(* dead task is never queued, and next() always finds a task.              *)
(***************************************************************************)
QueuesExact == QueueInv(sched)

(***************************************************************************)
(* schedule() never resumes a task that sleeps or has exited; this is what *)
(* Scheduler::sleep asserts of the current task.                           *)
(***************************************************************************)
CurrentMayRun == CurRunnable(sched)

(***************************************************************************)
(* An exited task stays a Zombie: a wake-up that was on its way (a stale   *)
(* entry of a waiting list, a late timeout) does not bring it back.        *)
(***************************************************************************)
DeadStayDead ==
    [][\A t \in UserTasks :
          sched.state[t] = "Zombie" => /\ sched'.state[t] = "Zombie"
                                       /\ sched'.curtask # t]_sched

Position(s, t) == CHOOSE i \in 1 .. Len(s.ready[0]) : s.ready[0][i] = t

Queued(s, t) == t \in Elements(s.ready[0])

(***************************************************************************)
(* Round robin: no call moves a queued task back, whoever is woken, cloned *)
(* or preempted meanwhile, and a task that leaves the queue was its head   *)
(* and runs, or has exited.                                                *)
(***************************************************************************)
NoOvertaking ==
    [][\A t \in UserTasks : Queued(sched, t) =>
          \/ Queued(sched', t) /\ Position(sched', t) <= Position(sched, t)
          \/ sched'.curtask = t
          \/ sched'.state[t] = "Zombie"]_sched

(***************************************************************************)
(* schedule() gives the hart to the idle task only when no user task can   *)
(* run.                                                                    *)
(***************************************************************************)
IdleOnlyIfNoneReady ==
    [][sched'.curtask = Idle /\ sched.curtask # Idle =>
          \A t \in UserTasks : ~Runnable(sched', t)]_sched

(***************************************************************************)
(* No starvation: a runnable task gets the hart, unless it exits first.    *)
(***************************************************************************)
RunnableRuns ==
    \A t \in UserTasks :
        Queued(sched, t) ~> (sched.curtask = t \/ sched.state[t] = "Zombie")
=============================================================================
