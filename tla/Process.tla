------------------------------- MODULE Process -------------------------------
(***************************************************************************)
(* Process and task life cycle: clone, exit, exit_group, waitpid, kill and *)
(* the return to user mode, with the scheduler calls each of them makes    *)
(* (kernel/proc.cc, kernel/syscall/proc.cc, kernel/trap.cc, the part of    *)
(* kernel/ipc.cc that ends a process).                                     *)
(*                                                                         *)
(* Kernel code runs to the next call of kernel::sleep() or kernel::yield() *)
(* without interruption; pc[t] says where task t is between such points:   *)
(*   "idle"    the idle task, in its loop                                  *)
(*   "user"    in user mode                                                *)
(*   "trap"    its trap is handled, straphandler is about to return        *)
(*   "wait"    inside the loop of waitpid                                  *)
(*   "killed"  in Process::exit(), called by sigHandler                    *)
(***************************************************************************)
EXTENDS Sched

CONSTANTS
    Procs,      \* process ids of the user processes; 1 is the first one
    Calls       \* the optional system calls the programs make

ASSUME ProcsAssumption == Procs \subseteq Nat \ {0} /\ 1 \in Procs
ASSUME TidsAssumption == UserTasks \subseteq Nat \ {0} /\ 1 \in UserTasks /\ InitTask = 1
ASSUME CallsAssumption ==
    Calls \subseteq {"thread", "exit", "kill", "firstExits"}

VARIABLES
    procs,      \* procMgr: pid -> state, parent and tasks of the process, and
                \* whether a signal ended it (kept for the properties only)
    home,       \* Task::proc
    pc,         \* where each task is
    target,     \* what waitpid waits for: a pid, or 0 for any child
    killsig,    \* tasks with a pending signal whose action is to terminate
    fault       \* the first failed assertion or bad pointer, or "none"

vars == <<sched, procs, home, pc, target, killsig, fault>>

Faults == {"none", "nullParent", "noDefaultTask", "nullProcess", "freedProcess"}

curproc == home[cur]

Exists(pr, p) == p \in Procs /\ pr[p].state \notin {"None", "Reaped"}

\* Variant: the parent is not looked at.
AllProcs(p) == {c \in Procs \ {p} : Exists(procs, c)}

\* ProcManager::getChilds.
getChilds(p) == {c \in Procs : Exists(procs, c) /\ procs[c].parent = p}

Zombies(S) == {c \in S : procs[c].state = "Zombie"}

Least(S) == CHOOSE x \in S : \A y \in S : x <= y

\* ObjManager::newId: ids count up and are not used again.
NewPid == Least({p \in Procs : procs[p].state = "None"})
NewTid == Least({t \in UserTasks : sched.state[t] = "None"})

Init ==
    /\ SchedInit
    /\ procs = [p \in Procs |->
                  IF p = 1 THEN [state |-> "Init", parent |-> 0, tasks |-> {1}, slain |-> FALSE]
                  ELSE [state |-> "None", parent |-> 0, tasks |-> {}, slain |-> FALSE]]
    /\ home = [t \in UserTasks |-> 1]
    /\ pc = [t \in Tasks |-> IF t = Idle THEN "idle" ELSE "user"]
    /\ target = [t \in UserTasks |-> 0]
    /\ killsig = {}
    /\ fault = "none"

\* A task in user mode makes a system call.
Syscall == fault = "none" /\ pc[cur] = "user"

(***************************************************************************)
(* schedule() reads the process of the task it switches to.                *)
(***************************************************************************)
Switch(s, pr) ==
    LET next == Schedule(s).curtask
    IN  /\ sched' = Schedule(s)
        /\ fault' = IF next # Idle /\ ~Exists(pr, home[next])
                    THEN "nullProcess" ELSE "none"

\* Variant: the parent is not woken.
ProcessExitNoWakeup(p, s, pr) ==
    LET pr1 == [pr EXCEPT ![p].state = "Zombie"]
    IN  procs' = pr1 /\ Switch(s, pr1)

(***************************************************************************)
(* Process::exit of p, after which the calling task yields: s and pr are   *)
(* the scheduler and the processes it starts from.  It wakes the parent's  *)
(* default task: tasks.begin() of an unordered set, so any one of them.    *)
(***************************************************************************)
ProcessExit(p, s, pr) ==
    LET pr1 == [pr EXCEPT ![p].state = "Zombie"]
        q   == pr[p].parent
    IN  /\ procs' = pr1
        /\ \/ ~Exists(pr1, q) /\ fault' = "nullParent" /\ sched' = s
           \/ /\ Exists(pr1, q) /\ pr1[q].tasks = {}
              /\ fault' = "noDefaultTask" /\ sched' = s
           \/ /\ Exists(pr1, q)
              /\ \E d \in pr1[q].tasks : Switch(Wakeup(s, d), pr1)

-----------------------------------------------------------------------------
\* The timer interrupt in user mode or in the idle loop.  The timer stays
\* due until Timer::next re-arms it, so a task resumed in user mode traps
\* again at once, this time to the end of straphandler.
Tick ==
    /\ fault = "none"
    /\ pc[cur] \in {"user", "idle"}
    /\ Switch(sched, procs)
    /\ pc' = LET n == sched'.curtask
             IN  IF pc[n] = "user" THEN [pc EXCEPT ![n] = "trap"] ELSE pc
    /\ UNCHANGED <<procs, home, target, killsig>>

\* clone() without CLONE_VM, CLONE_THREAD or CLONE_SIGHAND: proc::clone.
Fork ==
    /\ Syscall
    /\ \E p \in Procs : procs[p].state = "None"
    /\ \E t \in UserTasks : sched.state[t] = "None"
    /\ LET p == NewPid
           t == NewTid
       IN  /\ procs' = [procs EXCEPT ![p] = [state |-> "Init", parent |-> curproc,
                                             tasks |-> {t}, slain |-> FALSE]]
           /\ home' = [home EXCEPT ![t] = p]
           /\ sched' = Create(sched, t)
    /\ pc' = [pc EXCEPT ![cur] = "trap"]
    /\ UNCHANGED <<target, killsig, fault>>

\* clone() of a thread: Process::newTask(other, stack).
CloneThread ==
    /\ "thread" \in Calls
    /\ Syscall
    /\ \E t \in UserTasks : sched.state[t] = "None"
    /\ LET t == NewTid
       IN  /\ procs' = [procs EXCEPT ![curproc].tasks = @ \cup {t}]
           /\ home' = [home EXCEPT ![t] = curproc]
           /\ sched' = Create(sched, t)
    /\ pc' = [pc EXCEPT ![cur] = "trap"]
    /\ UNCHANGED <<target, killsig, fault>>

\* The first user process runs for ever unless the programs say otherwise.
MayEnd(p) == p # 1 \/ "firstExits" \in Calls

\* exit(): Task::exit, and Process::exit if it was the last task.  The
\* SIGCHLD sent to the remaining tasks is ignored by default.
Exit ==
    /\ "exit" \in Calls
    /\ Syscall
    /\ procs[curproc].tasks = {cur} => MayEnd(curproc)
    /\ LET s  == Kill(sched, {cur})
           pr == [procs EXCEPT ![curproc].tasks = @ \ {cur}]
       IN  IF pr[curproc].tasks = {}
           THEN ProcessExit(curproc, s, pr)
           ELSE procs' = pr /\ Switch(s, pr)
    /\ UNCHANGED <<home, pc, target, killsig>>

\* exit_group(): every task becomes a Zombie but stays in the process.
ExitGroup ==
    /\ Syscall
    /\ MayEnd(curproc)
    /\ ProcessExit(curproc, Kill(sched, procs[curproc].tasks), procs)
    /\ UNCHANGED <<home, pc, target, killsig>>

\* Variant: the children keep their parent.
ReapOnly(z) ==
    /\ procs' = [procs EXCEPT ![z].state = "Reaped", ![z].tasks = {}]
    /\ pc' = [pc EXCEPT ![cur] = "trap"]
    /\ UNCHANGED <<sched, fault>>

(***************************************************************************)
(* Process::zombieExit of z: its children go to its parent, the process    *)
(* is deleted, and waitpid returns.                                        *)
(***************************************************************************)
Reap(z) ==
    /\ procs' = [p \in Procs |->
                   IF p = z THEN [procs[p] EXCEPT !.state = "Reaped", !.tasks = {}]
                   ELSE IF p \in getChilds(z)
                        THEN [procs[p] EXCEPT !.parent = procs[z].parent]
                        ELSE procs[p]]
    /\ pc' = [pc EXCEPT ![cur] = "trap"]
    /\ UNCHANGED <<sched, fault>>

WaitSleep ==
    /\ Switch(Sleep(sched, cur), procs)
    /\ pc' = [pc EXCEPT ![cur] = "wait"]
    /\ UNCHANGED procs

\* One iteration of waitpid's loop for pid == -1.
WaitAnyLoop ==
    LET childs == getChilds(curproc)
    IN  \/ /\ childs = {}
           /\ pc' = [pc EXCEPT ![cur] = "trap"]
           /\ UNCHANGED <<sched, procs, fault>>
        \/ Zombies(childs) # {} /\ Reap(Least(Zombies(childs)))
        \/ childs # {} /\ Zombies(childs) = {} /\ WaitSleep

\* One iteration of waitpid's loop for pid > 0: the process pointer was
\* read before the loop.
WaitPidLoop(p) ==
    \/ Exists(procs, p) /\ procs[p].state = "Zombie" /\ Reap(p)
    \/ Exists(procs, p) /\ procs[p].state # "Zombie" /\ WaitSleep
    \/ /\ ~Exists(procs, p)
       /\ fault' = "freedProcess"
       /\ UNCHANGED <<sched, procs, pc>>

WaitAny ==
    /\ Syscall
    /\ target' = [target EXCEPT ![cur] = 0]
    /\ WaitAnyLoop
    /\ UNCHANGED <<home, killsig>>

\* Programs wait for processes they have cloned (or were handed).
WaitPid(p) ==
    /\ Syscall
    /\ p \in getChilds(curproc)
    /\ target' = [target EXCEPT ![cur] = p]
    /\ WaitPidLoop(p)
    /\ UNCHANGED <<home, killsig>>

\* The sleeper is scheduled again: kernel::sleep() returns in the loop.
WaitResume ==
    /\ fault = "none" /\ pc[cur] = "wait"
    /\ IF target[cur] = 0 THEN WaitAnyLoop ELSE WaitPidLoop(target[cur])
    /\ UNCHANGED <<home, target, killsig>>

\* kill() with a signal whose action is to terminate: signal::sigSend marks
\* the first task of the process that does not mask it.  Programs do not kill
\* the first process.
KillProc(p) ==
    /\ "kill" \in Calls
    /\ Syscall
    /\ Exists(procs, p) /\ p # 1
    /\ killsig' \in IF procs[p].tasks = {} THEN {killsig}
                    ELSE {killsig \cup {t} : t \in procs[p].tasks}
    /\ pc' = [pc EXCEPT ![cur] = "trap"]
    /\ UNCHANGED <<sched, procs, home, target, fault>>

\* The end of straphandler: sigHandler, then back to user mode.
TrapReturn ==
    /\ fault = "none" /\ pc[cur] = "trap"
    /\ cur \notin killsig
    /\ pc' = [pc EXCEPT ![cur] = "user"]
    /\ UNCHANGED <<sched, procs, home, target, killsig, fault>>

\* sigHandler finds the signal: sigExitHandler calls Process::exit.
TrapKilled ==
    /\ fault = "none" /\ pc[cur] = "trap"
    /\ cur \in killsig
    /\ killsig' = killsig \ {cur}
    /\ pc' = [pc EXCEPT ![cur] = "killed"]
    /\ ProcessExit(curproc, sched, [procs EXCEPT ![curproc].slain = TRUE])
    /\ UNCHANGED <<home, target>>

\* The yield() in Process::exit returns, and so do the handlers above it.
KilledResume ==
    /\ fault = "none" /\ pc[cur] = "killed"
    /\ pc' = [pc EXCEPT ![cur] = "user"]
    /\ UNCHANGED <<sched, procs, home, target, killsig, fault>>

Next ==
    \/ Tick \/ Fork \/ CloneThread \/ Exit \/ ExitGroup
    \/ WaitAny \/ WaitResume
    \/ \E p \in Procs : WaitPid(p)
    \/ \E p \in Procs : KillProc(p)
    \/ TrapReturn \/ TrapKilled \/ KilledResume

Spec == Init /\ [][Next]_vars

(***************************************************************************)
(* A timer interrupt that comes due while the kernel runs stays pending    *)
(* and is taken when user mode is entered (strong fairness); a task that   *)
(* is inside the kernel runs on.                                           *)
(***************************************************************************)
FairSpec ==
    /\ Spec
    /\ SF_vars(Tick)
    /\ WF_vars(WaitResume) /\ WF_vars(TrapReturn)
    /\ WF_vars(TrapKilled) /\ WF_vars(KilledResume)

-----------------------------------------------------------------------------
\* The types; a task in waitpid waits for a process or for any child (0).
TypeOK ==
    /\ sched \in SchedType
    /\ procs \in [Procs -> [state  : {"None", "Init", "Zombie", "Reaped"},
                            parent : Procs \cup {0},
                            tasks  : SUBSET UserTasks,
                            slain  : BOOLEAN]]
    /\ home \in [UserTasks -> Procs]
    /\ pc \in [Tasks -> {"idle", "user", "trap", "wait", "killed"}]
    /\ target \in [UserTasks -> Procs \cup {0}]
    /\ killsig \subseteq UserTasks
    /\ fault \in Faults

(***************************************************************************)
(* The ready lists stay exact whatever the processes do: fork, wait, exit  *)
(* and kill compose the scheduler's calls without losing or doubling a     *)
(* task, and schedule() never picks a sleeping or exited one.  (A fault    *)
(* stops the kernel in the middle of a call.)                              *)
(***************************************************************************)
SchedulerSound == fault = "none" => QueueInv(sched) /\ CurRunnable(sched)

(***************************************************************************)
(* No assertion of the process code fails and no process pointer it uses   *)
(* is null or freed: the parent of an exiting process has a default task,  *)
(* schedule() only meets tasks whose process exists, and waitpid's target  *)
(* is not deleted while it sleeps.                                         *)
(***************************************************************************)
NoFault == fault = "none"

(***************************************************************************)
(* zombieExit hands children on before the process is deleted: the parent  *)
(* field of every process but the first names a process that exists.       *)
(***************************************************************************)
ParentExists ==
    \A p \in Procs : Exists(procs, p) /\ p # 1 => Exists(procs, procs[p].parent)

(***************************************************************************)
(* sigHandler says of the default action that it terminates the current    *)
(* process: no task of a process that has exited is in user mode.          *)
(***************************************************************************)
ExitedDoNotRun ==
    pc[cur] = "user" => procs[curproc].state # "Zombie"

(***************************************************************************)
(* defaultTask() asserts that the process has a task.                      *)
(***************************************************************************)
DefaultTaskExists == fault # "noDefaultTask"

(***************************************************************************)
(* An exited process stays a zombie until its parent collects it, and then *)
(* only once: nobody else deletes it and nothing revives it.               *)
(***************************************************************************)
ParentReaps ==
    [][\A p \in Procs :
          /\ procs[p].state = "Zombie" /\ procs'[p].state # "Zombie" =>
                procs'[p].state = "Reaped" /\ procs[p].parent = curproc
          /\ procs[p].state = "Reaped" => procs'[p].state = "Reaped"]_vars

(***************************************************************************)
(* waitpid returns: a task that waits for any child, and has one that has  *)
(* exited, leaves waitpid.                                                 *)
(***************************************************************************)
WaitReturns ==
    \A t \in UserTasks :
        (pc[t] = "wait" /\ target[t] = 0 /\ Zombies(getChilds(home[t])) # {})
            ~> (pc[t] # "wait" \/ sched.state[t] = "Zombie")
=============================================================================
