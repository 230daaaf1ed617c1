------------------------------ MODULE Scheduler ------------------------------
(***************************************************************************)
(* The class sched::Scheduler (include/sched.hh, kernel/sched.cc) as       *)
(* operators on its state, so that a system call which makes several       *)
(* scheduler calls before it returns is one action.                        *)
(*                                                                         *)
(* A scheduler state s is a record:                                        *)
(*   s.ready    the ready lists, one for each priority 0 .. maxPrior       *)
(*   s.pending  the set the scheduler keeps of tasks taken off the lists   *)
(*   s.state    the State field of every task ("None": not created)        *)
(*   s.curtask  kHartObj().curtask                                         *)
(*                                                                         *)
(* The kernel runs on one hart (the second one is never started) and never *)
(* preempts kernel code, so a scheduler call is atomic.                    *)
(***************************************************************************)
EXTENDS Integers, Sequences, FiniteSets

CONSTANTS
    UserTasks,  \* tasks of user processes, all of priority 0
    Idle        \* the kernel's idle task, of priority maxPrior

ASSUME IdleAssumption == Idle \notin UserTasks

Tasks == UserTasks \cup {Idle}

maxPrior == 1

\* The enumeration State.  Nothing in the kernel assigns Running.
State == {"None", "Init", "Ready", "Running", "Pending", "Zombie"}

prior(t) == IF t = Idle THEN maxPrior ELSE 0

SchedType ==
    [ready   : [0 .. maxPrior -> Seq(Tasks)],
     pending : SUBSET Tasks,
     state   : [Tasks -> State],
     curtask : Tasks]

Runnable(s, t) == s.state[t] \in {"Init", "Ready", "Running"}

Elements(q) == {q[i] : i \in DOMAIN q}

(***************************************************************************)
(* list::remove for every member of S: the elements not in S, in their     *)
(* order.  The k-th of the kept positions is the one that k kept positions *)
(* do not exceed.                                                          *)
(***************************************************************************)
Kept(q, S) == {i \in 1 .. Len(q) : q[i] \notin S}

Rank(K, k) == Cardinality({j \in K : j <= k})

Without(q, S) ==
    LET K == Kept(q, S)
    IN  [i \in 1 .. Cardinality(K) |-> q[CHOOSE k \in K : Rank(K, k) = i]]

\* Variants of add that the properties of Sched must reject: a sleeping task
\* is queued; a task is queued at the front.
AddSleeper(s, t) ==
    IF s.state[t] = "Zombie" THEN s ELSE [s EXCEPT !.ready[prior(t)] = Append(@, t)]

AddFront(s, t) ==
    IF s.state[t] \in {"Zombie", "Pending"}
    THEN s
    ELSE [s EXCEPT !.ready[prior(t)] = <<t>> \o @]

(***************************************************************************)
(* Scheduler::add.  The timer interrupt it posts when the current task has *)
(* a lower priority runs Timer::next, which schedules only at a tick.      *)
(***************************************************************************)
Add(s, t) ==
    IF s.state[t] \in {"Zombie", "Pending"}
    THEN s
    ELSE [s EXCEPT !.ready[prior(t)] = Append(@, t)]

\* Scheduler::sleep; its caller is the current task, which is on no list.
Sleep(s, t) ==
    [s EXCEPT !.state[t] = "Pending",
              !.ready[prior(t)] = Without(@, {t}),
              !.pending = @ \cup {t}]

\* Variant: wakeup without the test of the state.
WakeupAlways(s, t) ==
    Add([s EXCEPT !.pending = @ \ {t}, !.state[t] = "Ready"], t)

\* Scheduler::wakeup: nothing unless the task sleeps.
Wakeup(s, t) ==
    IF s.state[t] # "Pending"
    THEN s
    ELSE Add([s EXCEPT !.pending = @ \ {t}, !.state[t] = "Ready"], t)

\* A task is made a Zombie and Scheduler::remove takes it off its list; a
\* group exit does so for every task of the process.
Kill(s, S) ==
    [s EXCEPT !.state = [t \in Tasks |-> IF t \in S THEN "Zombie" ELSE @[t]],
              !.ready[0] = Without(@, S),
              !.pending = @ \cup S]

\* A new task (state Init) is added to the ready list of its priority.
Create(s, t) == Add([s EXCEPT !.state[t] = "Init"], t)

(***************************************************************************)
(* schedule(): Scheduler::next puts the current task back unless it sleeps *)
(* or is a Zombie and takes the head of the first list that is not empty.  *)
(***************************************************************************)
FirstReady(s) ==
    CHOOSE p \in 0 .. maxPrior :
        s.ready[p] # <<>> /\ \A r \in 0 .. p - 1 : s.ready[r] = <<>>

SwitchTo(s, p) == [s EXCEPT !.ready[p] = Tail(@), !.curtask = Head(s.ready[p])]

Schedule(s) ==
    LET s1 == Add(s, s.curtask)
    IN  SwitchTo(s1, FirstReady(s1))

(***************************************************************************)
(* kernel::init: the first user process's task is added, then the idle     *)
(* task, and the idle task becomes current while it stays on its list.     *)
(***************************************************************************)
Boot(first) ==
    [ready   |-> [p \in 0 .. maxPrior |-> IF p = 0 THEN <<first>> ELSE <<Idle>>],
     pending |-> {},
     state   |-> [t \in Tasks |-> IF t \in {first, Idle} THEN "Init" ELSE "None"],
     curtask |-> Idle]

-----------------------------------------------------------------------------
(***************************************************************************)
(* What every scheduler call preserves.  Each clause speaks of user tasks  *)
(* on the priority-0 list; the idle task is current once and listed twice, *)
(* because kernel::init makes it current without taking it off its list.   *)
(***************************************************************************)

\* A task is queued at most once, and only if it may run and is not running.
NoDoubleQueue(s) ==
    /\ \A i, j \in 1 .. Len(s.ready[0]) : s.ready[0][i] = s.ready[0][j] => i = j
    /\ \A i \in 1 .. Len(s.ready[0]) :
         /\ s.ready[0][i] \in UserTasks
         /\ s.ready[0][i] # s.curtask
         /\ Runnable(s, s.ready[0][i])

\* A task that may run is running or queued: no call loses it.
NoLostTask(s) ==
    \A t \in UserTasks : Runnable(s, t) /\ t # s.curtask => t \in Elements(s.ready[0])

\* next() never returns nullptr: the idle task is always on its list, twice
\* while another task runs.
IdleReady(s) ==
    /\ Len(s.ready[maxPrior]) = IF s.curtask = Idle THEN 1 ELSE 2
    /\ \A i \in 1 .. Len(s.ready[maxPrior]) : s.ready[maxPrior][i] = Idle
    /\ Runnable(s, Idle)

\* The pending set holds every sleeper, and apart from them only the dead.
PendingSet(s) ==
    \A t \in Tasks : /\ s.state[t] = "Pending" => t \in s.pending
                     /\ t \in s.pending => s.state[t] \in {"Pending", "Zombie"}

\* The current task has been created.
CurExists(s) == s.state[s.curtask] # "None"

QueueInv(s) ==
    /\ NoDoubleQueue(s)
    /\ NoLostTask(s)
    /\ IdleReady(s)
    /\ PendingSet(s)
    /\ CurExists(s)

\* The current task may run.  Scheduler::sleep asserts half of this.
CurRunnable(s) == Runnable(s, s.curtask)
=============================================================================
