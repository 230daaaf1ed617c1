-------------------------------- MODULE Timer --------------------------------
(***************************************************************************)
(* The timer (include/time.hh, kernel/time.cc): the queue of timed events, *)
(* the periodic tick that calls schedule(), and nanosleep, with the        *)
(* scheduler calls they make.                                              *)
(*                                                                         *)
(* Times are relative: what is left until an event, 0 when it is due.  The *)
(* queue is in the order of the keys (time, priority), which overdue       *)
(* events keep; the event of the tick bears the name of the idle task.     *)
(* Kernel code is not interrupted.  pc[t] says where a task resumes:       *)
(*   "user"   in user mode; a trap it was in when preempted is abandoned   *)
(*   "sleep"  in nanosleep, behind kernel::sleep()                         *)
(*   "loop"   the idle task, in the loop of Timer::next, which schedule()  *)
(*            took it out of                                               *)
(*   "wfi"    the idle task, waiting for an interrupt                      *)
(***************************************************************************)
EXTENDS Sched

CONSTANTS
    tickDuration,
    Durations,  \* what programs pass to nanosleep
    Exits       \* programs call exit_group while other threads sleep

ASSUME TimerAssumption ==
    /\ IsFiniteSet(UserTasks)
    /\ tickDuration \in Nat \ {0} /\ Durations \subseteq Nat /\ Exits \in BOOLEAN

VARIABLES
    pc,
    events,     \* the queue: [task, left]
    armed,      \* time left until the interrupt; 0: it is pending
    handling,   \* the current task is in the loop of Timer::next
    owed        \* how much longer nanosleep must last, for each sleeper

vars == <<sched, pc, events, armed, handling, owed>>

\* The order in which the threads were created, the first process's first.
Orders ==
    {q \in [1 .. Cardinality(UserTasks) -> UserTasks] :
        q[1] = InitTask /\ \A i, j \in DOMAIN q : q[i] = q[j] => i = j}

Init ==
    /\ \E q \in Orders :
          /\ Elements(q) = UserTasks
          /\ sched = [Boot(InitTask) EXCEPT !.state = [t \in Tasks |-> "Init"], !.ready[0] = q]
    /\ pc = [t \in Tasks |-> IF t = Idle THEN "wfi" ELSE "user"]
    /\ events = <<[task |-> Idle, left |-> tickDuration]>>
    /\ armed = tickDuration
    /\ handling = FALSE
    /\ owed = [t \in UserTasks |-> 0]

\* schedule() by the current task, which resumes at `at' if it ever does; the
\* task that is resumed goes on where it was.
SwitchFrom(s, at) ==
    LET next == Schedule(s).curtask
        pcs == [pc EXCEPT ![s.curtask] = at]
    IN  /\ sched' = Schedule(s)
        /\ handling' = (pcs[next] = "loop")
        /\ pc' = IF pcs[next] = "loop" THEN [pcs EXCEPT ![next] = "wfi"] ELSE pcs

-----------------------------------------------------------------------------
(***************************************************************************)
(* Timer::add: behind the events that are due before, or at the same time  *)
(* with a smaller priority number; the tick's is 0, the others' 1.         *)
(***************************************************************************)
add(q, e) ==
    LET before == {i \in DOMAIN q : q[i].left < e.left \/ (q[i].left = e.left /\ e.task # Idle)}
        n == Cardinality(before)
    IN  [i \in 1 .. Len(q) + 1 |->
            IF i <= n THEN q[i] ELSE IF i = n + 1 THEN e ELSE q[i - 1]]

(***************************************************************************)
(* Timer::next, called by timerInterruptHandler.                           *)
(***************************************************************************)
\* The interrupt is taken in user mode and in the idle loop.
Interrupt ==
    /\ ~handling /\ armed = 0
    /\ pc[cur] \in {"user", "wfi"}
    /\ handling' = TRUE
    /\ UNCHANGED <<sched, pc, events, armed, owed>>

Due(e) == handling /\ events # <<>> /\ e = Head(events) /\ e.left = 0

\* Variant of Expire: the event is not popped.
ExpireKeep(e) ==
    /\ Due(e) /\ e.task # Idle
    /\ sched' = Wakeup(sched, e.task)
    /\ UNCHANGED <<pc, events, armed, handling, owed>>

\* The callback of wait_for: notify_specific.
Expire(e) ==
    /\ Due(e) /\ e.task # Idle
    /\ events' = Tail(events)
    /\ sched' = Wakeup(sched, e.task)
    /\ UNCHANGED <<pc, armed, handling, owed>>

\* Variant of Rearmed: the interval is not set again.
RearmedNever(q) == q

\* setInterval puts the tick back before it calls schedule().
Rearmed(q) == add(q, [task |-> Idle, left |-> tickDuration])

Tick(e) ==
    /\ Due(e) /\ e.task = Idle
    /\ events' = Rearmed(Tail(events))
    /\ SwitchFrom(sched, IF cur = Idle THEN "loop" ELSE "user")
    /\ UNCHANGED <<armed, owed>>

NextAlarm == Head(events).left

\* Nothing is due: sbi_set_timer for the next event, and out of the trap.
SetTimer ==
    /\ handling /\ events # <<>> /\ Head(events).left > 0
    /\ armed' = NextAlarm
    /\ handling' = FALSE
    /\ UNCHANGED <<sched, pc, events, owed>>

-----------------------------------------------------------------------------
\* Variant of Timeout: the duration is cut to whole ticks.
TimeoutTicks(t, d) == [task |-> t, left |-> (d \div tickDuration) * tickDuration]

\* setTimeout adds an event and leaves the hardware timer alone.
Timeout(t, d) == [task |-> t, left |-> d]

nanoSleep(d) ==
    /\ ~handling /\ pc[cur] = "user"
    /\ events' = add(events, Timeout(cur, d))
    /\ owed' = [owed EXCEPT ![cur] = d]
    /\ SwitchFrom(Sleep(sched, cur), "sleep")
    /\ UNCHANGED armed

\* A task that was resumed returns from nanosleep.
Return ==
    /\ ~handling /\ pc[cur] = "sleep"
    /\ pc' = [pc EXCEPT ![cur] = "user"]
    /\ UNCHANGED <<sched, events, armed, handling, owed>>

\* exit_group of a process whose threads are S; their events stay.
exitGroup(S) ==
    /\ Exits /\ ~handling /\ pc[cur] = "user" /\ cur \in S
    /\ \A t \in S : sched.state[t] # "Zombie"
    /\ SwitchFrom(Kill(sched, S), "user")
    /\ UNCHANGED <<events, armed, owed>>

\* Time passes, while kernel code runs too; an event or an interrupt that
\* is overdue stays due.
Less(n) == IF n = 0 THEN 0 ELSE n - 1

Pass ==
    /\ armed' = Less(armed)
    /\ events' = [i \in DOMAIN events |-> [events[i] EXCEPT !.left = Less(@)]]
    /\ owed' = [t \in UserTasks |-> Less(owed[t])]
    /\ UNCHANGED <<sched, pc, handling>>

Kernel == Interrupt \/ SetTimer \/ Return \/ \E e \in Elements(events) : Tick(e) \/ Expire(e)

Next ==
    \/ Kernel
    \/ \E d \in Durations : nanoSleep(d)
    \/ \E S \in SUBSET UserTasks : exitGroup(S)
    \/ Pass

Spec == Init /\ [][Next]_vars

\* Time goes on, and the kernel does not stop in the middle of a trap.
FairSpec == Spec /\ WF_vars(Pass) /\ WF_vars(Kernel)

-----------------------------------------------------------------------------
\* The types; what Timer::next passes to sbi_set_timer is never in the past.
TypeOK ==
    /\ sched \in SchedType
    /\ pc \in [Tasks -> {"user", "sleep", "loop", "wfi"}]
    /\ events \in Seq([task : Tasks, left : Nat])
    /\ armed \in Nat
    /\ handling \in BOOLEAN
    /\ owed \in [UserTasks -> Nat]

EventsOf(t) == {i \in DOMAIN events : events[i].task = t}

(***************************************************************************)
(* A sleeper has an event in the queue until that event has woken it, and  *)
(* no event of a task that is still alive belongs to an earlier sleep:     *)
(* the condition variable it points to is on the stack of that sleep.      *)
(***************************************************************************)
EventsExact ==
    \A t \in UserTasks :
        /\ sched.state[t] = "Pending" => Cardinality(EventsOf(t)) = 1
        /\ Runnable(sched, t) => EventsOf(t) = {}

\* nanosleep does not return before its time is over.
NotEarly == \A t \in UserTasks : pc[t] = "user" => owed[t] = 0 \/ sched.state[t] = "Zombie"

(***************************************************************************)
(* A sleeper that has not been killed wakes up and returns to user mode.   *)
(***************************************************************************)
SleepEnds ==
    \A t \in UserTasks :
        (pc[t] = "sleep") ~> (pc[t] = "user" \/ sched.state[t] = "Zombie")

(***************************************************************************)
(* kernel/sched.cc:60, of a task added while one of lower priority runs:   *)
(* "issue an immediate schedule".  The idle task does not go back to wait  *)
(* for an interrupt while a user task is ready.                            *)
(***************************************************************************)
IdleYields ==
    [][SetTimer /\ cur = Idle => sched.ready[0] = <<>>]_vars
=============================================================================
