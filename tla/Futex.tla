-------------------------------- MODULE Futex --------------------------------
(***************************************************************************)
(* The futex system call (kernel/syscall/futex.cc) and the wake-up that    *)
(* Task::exit sends through it, driven by the threads of one process the   *)
(* way a C library drives it:                                              *)
(*   - a lock whose word is 0 (free), 1 (held) or 2 (held, and somebody    *)
(*     may sleep on it);                                                   *)
(*   - a condition whose word counts the broadcasts; a broadcast wakes one *)
(*     waiter and moves the others over to the lock, or wakes them all;    *)
(*   - a main thread that joins another one by waiting for the word that   *)
(*     exit clears (clearChildTid).                                        *)
(*                                                                         *)
(* A system call is one step, because the kernel is not preempted; user    *)
(* code is, so each of its memory accesses is a step of its own.  Runnable *)
(* threads step in any order: module Sched is about which one runs.        *)
(*                                                                         *)
(*   pc[t]         the thread is                                           *)
(*   "out", "in"   outside the lock, inside it                             *)
(*   "contend"     about to swap a 2 into the lock                         *)
(*   "block"       about to wait for the lock                              *)
(*   "wake"        has unlocked, about to wake a sleeper                   *)
(*   "condWake"    the same, on its way to wait for the condition          *)
(*   "cond"        about to wait for the condition                         *)
(*   "cast"        has counted a broadcast, about to wake the waiters      *)
(*   "join"        about to read the word of the thread it joins           *)
(*   "joinWait"    has read that the thread lives, about to wait           *)
(*   "done"        gone                                                    *)
(***************************************************************************)
EXTENDS Integers, Sequences, Functions

CONSTANTS
    Threads, Main,      \* the threads of the process; the one that joins
    Mutex, Cond,        \* the addresses of the lock and of the condition
    MaxCast             \* bound: the broadcasts of a behaviour

ASSUME FutexAssumption ==
    /\ Main \in Threads
    /\ Mutex # Cond
    /\ {Mutex, Cond} \cap Threads = {}
    /\ MaxCast \in Nat

VARIABLES
    word,       \* user memory; the address a thread clears is the thread
    futexes,    \* kGlobObjs->futexes: the waiting list of each address
    asleep,     \* the threads in the scheduler's state Sleep
    pc,
    seen,       \* the count of broadcasts a thread has read, or written
    joined      \* the thread Main joins, Main if none

vars == <<word, futexes, asleep, pc, seen, joined>>

Addrs == Threads \cup {Mutex, Cond}

Init ==
    /\ word = [a \in Addrs |-> IF a \in Threads THEN 1 ELSE 0]
    /\ futexes = [a \in Addrs |-> <<>>]
    /\ asleep = {}
    /\ pc = [t \in Threads |-> "out"]
    /\ seen = [t \in Threads |-> 0]
    /\ joined = Main

At(t, p) == t \notin asleep /\ pc[t] = p

Go(t, p) == pc' = [pc EXCEPT ![t] = p]

-----------------------------------------------------------------------------
(***************************************************************************)
(* FUTEX_WAIT: EAGAIN if the word is not val any more, else to sleep at    *)
(* the end of the list (condition_variable::wait).                         *)
(***************************************************************************)
\* Variant of Wait: the word is not tested.
WaitUntested(t, a, val) ==
    /\ futexes' = [futexes EXCEPT ![a] = Append(@, t)]
    /\ asleep' = asleep \cup {t}

Wait(t, a, val) ==
    \/ /\ word[a] # val
       /\ UNCHANGED <<futexes, asleep>>
    \/ /\ word[a] = val
       /\ futexes' = [futexes EXCEPT ![a] = Append(@, t)]
       /\ asleep' = asleep \cup {t}

\* FUTEX_WAIT with a timeout: the value is tested, the time is read, and the
\* call returns without having waited.
WaitTimed == UNCHANGED <<futexes, asleep>>

\* n calls of notify_one, which does nothing on an empty list.
Woken(a, n) == SubSeq(futexes[a], 1, IF n < Len(futexes[a]) THEN n ELSE Len(futexes[a]))

Rest(a, n) == SubSeq(futexes[a], n + 1, Len(futexes[a]))

\* FUTEX_WAKE of n threads.
Wake(a, n) ==
    /\ asleep' = asleep \ Range(Woken(a, n))
    /\ futexes' = [futexes EXCEPT ![a] = Rest(a, n)]

\* Variant of WakeAll: the one at the front only.
WakeFirst(a) ==
    /\ asleep' = asleep \ Range(Woken(a, 1))
    /\ futexes' = [futexes EXCEPT ![a] = Rest(a, 1)]

\* FUTEX_WAKE of INT_MAX threads: notify_all.
WakeAll(a) ==
    /\ asleep' = asleep \ Range(futexes[a])
    /\ futexes' = [futexes EXCEPT ![a] = <<>>]

\* Variant of Requeue: the list is dropped, not moved.
RequeueDrop(a, n, a2) ==
    /\ asleep' = asleep \ Range(Woken(a, n))
    /\ futexes' = [futexes EXCEPT ![a] = <<>>]

\* FUTEX_REQUEUE: n threads are woken, and the list of a replaces the one of a2.
Requeue(a, n, a2) ==
    /\ asleep' = asleep \ Range(Woken(a, n))
    /\ futexes' = [futexes EXCEPT ![a2] = Rest(a, n), ![a] = <<>>]

-----------------------------------------------------------------------------
(***************************************************************************)
(* The lock, as a C library writes it.                                     *)
(***************************************************************************)
Lock(t) ==
    /\ At(t, "out")
    /\ IF word[Mutex] = 0
       THEN word' = [word EXCEPT ![Mutex] = 1] /\ Go(t, "in")
       ELSE UNCHANGED word /\ Go(t, "contend")
    /\ UNCHANGED <<futexes, asleep, seen, joined>>

Contend(t) ==
    /\ At(t, "contend")
    /\ word' = [word EXCEPT ![Mutex] = 2]
    /\ Go(t, IF word[Mutex] = 0 THEN "in" ELSE "block")
    /\ UNCHANGED <<futexes, asleep, seen, joined>>

Block(t) ==
    /\ At(t, "block")
    /\ Wait(t, Mutex, 2)
    /\ Go(t, "contend")
    /\ UNCHANGED <<word, seen, joined>>

BlockTimed(t) ==
    /\ At(t, "block")
    /\ WaitTimed
    /\ Go(t, "contend")
    /\ UNCHANGED <<word, seen, joined>>

Unlock(t) ==
    /\ At(t, "in")
    /\ word' = [word EXCEPT ![Mutex] = 0]
    /\ Go(t, IF word[Mutex] = 2 THEN "wake" ELSE "out")
    /\ UNCHANGED <<futexes, asleep, seen, joined>>

WakeOne(t) ==
    /\ \/ At(t, "wake") /\ Go(t, "out")
       \/ At(t, "condWake") /\ Go(t, "cond")
    /\ Wake(Mutex, 1)
    /\ UNCHANGED <<word, seen, joined>>

(***************************************************************************)
(* The condition.                                                          *)
(***************************************************************************)
CondWait(t) ==
    /\ At(t, "in")
    /\ seen' = [seen EXCEPT ![t] = word[Cond]]
    /\ word' = [word EXCEPT ![Mutex] = 0]
    /\ Go(t, IF word[Mutex] = 2 THEN "condWake" ELSE "cond")
    /\ UNCHANGED <<futexes, asleep, joined>>

CondBlock(t) ==
    /\ At(t, "cond")
    /\ Wait(t, Cond, seen[t])
    /\ Go(t, "contend")
    /\ UNCHANGED <<word, seen, joined>>

Broadcast(t) ==
    /\ At(t, "out")
    /\ word[Cond] < MaxCast
    /\ word' = [word EXCEPT ![Cond] = @ + 1]
    /\ seen' = [seen EXCEPT ![t] = word[Cond] + 1]
    /\ Go(t, "cast")
    /\ UNCHANGED <<futexes, asleep, joined>>

\* FUTEX_CMP_REQUEUE; EAGAIN sends the caller to CastAll.  The caller knows
\* that nobody sleeps on the lock: the call would forget whoever does.
CastRequeue(t) ==
    /\ At(t, "cast")
    /\ futexes[Mutex] = <<>>
    /\ word[Cond] = seen[t]
    /\ Requeue(Cond, 1, Mutex)
    /\ Go(t, "out")
    /\ UNCHANGED <<word, seen, joined>>

CastAll(t) ==
    /\ At(t, "cast")
    /\ WakeAll(Cond)
    /\ Go(t, "out")
    /\ UNCHANGED <<word, seen, joined>>

(***************************************************************************)
(* Exit and join.                                                          *)
(***************************************************************************)
\* Variant of Exit: the wake-up is sent, the word is not cleared.
ExitUncleared(t) ==
    /\ At(t, "out")
    /\ Wake(t, 1)
    /\ Go(t, "done")
    /\ UNCHANGED <<word, seen, joined>>

Exit(t) ==
    /\ At(t, "out")
    /\ word' = [word EXCEPT ![t] = 0]
    /\ Wake(t, 1)
    /\ Go(t, "done")
    /\ UNCHANGED <<seen, joined>>

Join(u) ==
    /\ At(Main, "out")
    /\ u # Main
    /\ joined' = u
    /\ Go(Main, "join")
    /\ UNCHANGED <<word, futexes, asleep, seen>>

JoinRead ==
    /\ At(Main, "join")
    /\ IF word[joined] = 0
       THEN joined' = Main /\ Go(Main, "out")
       ELSE UNCHANGED joined /\ Go(Main, "joinWait")
    /\ UNCHANGED <<word, futexes, asleep, seen>>

JoinWait ==
    /\ At(Main, "joinWait")
    /\ Wait(Main, joined, 1)
    /\ Go(Main, "join")
    /\ UNCHANGED <<word, seen, joined>>

-----------------------------------------------------------------------------
Step(t) ==
    \/ Lock(t) \/ Contend(t) \/ Block(t) \/ BlockTimed(t) \/ Unlock(t) \/ WakeOne(t)
    \/ CondWait(t) \/ CondBlock(t) \/ Broadcast(t) \/ CastRequeue(t) \/ CastAll(t)
    \/ Exit(t)

Joining == (\E u \in Threads : Join(u)) \/ JoinRead \/ JoinWait

Next == (\E t \in Threads : Step(t)) \/ Joining

Spec == Init /\ [][Next]_vars

\* A runnable thread runs again (RunnableRuns of module Sched), so Main goes
\* on with a join it has begun.
FairSpec == Spec /\ WF_vars(JoinRead) /\ WF_vars(JoinWait)

-----------------------------------------------------------------------------
\* The state is well formed, and no waiting list holds a thread twice.
TypeOK ==
    /\ word \in [Addrs -> 0..(MaxCast + 2)]
    /\ futexes \in [Addrs -> Seq(Threads)]
    /\ \A a \in Addrs : IsInjective(futexes[a])
    /\ asleep \subseteq Threads
    /\ pc \in [Threads -> {"out", "in", "contend", "block", "wake", "condWake", "cond",
                           "cast", "join", "joinWait", "done"}]
    /\ seen \in [Threads -> 0..MaxCast]
    /\ joined \in Threads

\* A thread sleeps in FUTEX_WAIT exactly while it is on the waiting list of
\* one address, whatever wake-ups and requeues happened since it went there.
WaitersListed ==
    /\ asleep = UNION {Range(futexes[a]) : a \in Addrs}
    /\ \A a, b \in Addrs : a # b => Range(futexes[a]) \cap Range(futexes[b]) = {}

\* No wake-up of the lock is lost between the test of the word and the sleep,
\* or in a requeue: while a thread sleeps on the lock, the holder is going to
\* wake it, or some runnable thread is about to wake it or to take the lock.
LockNotMissed ==
    futexes[Mutex] # <<>> =>
        \/ \E t \in Threads : At(t, "contend") \/ At(t, "wake") \/ At(t, "condWake")
        \/ word[Mutex] = 2 /\ \E t \in Threads : At(t, "in")

\* No broadcast is lost: a thread that sleeps on the condition has seen every
\* broadcast so far, or the one it has not seen is about to wake it.
CondNotMissed ==
    \A t \in Range(futexes[Cond]) :
        seen[t] # word[Cond] => \E b \in Threads : At(b, "cast")

\* Join returns once the thread has ended: the word Task::exit clears and the
\* wake-up it sends reach a joiner at any point of its read and wait.
JoinReturns ==
    \A u \in Threads \ {Main} : (joined = u /\ pc[u] = "done") ~> (joined # u)
=============================================================================
