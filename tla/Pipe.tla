-------------------------------- MODULE Pipe ---------------------------------
(***************************************************************************)
(* A pipe (pipe::Pipe, include/ipc.hh) used by several tasks: the ring     *)
(* buffer, the condition variables canr and canw (kernel/lock.cc), the two *)
(* File objects pipe2() makes, and what closes them.                       *)
(*                                                                         *)
(* The kernel switches tasks only where a task sleeps, so one step takes a *)
(* read or write from its start, or from the return of condition_variable  *)
(* ::wait, to its return or to the next wait.  Which runnable task is next *)
(* is left open (module Sched shows that any of them gets its turn).       *)
(*                                                                         *)
(* Byte number n that was ever stored is represented by n.                 *)
(***************************************************************************)
EXTENDS Integers, Sequences, Functions

CONSTANTS
    Readers, Writers,  \* the tasks that share the read and the write end
    bufSize,           \* Pipe::bufSize, 64 in the code
    Lens,              \* the lengths of the calls made
    MaxBytes,          \* bound: bytes written altogether
    MaxChildren,       \* bound: exits of children of the tasks' processes
    ParentsShare       \* TRUE: a task that shares its end may have children

ASSUME bufSizeAssumption == bufSize \in Nat \ {0}
ASSUME LensAssumption == Lens \subseteq Nat
ASSUME EndsAssumption == Readers \cap Writers = {}
ASSUME ParentsShareAssumption == ParentsShare \in BOOLEAN

Users == Readers \cup Writers

VARIABLES
    buf, head, tail,    \* the ring: positions count up, slots are modulo bufSize
    canr, canw,         \* the waiting lists of the condition variables
    fd,                 \* tasks whose process still has the descriptor
    exited,             \* tasks whose process has exited
    asleep,             \* tasks in state Pending
    call,               \* the call each task is in: its kind, length and progress
    rcvd,               \* every byte delivered to a reader, in order
    childExits          \* how many children have exited so far

vars == <<buf, head, tail, canr, canw, fd, exited, asleep, call, rcvd, childExits>>

NoCall == [op |-> "none", len |-> 0, off |-> 0]

InCall(t) == call[t].op # "none"

(***************************************************************************)
(* pipe2() makes one File per end; clone() and dup() share it.  A call     *)
(* holds a reference too, so an end is open while a descriptor or a call   *)
(* uses it, and rcnt and wcnt are 1 or 0.                                  *)
(***************************************************************************)
EndOpen(S, f, c) == \E t \in S : t \in f \/ c[t].op # "none"

rcnt == IF EndOpen(Readers, fd, call) THEN 1 ELSE 0
wcnt == IF EndOpen(Writers, fd, call) THEN 1 ELSE 0

full == tail = head + bufSize
empty == head = tail

MinOf(a, b) == IF a <= b THEN a ELSE b

Init ==
    /\ buf = [i \in 0 .. bufSize - 1 |-> 0]
    /\ head = 0 /\ tail = 0
    /\ canr = <<>> /\ canw = <<>>
    /\ fd = Users
    /\ exited = {}
    /\ asleep = {}
    /\ call = [t \in Users |-> NoCall]
    /\ rcvd = <<>>
    /\ childExits = 0

-----------------------------------------------------------------------------
(***************************************************************************)
(* The condition variables: w = [r, w, a] holds canr, canw and asleep.     *)
(* notify_one takes the front entry off and wakes that task, which does    *)
(* nothing if the task is not asleep.                                      *)
(***************************************************************************)
Waits == [r |-> canr, w |-> canw, a |-> asleep]

NotifyR(w) ==
    IF w.r = <<>> THEN w ELSE [w EXCEPT !.r = Tail(@), !.a = @ \ {Head(w.r)}]

NotifyW(w) ==
    IF w.w = <<>> THEN w ELSE [w EXCEPT !.w = Tail(@), !.a = @ \ {Head(w.w)}]

SetWaits(w) == canr' = w.r /\ canw' = w.w /\ asleep' = w.a

\* Variant: closing an end wakes nobody.
ReleaseQuietly(w, t, f, c) == w

(***************************************************************************)
(* Task t has given up a reference to its end.  With the last one the File *)
(* is destroyed: decReader or decWriter wakes all who wait at the other    *)
(* end.                                                                    *)
(***************************************************************************)
Release(w, t, f, c) ==
    LET gone(S) == t \in S /\ ~EndOpen(S, f, c)
    IN  IF gone(Writers) THEN [w EXCEPT !.r = <<>>, !.a = @ \ Range(w.r)]
        ELSE IF gone(Readers) THEN [w EXCEPT !.w = <<>>, !.a = @ \ Range(w.w)]
        ELSE w

\* Variant: only writers are woken.
tryWakeupWriters(w, h, l) == IF l # h + bufSize THEN NotifyW(w) ELSE w

\* tryWakeup with the ring at h and l.
tryWakeup(w, h, l) ==
    LET w1 == IF h # l THEN NotifyR(w) ELSE w
    IN  IF l # h + bufSize THEN NotifyW(w1) ELSE w1

\* Variant: the number of bytes there are, or there is room for, is ignored.
ChunkWanted(pos, n, m) == MinOf(bufSize - (pos % bufSize), m)

(***************************************************************************)
(* The loops of read and write copy up to the end of the ring, then from   *)
(* its start: two memmoves from position pos, of n bytes available and m   *)
(* wanted.  A third would find nothing left to copy.                       *)
(***************************************************************************)
Chunk(pos, n, m) == MinOf(MinOf(n, bufSize - (pos % bufSize)), m)

Copied(pos, n, m) ==
    LET c == Chunk(pos, n, m)
    IN  c + Chunk(pos + c, n - c, m - c)

\* The ring with the next k bytes stored from position pos on.
Stored(b, pos, k) ==
    [i \in DOMAIN b |->
        IF \E n \in pos .. pos + k - 1 : n % bufSize = i
        THEN CHOOSE n \in pos .. pos + k - 1 : n % bufSize = i
        ELSE b[i]]

\* The k bytes from position pos on.
Bytes(b, pos, k) == [i \in 1 .. k |-> b[(pos + i - 1) % bufSize]]

\* Pipe::write, from the loop's head.
WriteLoop(t, c) ==
    LET k    == Copied(tail, head + bufSize - tail, c.len - c.off)
        off  == c.off + k
        done == off = c.len \/ rcnt = 0
    IN  /\ tail' = tail + k
        /\ buf' = Stored(buf, tail, k)
        /\ IF done
           THEN /\ call' = [call EXCEPT ![t] = NoCall]
                /\ SetWaits(Release(tryWakeup(Waits, head, tail'), t, fd, call'))
           ELSE /\ SetWaits([NotifyR(Waits) EXCEPT !.w = Append(@, t), !.a = @ \cup {t}])
                /\ call' = [call EXCEPT ![t] = [c EXCEPT !.off = off]]
        /\ UNCHANGED <<head, rcvd>>

\* Pipe::read, from the loop's head.
ReadLoop(t, c) ==
    LET k    == Copied(head, tail - head, c.len - c.off)
        off  == c.off + k
        done == off = c.len \/ off > 0 \/ wcnt = 0
    IN  /\ head' = head + k
        /\ rcvd' = rcvd \o Bytes(buf, head, k)
        /\ IF done
           THEN /\ call' = [call EXCEPT ![t] = NoCall]
                /\ SetWaits(Release(tryWakeup(Waits, head', tail), t, fd, call'))
           ELSE /\ SetWaits([NotifyW(Waits) EXCEPT !.r = Append(@, t), !.a = @ \cup {t}])
                /\ call' = [call EXCEPT ![t] = [c EXCEPT !.off = off]]
        /\ UNCHANGED <<buf, tail>>

CanCall(t) == t \in fd /\ t \notin exited /\ ~InCall(t)

\* Bytes stored, or still to be stored by the calls under way.
Promised == tail + SumFunctionOnSet([t \in Writers |-> call[t].len - call[t].off], Writers)

Write(t, n) ==
    /\ CanCall(t)
    /\ Promised + n <= MaxBytes
    /\ WriteLoop(t, [op |-> "write", len |-> n, off |-> 0])
    /\ UNCHANGED <<fd, exited, childExits>>

Read(t, n) ==
    /\ CanCall(t)
    /\ ReadLoop(t, [op |-> "read", len |-> n, off |-> 0])
    /\ UNCHANGED <<fd, exited, childExits>>

\* condition_variable::wait returns in a task that was woken.
WriteResume(t) ==
    /\ call[t].op = "write" /\ t \notin asleep
    /\ WriteLoop(t, call[t])
    /\ UNCHANGED <<fd, exited, childExits>>

ReadResume(t) ==
    /\ call[t].op = "read" /\ t \notin asleep
    /\ ReadLoop(t, call[t])
    /\ UNCHANGED <<fd, exited, childExits>>

DropFd(t) ==
    /\ fd' = fd \ {t}
    /\ SetWaits(Release(Waits, t, fd', call))

\* close(), by t or by another thread of its process while t is in a call.
Close(t) ==
    /\ t \in fd \ exited
    /\ DropFd(t)
    /\ UNCHANGED <<buf, head, tail, exited, call, rcvd, childExits>>

\* exit_group(): the descriptors stay in the zombie process.
ExitProc(t) ==
    /\ CanCall(t)
    /\ exited' = exited \cup {t}
    /\ UNCHANGED <<buf, head, tail, canr, canw, fd, asleep, call, rcvd, childExits>>

\* waitpid() of the parent deletes the process and with it the descriptors.
Reap(t) ==
    /\ t \in exited /\ t \in fd
    /\ DropFd(t)
    /\ UNCHANGED <<buf, head, tail, exited, call, rcvd, childExits>>

\* No other task can use the end of the pipe that t uses.
Alone(t) ==
    LET end == IF t \in Readers THEN Readers ELSE Writers
    IN  ~EndOpen(end \ {t}, fd, call)

(***************************************************************************)
(* A child of t's process exits: Process::exit wakes the default task of   *)
(* the parent, whatever it sleeps on, and the waiting list keeps its entry.*)
(***************************************************************************)
ChildExit(t) ==
    /\ childExits < MaxChildren
    /\ t \in asleep
    /\ ParentsShare \/ Alone(t)
    /\ asleep' = asleep \ {t}
    /\ childExits' = childExits + 1
    /\ UNCHANGED <<buf, head, tail, canr, canw, fd, exited, call, rcvd>>

Next ==
    \/ \E t \in Writers, n \in Lens : Write(t, n)
    \/ \E t \in Readers, n \in Lens : Read(t, n)
    \/ \E t \in Writers : WriteResume(t)
    \/ \E t \in Readers : ReadResume(t)
    \/ \E t \in Users : Close(t) \/ ExitProc(t) \/ Reap(t) \/ ChildExit(t)

Spec == Init /\ [][Next]_vars

\* A task that was woken gets the hart (Sched's RunnableRuns).
FairSpec ==
    /\ Spec
    /\ \A t \in Writers : WF_vars(WriteResume(t))
    /\ \A t \in Readers : WF_vars(ReadResume(t))

-----------------------------------------------------------------------------
\* The types; head and tail stay within what was ever written.
TypeOK ==
    /\ buf \in [0 .. bufSize - 1 -> 0 .. MaxBytes]
    /\ head \in 0 .. MaxBytes /\ tail \in 0 .. MaxBytes
    /\ canr \in Seq(Readers) /\ canw \in Seq(Writers)
    /\ fd \subseteq Users /\ exited \subseteq Users /\ asleep \subseteq Users
    /\ call \in [Users -> [op : {"none", "read", "write"}, len : Nat, off : Nat]]
    /\ childExits \in 0 .. MaxChildren

(***************************************************************************)
(* The ring buffer neither loses, repeats nor reorders bytes, whoever      *)
(* reads and writes and wherever the ring wraps: the bytes delivered are   *)
(* the first ones stored, in order, and the stored ones fit.               *)
(***************************************************************************)
InOrder ==
    /\ head <= tail /\ tail <= head + bufSize
    /\ rcvd = [i \in 1 .. head |-> i - 1]
    /\ \A n \in head .. tail - 1 : buf[n % bufSize] = n

Sleeping(t, op) == t \in asleep /\ call[t].op = op
Woken == \E t \in Users \ asleep : InCall(t)

(***************************************************************************)
(* read() blocks only until there is data, write() until there is room: no *)
(* reader sleeps while bytes are in the pipe, and no writer while there is *)
(* room, unless a call is about to run that will notify on its way out.    *)
(***************************************************************************)
NoLostWakeup ==
    /\ ~empty /\ (\E t \in Readers : Sleeping(t, "read")) => Woken
    /\ ~full /\ (\E t \in Writers : Sleeping(t, "write")) => Woken

(***************************************************************************)
(* Once every descriptor of an end is gone, closed or reaped with its      *)
(* process, the calls that block at the other end return.                  *)
(***************************************************************************)
EofReturns ==
    (wcnt = 0 \/ rcnt = 0) ~>
        /\ wcnt = 0 => \A t \in Readers : ~InCall(t)
        /\ rcnt = 0 => \A t \in Writers : ~InCall(t)
=============================================================================
