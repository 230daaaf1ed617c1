------------------------------- MODULE Signal --------------------------------
(***************************************************************************)
(* Signals of one process with several threads (kernel/ipc.cc and          *)
(* kernel/syscall/signal.cc): sending, masks, actions, the frames that     *)
(* sigHandler builds on the user stack and sigReturn takes down again.     *)
(*                                                                         *)
(* ctx[t].at says whose code the saved user context belongs to: 0 is the   *)
(* thread's main code, n the handler of the n-th frame, -1 a context read  *)
(* from the wrong place.  The model stops where the process exits; what    *)
(* Process::exit does is in module Process.                                *)
(***************************************************************************)
EXTENDS Integers, Sequences

CONSTANTS
    Threads,
    Sigs,       \* the signals in use, by number
    Acts,       \* the actions programs install: records of SigAct
    Masks,      \* the sets programs pass to sigprocmask
    MaxSends    \* bound: signals sent altogether

SIGKILL == 9
SIGSTOP == 19

SigAct == [sa_handler : {"SIG_DFL", "SIG_IGN", "SIG_ERR", "user"},
           siginfo : BOOLEAN, resethand : BOOLEAN, sa_mask : SUBSET Sigs]

ASSUME SigsAssumption == Sigs \subseteq 1 .. 64
ASSUME ActsAssumption == Acts \subseteq SigAct
ASSUME MasksAssumption == Masks \subseteq SUBSET Sigs
ASSUME SendsAssumption == MaxSends \in Nat

VARIABLES
    sigacts,    \* Process::sigacts
    sigmask, sigpending, hasInfo,  \* the fields of each thread
    ctx,        \* the saved user context: at, and register a0
    frames,     \* the signal frames on each thread's user stack
    trapped,    \* threads in the kernel, before the end of straphandler
    exited,     \* sigExitHandler was called
    sends,
    \* What the main code of each thread last asked for and was told.
    mainMask, mainResult

vars == <<sigacts, sigmask, sigpending, hasInfo, ctx, frames, trapped, exited,
          sends, mainMask, mainResult>>

\* A SigAct filled with zeros, as defaultSigAct.
defaultSigAct ==
    [sa_handler |-> "SIG_DFL", siginfo |-> FALSE, resethand |-> FALSE, sa_mask |-> {}]

Init ==
    /\ sigacts = [s \in Sigs |-> defaultSigAct]
    /\ sigmask = [t \in Threads |-> {}]
    /\ sigpending = [t \in Threads |-> {}]
    /\ hasInfo = [t \in Threads |-> FALSE]
    /\ ctx = [t \in Threads |-> [at |-> 0, a0 |-> 0]]
    /\ frames = [t \in Threads |-> <<>>]
    /\ trapped = {}
    /\ exited = FALSE
    /\ sends = 0
    /\ mainMask = [t \in Threads |-> {}]
    /\ mainResult = [t \in Threads |-> 0]

InUser(t) == ~exited /\ t \notin trapped /\ ctx[t].at >= 0

-----------------------------------------------------------------------------
\* uecallHandler: a system call of t ends with result r in a0.
Ecall(t, r) ==
    /\ trapped' = trapped \cup {t}
    /\ ctx' = [ctx EXCEPT ![t].a0 = r]
    /\ mainResult' = IF ctx[t].at = 0 THEN [mainResult EXCEPT ![t] = r] ELSE mainResult

\* A call that has nothing to do with signals and returns 1.
OtherCall(t) ==
    /\ InUser(t)
    /\ Ecall(t, 1)
    /\ UNCHANGED <<sigacts, sigmask, sigpending, hasInfo, frames, exited, sends, mainMask>>

\* The timer, or a page fault.
Interrupt(t) ==
    /\ InUser(t)
    /\ trapped' = trapped \cup {t}
    /\ UNCHANGED <<sigacts, sigmask, sigpending, hasInfo, ctx, frames, exited, sends,
                   mainMask, mainResult>>

\* rt_sigaction.
sigAction(t, s, act) ==
    /\ InUser(t)
    /\ s \notin {SIGKILL, SIGSTOP}
    /\ sigacts' = [sigacts EXCEPT ![s] = act]
    /\ Ecall(t, 0)
    /\ UNCHANGED <<sigmask, sigpending, hasInfo, frames, exited, sends, mainMask>>

\* Variant of NewMask: SIGKILL and SIGSTOP may be blocked.
NewMaskRaw(how, old, set) ==
    CASE how = "SIG_BLOCK"   -> old \cup set
      [] how = "SIG_UNBLOCK" -> old \ set
      [] how = "SIG_SETMASK" -> set

\* rt_sigprocmask, which the programs call from their main code.
NewMask(how, old, set) ==
    (CASE how = "SIG_BLOCK"   -> old \cup set
       [] how = "SIG_UNBLOCK" -> old \ set
       [] how = "SIG_SETMASK" -> set) \ {SIGKILL, SIGSTOP}

sigProcMask(t, how, set) ==
    /\ InUser(t) /\ ctx[t].at = 0
    /\ sigmask' = [sigmask EXCEPT ![t] = NewMask(how, @, set)]
    /\ mainMask' = [mainMask EXCEPT ![t] = NewMask(how, @, set)]
    /\ Ecall(t, 0)
    /\ UNCHANGED <<sigacts, sigpending, hasInfo, frames, exited, sends>>

\* kill() by some process: sigSend gives the signal to the first task, in
\* the order of an unordered set, that does not mask it, if there is one.
SendTo(s) ==
    {[sigpending EXCEPT ![t] = @ \cup {s}] : t \in {u \in Threads : s \notin sigmask[u]}}

kill(s) ==
    /\ ~exited /\ sends < MaxSends
    /\ sigpending' \in IF SendTo(s) = {} THEN {sigpending} ELSE SendTo(s)
    /\ sends' = sends + 1
    /\ UNCHANGED <<sigacts, sigmask, hasInfo, ctx, frames, trapped, exited, mainMask,
                   mainResult>>

\* tkill(): the task has the signal pending even if it masks it.
tkill(t, s) ==
    /\ ~exited /\ sends < MaxSends
    /\ sigpending' = [sigpending EXCEPT ![t] = @ \cup {s}]
    /\ sends' = sends + 1
    /\ UNCHANGED <<sigacts, sigmask, hasInfo, ctx, frames, trapped, exited, mainMask,
                   mainResult>>

-----------------------------------------------------------------------------
(***************************************************************************)
(* sigHandler, at the end of straphandler.                                 *)
(***************************************************************************)
Deliverable(t) == sigpending[t] \ sigmask[t]

Lowest(S) == CHOOSE s \in S : \A r \in S : s <= r

\* The default actions that end the process: terminate and dump core.
\* The others ignore, or stop and continue, which is not implemented.
DefaultExits(s) == s \notin {17, 23, 30} \cup {SIGSTOP, 20, 21, 22} \cup {18}

Exits(s) ==
    \/ s = SIGKILL
    \/ s # SIGSTOP /\ sigacts[s].sa_handler = "SIG_ERR"
    \/ s # SIGSTOP /\ sigacts[s].sa_handler = "SIG_DFL" /\ DefaultExits(s)

Catches(s) == s \notin {SIGKILL, SIGSTOP} /\ sigacts[s].sa_handler = "user"

BackToUser(t) == trapped' = trapped \ {t}

NothingPending(t) ==
    /\ ~exited /\ t \in trapped
    /\ Deliverable(t) = {}
    /\ BackToUser(t)
    /\ UNCHANGED <<sigacts, sigmask, sigpending, hasInfo, ctx, frames, exited, sends,
                   mainMask, mainResult>>

\* Variant of Taking: the pending bit is not cleared.
TakingKeep(t, s) ==
    /\ ~exited /\ t \in trapped
    /\ Deliverable(t) # {} /\ s = Lowest(Deliverable(t))
    /\ UNCHANGED sigpending
    /\ BackToUser(t)
    /\ UNCHANGED <<sends, mainMask, mainResult>>

Taking(t, s) ==
    /\ ~exited /\ t \in trapped
    /\ Deliverable(t) # {} /\ s = Lowest(Deliverable(t))
    /\ sigpending' = [sigpending EXCEPT ![t] = @ \ {s}]
    /\ BackToUser(t)
    /\ UNCHANGED <<sends, mainMask, mainResult>>

ExitBy(t, s) ==
    /\ Taking(t, s) /\ Exits(s)
    /\ exited' = TRUE
    /\ UNCHANGED <<sigacts, sigmask, hasInfo, ctx, frames>>

IgnoreIt(t, s) ==
    /\ Taking(t, s) /\ ~Exits(s) /\ ~Catches(s)
    /\ UNCHANGED <<sigacts, sigmask, hasInfo, ctx, frames, exited>>

\* Variant of EnterHandler: hasInfo keeps its old value.
EnterHandlerOldInfo(t, s) ==
    LET sa == sigacts[s]
    IN  /\ Taking(t, s) /\ Catches(s)
        /\ frames' = [frames EXCEPT ![t] = Append(@, [info |-> sa.siginfo, uctx |-> ctx[t],
                                                      mask |-> sigmask[t], held |-> sa.sa_mask])]
        /\ sigmask' = [sigmask EXCEPT ![t] = @ \cup sa.sa_mask]
        /\ ctx' = [ctx EXCEPT ![t] = [at |-> Len(frames[t]) + 1, a0 |-> s]]
        /\ sigacts' = IF sa.resethand THEN [sigacts EXCEPT ![s] = defaultSigAct] ELSE sigacts
        /\ UNCHANGED <<hasInfo, exited>>

\* The frame holds the siginfo, if the action asks for it, and the context
\* and mask to come back to.  The signal itself is not added to the mask.
EnterHandler(t, s) ==
    LET sa == sigacts[s]
    IN  /\ Taking(t, s) /\ Catches(s)
        /\ hasInfo' = [hasInfo EXCEPT ![t] = sa.siginfo]
        /\ frames' = [frames EXCEPT ![t] = Append(@, [info |-> sa.siginfo, uctx |-> ctx[t],
                                                      mask |-> sigmask[t], held |-> sa.sa_mask])]
        /\ sigmask' = [sigmask EXCEPT ![t] = @ \cup sa.sa_mask]
        /\ ctx' = [ctx EXCEPT ![t] = [at |-> Len(frames[t]) + 1, a0 |-> s]]
        /\ sigacts' = IF sa.resethand THEN [sigacts EXCEPT ![s] = defaultSigAct] ELSE sigacts
        /\ UNCHANGED exited

(***************************************************************************)
(* The handler returns to sa_restorer, which calls sigreturn.  sigReturn   *)
(* steps over a siginfo if hasInfo says so; uecallHandler then stores its  *)
(* result 0 in a0.                                                         *)
(***************************************************************************)
sigReturn(t) ==
    LET f == frames[t][Len(frames[t])]
    IN  /\ InUser(t) /\ ctx[t].at > 0
        /\ frames' = [frames EXCEPT ![t] = SubSeq(@, 1, Len(@) - 1)]
        /\ \/ /\ hasInfo[t] = f.info
              /\ sigmask' = [sigmask EXCEPT ![t] = f.mask]
              /\ ctx' = [ctx EXCEPT ![t] = [f.uctx EXCEPT !.a0 = 0]]
           \/ /\ hasInfo[t] # f.info
              /\ \E m \in SUBSET Sigs : sigmask' = [sigmask EXCEPT ![t] = m]
              /\ ctx' = [ctx EXCEPT ![t] = [at |-> -1, a0 |-> 0]]
        /\ trapped' = trapped \cup {t}
        /\ UNCHANGED <<sigacts, sigpending, hasInfo, exited, sends, mainMask, mainResult>>

Handle(t) == NothingPending(t) \/ \E s \in Sigs : ExitBy(t, s) \/ IgnoreIt(t, s) \/ EnterHandler(t, s)

Next ==
    \/ \E t \in Threads : OtherCall(t) \/ Interrupt(t) \/ sigReturn(t)
    \/ \E t \in Threads, s \in Sigs, act \in Acts : sigAction(t, s, act)
    \/ \E t \in Threads, set \in Masks, how \in {"SIG_BLOCK", "SIG_UNBLOCK", "SIG_SETMASK"} :
          sigProcMask(t, how, set)
    \/ \E s \in Sigs : kill(s)
    \/ \E t \in Threads, s \in Sigs : tkill(t, s)
    \/ \E t \in Threads : Handle(t)

Spec == Init /\ [][Next]_vars

\* Timer interrupts come again and again, and a trap is handled to its end.
FairSpec == Spec /\ \A t \in Threads : WF_vars(Interrupt(t)) /\ WF_vars(Handle(t))

-----------------------------------------------------------------------------
Context == [at : Int, a0 : Int]

\* The types; masks and pending sets hold signals of the system only.
TypeOK ==
    /\ sigacts \in [Sigs -> SigAct]
    /\ sigmask \in [Threads -> SUBSET Sigs]
    /\ sigpending \in [Threads -> SUBSET Sigs]
    /\ hasInfo \in [Threads -> BOOLEAN]
    /\ ctx \in [Threads -> Context]
    /\ frames \in [Threads -> Seq([info : BOOLEAN, uctx : Context, mask : SUBSET Sigs,
                                   held : SUBSET Sigs])]
    /\ trapped \subseteq Threads
    /\ exited \in BOOLEAN
    /\ sends \in 0 .. MaxSends

(***************************************************************************)
(* docs/信号处理.md: sigReturn writes the saved user context back to ctx   *)
(* and completes the handling of the signal.  A thread always runs the     *)
(* innermost handler that has not returned, and returns from one handler   *)
(* to the code it interrupted, however handlers nest.  Every signal that   *)
(* is in the sa_mask of a handler that has not returned is blocked, and    *)
(* when the last one has returned the mask is the one main code had set.   *)
(***************************************************************************)
NestingExact ==
    \A t \in Threads :
        /\ ctx[t].at = Len(frames[t])
        /\ \A i \in 1 .. Len(frames[t]) :
             frames[t][i].uctx.at = i - 1 /\ frames[t][i].held \subseteq sigmask[t]
        /\ frames[t] = <<>> => sigmask[t] = mainMask[t]

(***************************************************************************)
(* docs/信号处理.md, as above, for the register that holds the result of a *)
(* system call: main code finds in a0 what its last call returned.         *)
(***************************************************************************)
ResultKept ==
    \A t \in Threads : ctx[t].at = 0 => ctx[t].a0 = mainResult[t]

(***************************************************************************)
(* docs/信号处理.md: what SIGKILL does is fixed, it ends the process.  A   *)
(* SIGKILL sent to the process is pending somewhere, and not blocked,      *)
(* whatever handlers and masks are in force.                               *)
(***************************************************************************)
KillReaches ==
    [][kill(SIGKILL) => \E t \in Threads : SIGKILL \in sigpending'[t] \ sigmask[t]]_vars

(***************************************************************************)
(* A pending signal is acted upon unless it is or becomes blocked, or the  *)
(* process exits.                                                          *)
(***************************************************************************)
PendingHandled ==
    \A t \in Threads : \A s \in Sigs :
        (s \in Deliverable(t)) ~> (s \notin Deliverable(t) \/ exited)
=============================================================================
