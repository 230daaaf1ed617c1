---------------------------- MODULE SignalProofs ----------------------------
(***************************************************************************)
(* Nested signal handlers for any number of threads, signals and frames.   *)
(*                                                                         *)
(* NestingExact and KillReaches do not hold for every program (the field   *)
(* hasInfo is one for all frames of a task, and sa_mask may hold SIGKILL), *)
(* so the theorems are about the programs whose handlers all agree on      *)
(* siginfo, and whose sa_mask leaves SIGKILL out.                          *)
(***************************************************************************)
EXTENDS Signal, SequenceTheorems, TLAPS

\* What the theorems ask of the programs.
OneLayout == \A a, b \in Acts : a.siginfo = b.siginfo
KillUnmasked == \A a \in Acts : SIGKILL \notin a.sa_mask

Frame == [info : BOOLEAN, uctx : Context, mask : SUBSET Sigs, held : SUBSET Sigs]

\* The stack q of the k signal frames of a thread whose mask is m, over main
\* code whose mask is mm: every frame leads to the one below, and the mask it
\* brings back still blocks what the handlers below have asked for.
Stack(q, k, m, mm) ==
    /\ \A i \in 1 .. k : q[i].uctx.at = i - 1 /\ q[i].held \subseteq m
    /\ \A i, j \in 1 .. k : i < j => q[i].held \subseteq q[j].mask
    /\ k = 0 => m = mm
    /\ k > 0 => q[1].mask = mm

\* The layout of the frames is the one of all handlers, and hasInfo says so.
Layouts(q, info) ==
    \A i \in 1 .. Len(q) : q[i].info = info /\ \E a \in Acts : a.siginfo = info

IInv ==
    /\ TypeOK
    /\ mainMask \in [Threads -> SUBSET Sigs]
    /\ \A s \in Sigs : sigacts[s] \in Acts \cup {defaultSigAct}
    /\ \A t \in Threads : ctx[t].at = Len(frames[t])
    /\ \A t \in Threads : Stack(frames[t], Len(frames[t]), sigmask[t], mainMask[t])
    /\ \A t \in Threads : Layouts(frames[t], hasInfo[t])

\* SIGKILL is never blocked, now or in a mask that comes back.
MaskInv ==
    \A t \in Threads :
        /\ SIGKILL \notin sigmask[t]
        /\ \A i \in 1 .. Len(frames[t]) : SIGKILL \notin frames[t][i].mask

-----------------------------------------------------------------------------
(***************************************************************************)
(* The stack of frames.                                                    *)
(***************************************************************************)
\* sigHandler pushes a frame.
LEMMA Push ==
    ASSUME NEW k \in Nat, NEW q, NEW m, NEW mm, Stack(q, k, m, mm),
           NEW f, f.uctx.at = k, f.mask = m,
           NEW r, r[k + 1] = f, \A i \in 1 .. k : r[i] = q[i]
    PROVE  Stack(r, k + 1, m \cup f.held, mm)
<1>1. ASSUME NEW i \in 1 .. k + 1
      PROVE  r[i].uctx.at = i - 1 /\ r[i].held \subseteq m \cup f.held
  <2>1. CASE i = k + 1
    BY <2>1
  <2>2. CASE i \in 1 .. k
    BY <2>2 DEF Stack
  <2> QED
    BY <2>1, <2>2
<1>2. ASSUME NEW i \in 1 .. k + 1, NEW j \in 1 .. k + 1, i < j
      PROVE  r[i].held \subseteq r[j].mask
  <2>1. i \in 1 .. k /\ r[i] = q[i]
    BY <1>2
  <2>2. CASE j = k + 1
    BY <2>1, <2>2 DEF Stack
  <2>3. CASE j \in 1 .. k
    BY <1>2, <2>1, <2>3 DEF Stack
  <2> QED
    BY <2>2, <2>3
<1>3. r[1].mask = mm
  <2>1. CASE k = 0
    BY <2>1 DEF Stack
  <2>2. CASE k > 0
    <3>1. 1 \in 1 .. k
      BY <2>2
    <3> QED
      BY <2>2, <3>1 DEF Stack
  <2> QED
    BY <2>1, <2>2
<1> QED
  BY <1>1, <1>2, <1>3 DEF Stack

\* sigReturn takes the last one down.
LEMMA Pop ==
    ASSUME NEW k \in Nat, NEW q, NEW m, NEW mm, Stack(q, k + 1, m, mm),
           NEW r, \A i \in 1 .. k : r[i] = q[i]
    PROVE  q[k + 1].uctx.at = k /\ Stack(r, k, q[k + 1].mask, mm)
<1>1. /\ \A i \in 1 .. k + 1 : q[i].uctx.at = i - 1
      /\ \A i, j \in 1 .. k + 1 : i < j => q[i].held \subseteq q[j].mask
      /\ q[1].mask = mm
  BY DEF Stack
<1>2. ASSUME NEW i \in 1 .. k
      PROVE  r[i].uctx.at = i - 1 /\ r[i].held \subseteq q[k + 1].mask
  BY <1>1
<1>3. ASSUME NEW i \in 1 .. k, NEW j \in 1 .. k, i < j
      PROVE  r[i].held \subseteq r[j].mask
  BY <1>1, <1>3
<1>4. /\ k = 0 => q[k + 1].mask = mm
      /\ k > 0 => r[1].mask = mm
  BY <1>1
<1>5. q[k + 1].uctx.at = k
  BY <1>1
<1> QED
  BY <1>2, <1>3, <1>4, <1>5 DEF Stack

\* A list without its last element.
LEMMA Shorter ==
    ASSUME NEW S, NEW q \in Seq(S), NEW k \in Nat, Len(q) = k + 1
    PROVE  \E r \in Seq(S) : /\ r = SubSeq(q, 1, Len(q) - 1) /\ Len(r) = k
                             /\ \A i \in 1 .. k : r[i] = q[i]
<1>1. PICK l \in Int : l = 1
  OBVIOUS
<1>2. k \in Int /\ \A i \in l .. k : q[i] \in S
  BY <1>1, ElementOfSeq
<1>3. /\ SubSeq(q, l, k) \in Seq(S)
      /\ Len(SubSeq(q, l, k)) = IF l <= k THEN k - l + 1 ELSE 0
      /\ \A i \in 1 .. k - l + 1 : SubSeq(q, l, k)[i] = q[l + i - 1]
  BY <1>2, SubSeqProperties
<1>4. PICK r \in Seq(S) : /\ r = SubSeq(q, l, k) /\ Len(r) = IF l <= k THEN k - l + 1 ELSE 0
                          /\ \A i \in 1 .. k - l + 1 : r[i] = q[l + i - 1]
  BY <1>3, Zenon
<1>5. Len(r) = k /\ \A i \in 1 .. k : r[i] = q[i]
  <2>1. Len(r) = IF l <= k THEN k - l + 1 ELSE 0
    BY <1>4
  <2>2. \A i \in 1 .. k - l + 1 : r[i] = q[l + i - 1]
    BY <1>4
  <2> QED
    BY <1>1, <2>1, <2>2
<1>6. SubSeq(q, l, k) = SubSeq(q, 1, Len(q) - 1)
  <2>1. l = 1 /\ k = Len(q) - 1
    BY <1>1
  <2> QED
    BY <2>1
<1> QED
  BY <1>4, <1>5, <1>6, Zenon

-----------------------------------------------------------------------------
(***************************************************************************)
(* The steps.                                                              *)
(***************************************************************************)
\* Calls and interrupts that leave masks and frames alone keep the stacks: of
\* the context they change no more than a0.
LEMMA QuietSound ==
    ASSUME IInv, UNCHANGED <<sigacts, sigmask, hasInfo, frames, mainMask>>,
           UNCHANGED ctx \/ \E t \in Threads, r \in Int : ctx' = [ctx EXCEPT ![t].a0 = r],
           sigpending' \in [Threads -> SUBSET Sigs], trapped' \subseteq Threads,
           exited' \in BOOLEAN, sends' \in 0 .. MaxSends
    PROVE  IInv'
<1>1. ctx' \in [Threads -> Context] /\ \A t \in Threads : ctx'[t].at = ctx[t].at
  <2>1. ctx \in [Threads -> Context]
    BY DEF IInv, TypeOK
  <2>2. ASSUME NEW t \in Threads, NEW r \in Int, ctx' = [ctx EXCEPT ![t].a0 = r]
        PROVE  ctx' \in [Threads -> Context] /\ \A u \in Threads : ctx'[u].at = ctx[u].at
    <3>1. [ctx[t] EXCEPT !.a0 = r] \in Context /\ [ctx[t] EXCEPT !.a0 = r].at = ctx[t].at
      BY <2>1 DEF Context
    <3> QED
      BY <2>1, <2>2, <3>1
  <2> QED
    BY <2>1, <2>2
<1>2. TypeOK'
  BY <1>1 DEF IInv, TypeOK
<1> QED
  BY <1>1, <1>2 DEF IInv

\* Only main code sets the mask, while it has no frame.
LEMMA MaskSound ==
    ASSUME IInv, NEW t \in Threads, NEW set \in Masks,
           NEW how \in {"SIG_BLOCK", "SIG_UNBLOCK", "SIG_SETMASK"}, sigProcMask(t, how, set)
    PROVE  IInv'
<1> DEFINE new == NewMask(how, sigmask[t], set)
<1>1. Len(frames[t]) = 0 /\ mainMask[t] = sigmask[t]
  BY DEF sigProcMask, IInv, Stack
<1>2. new \in SUBSET Sigs
  BY MasksAssumption DEF NewMask, IInv, TypeOK
<1>3. sigmask' = [sigmask EXCEPT ![t] = new] /\ mainMask' = [mainMask EXCEPT ![t] = new]
  BY <1>1 DEF sigProcMask
<1> HIDE DEF new
<1>4. /\ ctx' = [ctx EXCEPT ![t].a0 = 0] /\ trapped' = trapped \cup {t}
      /\ UNCHANGED <<sigacts, sigpending, hasInfo, frames, exited, sends>>
  BY DEF sigProcMask, Ecall
<1>5. ctx' \in [Threads -> Context] /\ \A u \in Threads : ctx'[u].at = ctx[u].at
  BY <1>4 DEF IInv, TypeOK, Context
<1>6. /\ sigmask' \in [Threads -> SUBSET Sigs] /\ mainMask' \in [Threads -> SUBSET Sigs]
      /\ sigmask'[t] = mainMask'[t]
      /\ \A u \in Threads : u # t => sigmask'[u] = sigmask[u] /\ mainMask'[u] = mainMask[u]
  BY <1>2, <1>3 DEF IInv, TypeOK
<1>7. TypeOK'
  BY <1>4, <1>5, <1>6 DEF IInv, TypeOK
<1>8. ASSUME NEW u \in Threads
      PROVE  Stack(frames'[u], Len(frames'[u]), sigmask'[u], mainMask'[u])
  <2>1. CASE u = t
    BY <1>1, <1>4, <1>6, <2>1 DEF Stack
  <2>2. CASE u # t
    BY <1>4, <1>6, <2>2 DEF IInv
  <2> QED
    BY <2>1, <2>2
<1> QED
  BY <1>4, <1>5, <1>6, <1>7, <1>8 DEF IInv

\* rt_sigaction installs an action of the programs.
LEMMA ActionSound ==
    ASSUME IInv, NEW t \in Threads, NEW s \in Sigs, NEW act \in Acts, sigAction(t, s, act)
    PROVE  IInv'
<1>1. /\ ctx' = [ctx EXCEPT ![t].a0 = 0] /\ trapped' = trapped \cup {t}
      /\ sigacts' = [sigacts EXCEPT ![s] = act]
      /\ UNCHANGED <<sigmask, sigpending, hasInfo, frames, exited, sends, mainMask>>
  BY DEF sigAction, Ecall
<1>2. ctx' \in [Threads -> Context] /\ \A u \in Threads : ctx'[u].at = ctx[u].at
  BY <1>1 DEF IInv, TypeOK, Context
<1>3. sigacts' \in [Sigs -> SigAct] /\ \A r \in Sigs : sigacts'[r] \in Acts \cup {defaultSigAct}
  BY <1>1, ActsAssumption DEF IInv, TypeOK
<1>4. TypeOK'
  BY <1>1, <1>2, <1>3 DEF IInv, TypeOK
<1> QED
  BY <1>1, <1>2, <1>3, <1>4 DEF IInv

\* The signal a thread takes is one of its pending signals.
LEMMA TakingSound ==
    ASSUME IInv, NEW t \in Threads, NEW s \in Sigs, Taking(t, s)
    PROVE  /\ sigpending' \in [Threads -> SUBSET Sigs] /\ trapped' \subseteq Threads
           /\ UNCHANGED <<sends, mainMask, mainResult>>
BY DEF Taking, BackToUser, IInv, TypeOK

\* A handler starts on a new frame, which has the layout of the others.
LEMMA EnterSound ==
    ASSUME IInv, OneLayout, NEW t \in Threads, NEW s \in Sigs, EnterHandler(t, s)
    PROVE  IInv'
<1> DEFINE sa == sigacts[s]
           g == [info |-> sa.siginfo, uctx |-> ctx[t], mask |-> sigmask[t], held |-> sa.sa_mask]
<1>1. /\ Taking(t, s) /\ sa.sa_handler = "user" /\ hasInfo' = [hasInfo EXCEPT ![t] = sa.siginfo]
      /\ frames' = [frames EXCEPT ![t] = Append(frames[t], g)]
      /\ sigmask' = [sigmask EXCEPT ![t] = sigmask[t] \cup sa.sa_mask]
      /\ ctx' = [ctx EXCEPT ![t] = [at |-> Len(frames[t]) + 1, a0 |-> s]]
      /\ sigacts' = IF sa.resethand THEN [sigacts EXCEPT ![s] = defaultSigAct] ELSE sigacts
      /\ UNCHANGED exited
  BY DEF EnterHandler, Catches
<1>2. sa \in Acts /\ sa \in SigAct /\ sa.siginfo \in BOOLEAN /\ sa.sa_mask \in SUBSET Sigs
  <2>1. sa \in Acts
    BY <1>1 DEF IInv, defaultSigAct
  <2>2. sa \in SigAct
    BY <2>1, ActsAssumption
  <2> QED
    BY <2>1, <2>2 DEF SigAct
<1>3. PICK q \in Seq(Frame) : q = frames[t]
  BY DEF IInv, TypeOK, Frame
<1>4. PICK k \in Nat : k = Len(q)
  BY LenProperties
<1>5. ctx[t] \in Context /\ ctx[t].at = k /\ sigmask[t] \in SUBSET Sigs
  BY <1>3, <1>4 DEF IInv, TypeOK
<1>6. PICK f \in Frame : /\ f = g /\ f.info = sa.siginfo /\ f.uctx.at = k
                         /\ f.mask = sigmask[t] /\ f.held = sa.sa_mask
  <2>1. /\ g \in Frame /\ g.info = sa.siginfo /\ g.uctx.at = k
        /\ g.mask = sigmask[t] /\ g.held = sa.sa_mask
    BY <1>2, <1>5 DEF Frame
  <2> HIDE DEF g
  <2> QED
    BY <2>1, Zenon
<1> HIDE DEF g, sa
<1>7. PICK r \in Seq(Frame) : /\ r = Append(q, f) /\ Len(r) = k + 1 /\ r[k + 1] = f
                              /\ \A i \in 1 .. k : r[i] = q[i]
  <2>1. /\ Append(q, f) \in Seq(Frame) /\ Len(Append(q, f)) = k + 1 /\ Append(q, f)[k + 1] = f
        /\ \A i \in 1 .. k : Append(q, f)[i] = q[i]
    BY <1>4, AppendProperties
  <2> QED
    BY <2>1, Zenon
<1>8. /\ \A u \in Threads : u # t => /\ frames'[u] = frames[u] /\ sigmask'[u] = sigmask[u]
                                     /\ ctx'[u] = ctx[u] /\ hasInfo'[u] = hasInfo[u]
      /\ frames'[t] = r /\ sigmask'[t] = sigmask[t] \cup f.held /\ ctx'[t].at = k + 1
      /\ hasInfo'[t] = sa.siginfo
  BY <1>1, <1>3, <1>4, <1>6, <1>7 DEF IInv, TypeOK
<1>9. /\ sigacts' \in [Sigs -> SigAct] /\ \A x \in Sigs : sigacts'[x] \in Acts \cup {defaultSigAct}
  <2>1. defaultSigAct \in SigAct
    BY DEF defaultSigAct, SigAct
  <2> QED
    BY <1>1, <2>1 DEF IInv, TypeOK
<1>10. TypeOK'
  <2>1. frames' \in [Threads -> Seq(Frame)]
    <3>1. frames' = [frames EXCEPT ![t] = r]
      BY <1>1, <1>3, <1>6, <1>7
    <3> QED
      BY <3>1 DEF IInv, TypeOK, Frame
  <2>2. sigmask' \in [Threads -> SUBSET Sigs] /\ hasInfo' \in [Threads -> BOOLEAN]
    BY <1>1, <1>2 DEF IInv, TypeOK
  <2>3. ctx' \in [Threads -> Context]
    <3>1. [at |-> Len(frames[t]) + 1, a0 |-> s] \in Context
      BY <1>3, <1>4, SigsAssumption DEF Context
    <3> QED
      BY <1>1, <3>1 DEF IInv, TypeOK
  <2> QED
    BY <1>1, <1>9, <2>1, <2>2, <2>3, TakingSound DEF IInv, TypeOK, Frame
<1>11. mainMask' = mainMask /\ mainMask \in [Threads -> SUBSET Sigs]
  BY <1>1, TakingSound DEF IInv
<1>12. Stack(r, k + 1, sigmask[t] \cup f.held, mainMask[t])
  <2>1. Stack(q, k, sigmask[t], mainMask[t])
    BY <1>3, <1>4 DEF IInv
  <2>2. r[k + 1] = f /\ \A i \in 1 .. k : r[i] = q[i]
    BY <1>7
  <2>3. f.uctx.at = k /\ f.mask = sigmask[t]
    BY <1>6
  <2> QED
    BY <2>1, <2>2, <2>3, Push
<1>13. Layouts(r, sa.siginfo)
  <2>1. ASSUME NEW i \in 1 .. k PROVE q[i].info = sa.siginfo
    <3>1. q[i].info = hasInfo[t] /\ \E a \in Acts : a.siginfo = hasInfo[t]
      BY <1>3, <1>4 DEF IInv, Layouts
    <3> QED
      BY <1>2, <3>1 DEF OneLayout
  <2>2. ASSUME NEW i \in 1 .. k + 1 PROVE r[i].info = sa.siginfo
    <3>1. CASE i = k + 1
      BY <1>6, <1>7, <3>1
    <3>2. CASE i \in 1 .. k
      BY <1>7, <2>1, <3>2
    <3> QED
      BY <3>1, <3>2
  <2> QED
    BY <1>2, <1>7, <2>2 DEF Layouts
<1>14. ASSUME NEW u \in Threads
       PROVE  /\ ctx'[u].at = Len(frames'[u])
              /\ Stack(frames'[u], Len(frames'[u]), sigmask'[u], mainMask'[u])
              /\ Layouts(frames'[u], hasInfo'[u])
  <2>1. CASE u = t
    BY <1>7, <1>8, <1>11, <1>12, <1>13, <2>1
  <2>2. CASE u # t
    BY <1>8, <1>11, <2>2 DEF IInv
  <2> QED
    BY <2>1, <2>2
<1> QED
  BY <1>9, <1>10, <1>11, <1>14 DEF IInv

\* sigReturn restores the context and the mask of the frame it takes down.
LEMMA ReturnSound ==
    ASSUME IInv, NEW t \in Threads, sigReturn(t)
    PROVE  IInv'
<1>1. PICK q \in Seq(Frame) : q = frames[t]
  BY DEF IInv, TypeOK, Frame
<1>2. PICK k \in Nat : Len(q) = k + 1
  <2>1. Len(q) \in Nat /\ Len(q) > 0
    BY <1>1, LenProperties DEF IInv, sigReturn
  <2>2. Len(q) - 1 \in Nat /\ Len(q) = (Len(q) - 1) + 1
    BY <2>1
  <2> QED
    BY <2>2
<1>3. PICK r \in Seq(Frame) : /\ r = SubSeq(q, 1, Len(q) - 1) /\ Len(r) = k
                              /\ \A i \in 1 .. k : r[i] = q[i]
  BY <1>2, Shorter
<1>4. Len(r) = k /\ \A i \in 1 .. k : r[i] = q[i]
  BY <1>3
<1>5. frames' = [frames EXCEPT ![t] = r]
  BY <1>1, <1>3 DEF sigReturn
<1>6. PICK f \in Frame : f = q[k + 1]
  <2>1. k + 1 \in 1 .. Len(q)
    BY <1>2
  <2> QED
    BY <2>1, ElementOfSeq
<1>7. frames[t][Len(frames[t])] = f
  BY <1>1, <1>2, <1>6
<1>8. f.info = hasInfo[t]
  <2>1. k + 1 \in 1 .. Len(q)
    BY <1>2
  <2> QED
    BY <1>1, <1>6, <2>1 DEF IInv, Layouts
<1>9. /\ sigmask' = [sigmask EXCEPT ![t] = f.mask]
      /\ ctx' = [ctx EXCEPT ![t] = [f.uctx EXCEPT !.a0 = 0]]
      /\ trapped' = trapped \cup {t}
      /\ UNCHANGED <<sigacts, sigpending, hasInfo, exited, sends, mainMask, mainResult>>
  BY <1>7, <1>8 DEF sigReturn
<1>10. f.uctx \in Context /\ f.mask \in SUBSET Sigs
  BY <1>6 DEF Frame
<1>11. PICK c \in Context : c = [f.uctx EXCEPT !.a0 = 0] /\ c.at = f.uctx.at
  <2>1. [f.uctx EXCEPT !.a0 = 0] \in Context /\ [f.uctx EXCEPT !.a0 = 0].at = f.uctx.at
    BY <1>10 DEF Context
  <2> QED
    BY <2>1, Zenon
<1>12. f.uctx.at = k /\ Stack(r, k, f.mask, mainMask[t])
  <2>1. Stack(q, k + 1, sigmask[t], mainMask[t])
    BY <1>1, <1>2 DEF IInv
  <2> QED
    BY <1>4, <1>6, <2>1, Pop
<1>13. Layouts(r, hasInfo[t])
  <2>1. Layouts(q, hasInfo[t])
    BY <1>1 DEF IInv
  <2> QED
    BY <1>2, <1>4, <2>1 DEF Layouts
<1>14. TypeOK'
  <2>1. frames' \in [Threads -> Seq(Frame)]
    BY <1>5 DEF IInv, TypeOK, Frame
  <2>2. sigmask' \in [Threads -> SUBSET Sigs] /\ ctx' \in [Threads -> Context]
    BY <1>9, <1>10, <1>11 DEF IInv, TypeOK
  <2> QED
    BY <1>9, <2>1, <2>2 DEF IInv, TypeOK, Frame
<1>15. /\ \A u \in Threads : u # t => /\ frames'[u] = frames[u] /\ sigmask'[u] = sigmask[u]
                                      /\ ctx'[u] = ctx[u]
       /\ frames'[t] = r /\ sigmask'[t] = f.mask /\ ctx'[t].at = k
  BY <1>5, <1>9, <1>11, <1>12 DEF IInv, TypeOK
<1>16. ASSUME NEW u \in Threads
       PROVE  /\ ctx'[u].at = Len(frames'[u])
              /\ Stack(frames'[u], Len(frames'[u]), sigmask'[u], mainMask'[u])
              /\ Layouts(frames'[u], hasInfo'[u])
  <2>1. CASE u = t
    BY <1>4, <1>9, <1>12, <1>13, <1>15, <2>1
  <2>2. CASE u # t
    BY <1>9, <1>15, <2>2 DEF IInv
  <2> QED
    BY <2>1, <2>2
<1> QED
  BY <1>9, <1>14, <1>16 DEF IInv

-----------------------------------------------------------------------------
\* IInv holds of the initial states.
LEMMA InitSound == Init => IInv
<1> SUFFICES ASSUME Init PROVE IInv
  OBVIOUS
<1>1. TypeOK
  <2>1. defaultSigAct \in SigAct
    BY DEF defaultSigAct, SigAct
  <2>2. [at |-> 0, a0 |-> 0] \in Context /\ sends \in 0 .. MaxSends
    BY SendsAssumption DEF Context, Init
  <2>3. sigacts \in [Sigs -> SigAct] /\ ctx \in [Threads -> Context]
    BY <2>1, <2>2 DEF Init
  <2>4. <<>> \in Seq(Frame)
    OBVIOUS
  <2>5. frames \in [Threads -> Seq(Frame)]
    BY <2>4 DEF Init
  <2> QED
    BY <2>2, <2>3, <2>5 DEF Init, TypeOK, Frame
<1>2. \A t \in Threads : /\ frames[t] = <<>> /\ Len(frames[t]) = 0 /\ ctx[t].at = 0
                         /\ sigmask[t] = {} /\ mainMask[t] = {}
  <2>1. Len(<<>>) = 0
    OBVIOUS
  <2>2. \A t \in Threads : frames[t] = <<>> /\ sigmask[t] = {} /\ mainMask[t] = {}
    BY DEF Init
  <2>3. \A t \in Threads : ctx[t].at = 0
    BY DEF Init
  <2> QED
    BY <2>1, <2>2, <2>3
<1>3. \A t \in Threads : Stack(frames[t], Len(frames[t]), sigmask[t], mainMask[t])
  <2>1. ASSUME NEW q PROVE Stack(q, 0, {}, {})
    <3>1. 1 .. 0 = {}
      OBVIOUS
    <3> QED
      BY <3>1 DEF Stack
  <2> QED
    BY <1>2, <2>1
<1>4. \A t \in Threads : Layouts(frames[t], hasInfo[t])
  BY <1>2 DEF Layouts
<1>5. mainMask \in [Threads -> SUBSET Sigs] /\ \A s \in Sigs : sigacts[s] = defaultSigAct
  BY DEF Init
<1> QED
  BY <1>1, <1>2, <1>3, <1>4, <1>5 DEF IInv

\* Every step keeps IInv if the handlers agree on their layout.
LEMMA NextSound ==
    ASSUME OneLayout, IInv, [Next]_vars
    PROVE  IInv'
<1>1. /\ sends \in 0 .. MaxSends /\ trapped \subseteq Threads /\ exited \in BOOLEAN
      /\ sigpending \in [Threads -> SUBSET Sigs] /\ MaxSends \in Nat
  BY SendsAssumption DEF IInv, TypeOK
<1>2. ASSUME NEW t \in Threads, OtherCall(t) \/ Interrupt(t) PROVE IInv'
  <2>1. /\ UNCHANGED <<sigacts, sigmask, sigpending, hasInfo, frames, exited, sends, mainMask>>
        /\ UNCHANGED ctx \/ ctx' = [ctx EXCEPT ![t].a0 = 1]
        /\ trapped' = trapped \cup {t}
    BY <1>2 DEF OtherCall, Interrupt, Ecall
  <2> QED
    BY <1>1, <2>1, QuietSound
<1>3. ASSUME NEW t \in Threads, NEW s \in Sigs, tkill(t, s) PROVE IInv'
  <2>1. /\ UNCHANGED <<sigacts, sigmask, hasInfo, frames, ctx, trapped, exited, mainMask>>
        /\ sigpending' \in [Threads -> SUBSET Sigs]
    BY <1>1, <1>3 DEF tkill
  <2>2. sends' \in 0 .. MaxSends
    BY <1>1, <1>3 DEF tkill
  <2> QED
    BY <1>1, <2>1, <2>2, QuietSound
<1>4. ASSUME NEW s \in Sigs, kill(s) PROVE IInv'
  <2>1. /\ UNCHANGED <<sigacts, sigmask, hasInfo, frames, ctx, trapped, exited, mainMask>>
        /\ sigpending' = sigpending \/ sigpending' \in SendTo(s)
    BY <1>4 DEF kill
  <2>2. sends' \in 0 .. MaxSends
    BY <1>1, <1>4 DEF kill
  <2>3. sigpending' \in [Threads -> SUBSET Sigs]
    BY <1>1, <2>1 DEF SendTo
  <2> QED
    BY <1>1, <2>1, <2>2, <2>3, QuietSound
<1>5. ASSUME NEW t \in Threads, NothingPending(t) PROVE IInv'
  <2>1. /\ UNCHANGED <<sigacts, sigmask, sigpending, hasInfo, ctx, frames, exited, sends, mainMask>>
        /\ trapped' \subseteq Threads
    BY <1>1, <1>5 DEF NothingPending, BackToUser
  <2> QED
    BY <1>1, <2>1, QuietSound
<1>6. ASSUME NEW t \in Threads, NEW s \in Sigs, ExitBy(t, s) \/ IgnoreIt(t, s) PROVE IInv'
  <2>1. /\ UNCHANGED <<sigacts, sigmask, hasInfo, ctx, frames>> /\ Taking(t, s)
        /\ exited' \in BOOLEAN
    BY <1>1, <1>6 DEF ExitBy, IgnoreIt
  <2> QED
    BY <1>1, <2>1, TakingSound, QuietSound
<1>7. ASSUME NEW t \in Threads, Handle(t) PROVE IInv'
  BY <1>5, <1>6, <1>7, EnterSound DEF Handle
<1>8. CASE UNCHANGED vars
  BY <1>1, <1>8, QuietSound DEF vars
<1> QED
  BY <1>2, <1>3, <1>4, <1>7, <1>8, ReturnSound, ActionSound, MaskSound DEF Next

\* Handlers nest exactly, for any number of threads, signals and frames, if
\* all of them use one layout: a thread runs the innermost handler, returns to
\* the code it interrupted, and gets back its mask.
THEOREM NestingAlwaysExact ==
    ASSUME OneLayout
    PROVE  Spec => []NestingExact
<1>1. IInv /\ [Next]_vars => IInv'
  BY NextSound
<1>2. IInv => NestingExact
  <2> SUFFICES ASSUME IInv, NEW t \in Threads
               PROVE  /\ ctx[t].at = Len(frames[t])
                      /\ \A i \in 1 .. Len(frames[t]) :
                             frames[t][i].uctx.at = i - 1 /\ frames[t][i].held \subseteq sigmask[t]
                      /\ frames[t] = <<>> => sigmask[t] = mainMask[t]
    BY DEF NestingExact
  <2>1. Stack(frames[t], Len(frames[t]), sigmask[t], mainMask[t]) /\ ctx[t].at = Len(frames[t])
    BY DEF IInv
  <2>2. frames[t] = <<>> => Len(frames[t]) = 0
    OBVIOUS
  <2> QED
    BY <2>1, <2>2 DEF Stack
<1> QED
  BY <1>1, <1>2, InitSound, PTL DEF Spec

\* SIGKILL stays unblocked if no handler asks for it to be blocked.
LEMMA UnmaskedKept ==
    ASSUME OneLayout, KillUnmasked, IInv, MaskInv, [Next]_vars
    PROVE  MaskInv'
<1>1. CASE UNCHANGED <<sigmask, frames>>
  BY <1>1 DEF MaskInv
<1>2. ASSUME NEW t \in Threads, NEW how \in {"SIG_BLOCK", "SIG_UNBLOCK", "SIG_SETMASK"},
             NEW set \in Masks, sigProcMask(t, how, set)
      PROVE  MaskInv'
  <2>1. SIGKILL \notin NewMask(how, sigmask[t], set)
    BY DEF NewMask
  <2>2. frames' = frames /\ sigmask' = [sigmask EXCEPT ![t] = NewMask(how, sigmask[t], set)]
    BY <1>2 DEF sigProcMask
  <2>3. sigmask \in [Threads -> SUBSET Sigs]
    BY DEF IInv, TypeOK
  <2> QED
    BY <2>1, <2>2, <2>3 DEF MaskInv
<1>3. ASSUME NEW t \in Threads, NEW s \in Sigs, EnterHandler(t, s) PROVE MaskInv'
  <2>1. sigacts[s] \in Acts
    BY <1>3 DEF EnterHandler, Catches, IInv, defaultSigAct
  <2>2. SIGKILL \notin sigmask[t] \cup sigacts[s].sa_mask
    BY <2>1 DEF KillUnmasked, MaskInv
  <2>3. PICK f : /\ frames' = [frames EXCEPT ![t] = Append(frames[t], f)] /\ f.mask = sigmask[t]
                 /\ f \in Frame
    <3> DEFINE g == [info |-> sigacts[s].siginfo, uctx |-> ctx[t], mask |-> sigmask[t],
                     held |-> sigacts[s].sa_mask]
    <3>1. frames' = [frames EXCEPT ![t] = Append(frames[t], g)]
      BY <1>3 DEF EnterHandler
    <3>2. g.mask = sigmask[t] /\ g \in Frame
      BY <2>1, ActsAssumption DEF Frame, SigAct, IInv, TypeOK
    <3> HIDE DEF g
    <3> QED
      BY <3>1, <3>2, Zenon
  <2>4. PICK q \in Seq(Frame) : q = frames[t]
    BY DEF IInv, TypeOK, Frame
  <2>5. /\ Len(Append(q, f)) = Len(q) + 1 /\ Len(q) \in Nat
        /\ \A i \in 1 .. Len(q) : Append(q, f)[i] = q[i]
        /\ Append(q, f)[Len(q) + 1] = f
    BY <2>3, <2>4, AppendProperties, LenProperties
  <2>6. ASSUME NEW i \in 1 .. Len(Append(q, f)) PROVE SIGKILL \notin Append(q, f)[i].mask
    BY <2>3, <2>4, <2>5 DEF MaskInv
  <2>7. /\ \A u \in Threads : u # t => frames'[u] = frames[u] /\ sigmask'[u] = sigmask[u]
        /\ frames'[t] = Append(q, f) /\ sigmask'[t] = sigmask[t] \cup sigacts[s].sa_mask
    BY <1>3, <2>3, <2>4 DEF EnterHandler, IInv, TypeOK
  <2> QED
    BY <2>2, <2>6, <2>7 DEF MaskInv
<1>4. ASSUME NEW t \in Threads, sigReturn(t) PROVE MaskInv'
  <2>1. PICK q \in Seq(Frame) : q = frames[t]
    BY DEF IInv, TypeOK, Frame
  <2>2. PICK k \in Nat : Len(q) = k + 1
    <3>1. Len(q) \in Nat /\ Len(q) > 0
      BY <1>4, <2>1, LenProperties DEF IInv, sigReturn
    <3>2. Len(q) - 1 \in Nat /\ Len(q) = (Len(q) - 1) + 1
      BY <3>1
    <3> QED
      BY <3>2
  <2>3. k + 1 \in 1 .. Len(q) /\ \A i \in 1 .. k : i \in 1 .. Len(q)
    BY <2>2
  <2>4. q[k + 1].info = hasInfo[t]
    BY <2>1, <2>3 DEF IInv, Layouts
  <2>5. /\ sigmask' = [sigmask EXCEPT ![t] = q[k + 1].mask]
        /\ frames' = [frames EXCEPT ![t] = SubSeq(frames[t], 1, Len(frames[t]) - 1)]
    BY <1>4, <2>1, <2>2, <2>4 DEF sigReturn
  <2>6. PICK r \in Seq(Frame) : /\ r = SubSeq(q, 1, Len(q) - 1) /\ Len(r) = k
                                /\ \A i \in 1 .. k : r[i] = q[i]
    BY <2>2, Shorter
  <2>7. Len(r) = k /\ \A i \in 1 .. k : r[i] = q[i]
    BY <2>6
  <2>8. frames' = [frames EXCEPT ![t] = r]
    BY <2>1, <2>5, <2>6
  <2>9. sigmask' = [sigmask EXCEPT ![t] = q[k + 1].mask]
    BY <2>5
  <2>10. /\ \A u \in Threads : u # t => frames'[u] = frames[u] /\ sigmask'[u] = sigmask[u]
         /\ frames'[t] = r /\ sigmask'[t] = q[k + 1].mask
    BY <2>8, <2>9 DEF IInv, TypeOK
  <2>11. SIGKILL \notin q[k + 1].mask /\ \A i \in 1 .. k : SIGKILL \notin r[i].mask
    BY <2>1, <2>3, <2>7 DEF MaskInv
  <2> QED
    BY <2>7, <2>10, <2>11 DEF MaskInv
<1>5. ASSUME NEW t \in Threads, Handle(t) PROVE MaskInv'
  BY <1>1, <1>3, <1>5 DEF Handle, NothingPending, ExitBy, IgnoreIt
<1> QED
  BY <1>1, <1>2, <1>4, <1>5 DEF Next, vars, OtherCall, Interrupt, sigAction, kill, tkill

\* A SIGKILL sent to the process is pending, unblocked, in one of its threads,
\* if all handlers use one layout and none of them blocks SIGKILL.
THEOREM KillAlwaysReaches ==
    ASSUME OneLayout, KillUnmasked, Threads # {}
    PROVE  Spec => KillReaches
<1>1. Init => MaskInv
  <2> SUFFICES ASSUME Init PROVE MaskInv
    OBVIOUS
  <2>1. \A t \in Threads : frames[t] = <<>> /\ sigmask[t] = {}
    BY DEF Init
  <2>2. 1 .. Len(<<>>) = {}
    OBVIOUS
  <2> QED
    BY <2>1, <2>2 DEF MaskInv
<1>2. IInv /\ [Next]_vars => IInv'
  BY NextSound
<1>3. IInv /\ MaskInv /\ [Next]_vars => MaskInv'
  BY UnmaskedKept
<1>4. IInv /\ MaskInv /\ [Next]_vars =>
          [kill(SIGKILL) => \E t \in Threads : SIGKILL \in sigpending'[t] \ sigmask[t]]_vars
  <2> SUFFICES ASSUME IInv, MaskInv, kill(SIGKILL)
               PROVE  \E t \in Threads : SIGKILL \in sigpending'[t] \ sigmask[t]
    OBVIOUS
  <2>1. SendTo(SIGKILL) # {}
    BY DEF SendTo, MaskInv
  <2>2. PICK t \in Threads : sigpending' = [sigpending EXCEPT ![t] = @ \cup {SIGKILL}]
    BY <2>1 DEF kill, SendTo
  <2>3. SIGKILL \in sigpending'[t] /\ SIGKILL \notin sigmask[t]
    BY <2>2 DEF MaskInv, IInv, TypeOK
  <2> QED
    BY <2>3
<1> QED
  BY <1>1, <1>2, <1>3, <1>4, InitSound, PTL DEF Spec, KillReaches
=============================================================================
