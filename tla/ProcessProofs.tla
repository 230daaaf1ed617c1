---------------------------- MODULE ProcessProofs ----------------------------
(***************************************************************************)
(* Processes for any number of processes and tasks, whatever calls the     *)
(* programs make.  Every call is a composition of scheduler calls, each of *)
(* which is sound (SchedProofs).  What a call takes for granted of the *)
(* processes is the rest of the inductive invariant: the process of the    *)
(* current task exists, ids count up from a parent to its children, and    *)
(* the target of waitpid is a child of the waiting process.                *)
(***************************************************************************)
EXTENDS Process, SchedProofs, WellFoundedInduction

\* Where tasks are: only the idle task is in the idle loop, and a task that
\* is not created has not left the place where it will start.
PlacesInv ==
    /\ pc[Idle] = "idle"
    /\ \A t \in UserTasks :
        /\ pc[t] # "idle"
        /\ sched.state[t] = "None" => pc[t] = "user"

\* schedule() has looked at the process of the current task.
CurInv == fault = "none" /\ cur # Idle => Exists(procs, curproc)

\* Ids are handed out in order; the first process is nobody's child and is
\* never deleted; a child is younger than its parent.
PidsInv ==
    /\ procs[1].state \in {"Init", "Zombie"} /\ procs[1].parent = 0
    /\ \A p, q \in Procs : procs[p].state = "None" /\ procs[q].state # "None" => q < p
    /\ \A p \in Procs : Exists(procs, p) /\ p # 1 => procs[p].parent < p

\* What a task knows of its process and of the one it waits for.
TasksInv ==
    \A t \in UserTasks :
        /\ procs[home[t]].state # "None"
        /\ pc[t] = "wait" /\ target[t] # 0 =>
            /\ procs[target[t]].state # "None"
            /\ Exists(procs, target[t]) /\ Exists(procs, home[t]) =>
                procs[target[t]].parent = home[t]

IInv == TypeOK /\ SchedulerSound /\ ParentExists /\ PlacesInv /\ CurInv /\ PidsInv /\ TasksInv

-----------------------------------------------------------------------------
ProcType == [state : {"None", "Init", "Zombie", "Reaped"}, parent : Procs \cup {0},
             tasks : SUBSET UserTasks, slain : BOOLEAN]

\* ids are natural numbers, so there is a least one.
LEMMA LeastIs ==
    ASSUME NEW S \in SUBSET Nat, S # {}
    PROVE  Least(S) \in S /\ \A y \in S : Least(S) <= y
<1>1. PICK x \in S : \A y \in S : ~ (<<y, x>> \in OpToRel(<, Nat))
  BY WFMin, NatLessThanWellFounded, Zenon
<1>2. \A y \in S : ~ (y < x)
  BY <1>1, Zenon DEF OpToRel
<1>3. \A y \in S : x <= y
  BY <1>2
<1> QED
  BY <1>3, Zenon DEF Least

\* What every step finds: a sound scheduler, and for a task that is not idle
\* a process that exists.
LEMMA Before ==
    ASSUME IInv, fault = "none"
    PROVE  /\ sched \in SchedType /\ QueueInv(sched) /\ CurRunnable(sched)
           /\ cur \in Tasks /\ sched.state[cur] \notin {"None", "Pending", "Zombie"}
           /\ pc[cur] # "idle" => cur \in UserTasks /\ curproc \in Procs /\ Exists(procs, curproc)
<1>1. /\ sched \in SchedType /\ QueueInv(sched) /\ CurRunnable(sched)
      /\ home \in [UserTasks -> Procs]
  BY Zenon DEF IInv, TypeOK, SchedulerSound
<1>2. cur \in Tasks /\ sched.state[cur] \notin {"None", "Pending", "Zombie"}
  BY <1>1, Zenon DEF cur, SchedType, CurRunnable, Runnable
<1>3. pc[cur] # "idle" => cur # Idle
  BY Zenon DEF IInv, PlacesInv
<1> QED
  BY <1>1, <1>2, <1>3, Zenon DEF IInv, CurInv, Tasks, curproc

\* What a step leaves of the scheduler and of fault, from processes pr.
AfterSwitch(s, pr) ==
    /\ sched' \in SchedType /\ fault' \in Faults
    /\ fault' = "none" => /\ QueueInv(sched') /\ CurRunnable(sched')
                          /\ cur' # Idle => Exists(pr, home[cur'])
    /\ \A t \in UserTasks : sched'.state[t] = "None" => s.state[t] = "None"

\* schedule() is sound, and a fault unless the next task's process exists.
LEMMA SwitchSound ==
    ASSUME NEW s \in SchedType, QueueInv(s), NEW pr, Switch(s, pr)
    PROVE  AfterSwitch(s, pr) /\ QueueInv(sched')
<1>1. /\ Schedule(s) \in SchedType /\ QueueInv(Schedule(s)) /\ CurRunnable(Schedule(s))
      /\ Schedule(s).state = s.state
  BY ScheduleSound, Zenon
<1> QED
  BY <1>1, Zenon DEF Switch, AfterSwitch, Faults, cur

\* Process::exit: a zombie, and the parent's task is woken.
LEMMA ProcessExitSound ==
    ASSUME NEW s \in SchedType, QueueInv(s), s.state[s.curtask] # "Pending",
           NEW pr \in [Procs -> ProcType], NEW p \in Procs, ProcessExit(p, s, pr)
    PROVE  procs' = [pr EXCEPT ![p].state = "Zombie"] /\ AfterSwitch(s, procs')
<1> DEFINE pr1 == [pr EXCEPT ![p].state = "Zombie"]
           q   == pr[p].parent
<1>1. procs' = pr1
  BY Zenon DEF ProcessExit
<1>2. pr1 \in [Procs -> ProcType]
  BY Zenon DEF ProcType
<1>3. ASSUME fault' \in {"nullParent", "noDefaultTask"}, sched' = s
      PROVE  AfterSwitch(s, pr1)
  <2>1. fault' # "none" /\ fault' \in Faults
    BY <1>3, Zenon DEF Faults
  <2> QED
    BY <1>3, <2>1, Zenon DEF AfterSwitch
<1>4. ASSUME Exists(pr1, q), NEW d \in pr1[q].tasks, Switch(Wakeup(s, d), pr1)
      PROVE  AfterSwitch(s, pr1)
  <2>1. d \in UserTasks
    BY <1>2, <1>4, Zenon DEF Exists, ProcType
  <2>2. /\ Wakeup(s, d) \in SchedType /\ QueueInv(Wakeup(s, d))
        /\ Wakeup(s, d).state = IF s.state[d] = "Pending"
                                THEN [s.state EXCEPT ![d] = "Ready"] ELSE s.state
    BY <2>1, WakeupSound, Zenon
  <2>3. AfterSwitch(Wakeup(s, d), pr1)
    BY <1>4, <2>2, SwitchSound, Zenon
  <2>4. \A t \in UserTasks : Wakeup(s, d).state[t] = "None" => s.state[t] = "None"
    BY <2>1, <2>2, Zenon DEF SchedType, Tasks
  <2> QED
    BY <2>3, <2>4, Zenon DEF AfterSwitch
<1> QED
  BY <1>1, <1>3, <1>4, Zenon DEF ProcessExit

-----------------------------------------------------------------------------
\* What a step may do to processes (the body of ParentReaps).
Reaps ==
    \A p \in Procs :
        /\ procs[p].state = "Zombie" /\ procs'[p].state # "Zombie" =>
              procs'[p].state = "Reaped" /\ procs[p].parent = curproc
        /\ procs[p].state = "Reaped" => procs'[p].state = "Reaped"

FamilyInv == ParentExists /\ PidsInv /\ TasksInv

\* Processes exit at most, and nobody changes parent.
SameFamily ==
    \A p \in Procs :
        /\ procs'[p].parent = procs[p].parent
        /\ \/ procs'[p].state = procs[p].state
           \/ Exists(procs, p) /\ procs'[p].state = "Zombie"

\* A step that leaves the processes alone keeps what is said of them.
LEMMA FamilyKept ==
    ASSUME IInv, SameFamily,
           \A t \in UserTasks :
             /\ home'[t] = home[t] \/ (Exists(procs, home'[t]) /\ pc'[t] # "wait")
             /\ pc'[t] = "wait" /\ target'[t] # 0 =>
                  \/ pc[t] = "wait" /\ target'[t] = target[t]
                  \/ target'[t] \in getChilds(home[t])
    PROVE  FamilyInv' /\ Reaps
<1>1. /\ procs \in [Procs -> ProcType] /\ home \in [UserTasks -> Procs]
      /\ target \in [UserTasks -> Procs \cup {0}]
  BY Zenon DEF IInv, TypeOK, ProcType
<1>2. \A p : Exists(procs', p) <=> Exists(procs, p)
  BY Zenon DEF SameFamily, Exists
<1>3. \A p \in Procs : procs'[p].state = "None" <=> procs[p].state = "None"
  BY Zenon DEF SameFamily, Exists
<1>4. ParentExists'
  BY <1>2, Zenon DEF IInv, ParentExists, SameFamily
<1>5. PidsInv'
  BY <1>2, <1>3, ProcsAssumption, Zenon DEF IInv, PidsInv, SameFamily
<1>6. TasksInv'
  <2> SUFFICES ASSUME NEW t \in UserTasks
               PROVE  /\ procs'[home'[t]].state # "None"
                      /\ pc'[t] = "wait" /\ target'[t] # 0 =>
                          /\ procs'[target'[t]].state # "None"
                          /\ Exists(procs', target'[t]) /\ Exists(procs', home'[t]) =>
                              procs'[target'[t]].parent = home'[t]
    BY Zenon DEF TasksInv
  <2>1. procs'[home'[t]].state # "None" /\ (pc'[t] = "wait" => home'[t] = home[t])
    BY <1>1, <1>2, <1>3, Zenon DEF IInv, TasksInv, Exists
  <2>2. ASSUME pc'[t] = "wait", target'[t] # 0, pc[t] = "wait", target'[t] = target[t]
        PROVE  /\ procs'[target'[t]].state # "None"
               /\ Exists(procs', target'[t]) /\ Exists(procs', home[t]) =>
                   procs'[target'[t]].parent = home[t]
    BY <1>1, <1>2, <1>3, <2>2 DEF IInv, TasksInv, SameFamily
  <2>3. ASSUME target'[t] \in getChilds(home[t])
        PROVE  procs'[target'[t]].state # "None" /\ procs'[target'[t]].parent = home[t]
    BY <1>3, <2>3, Zenon DEF getChilds, Exists, SameFamily
  <2> QED
    BY <2>1, <2>2, <2>3, Zenon
<1>7. Reaps
  BY Zenon DEF Reaps, SameFamily, Exists
<1> QED
  BY <1>4, <1>5, <1>6, <1>7, Zenon DEF FamilyInv

\* A new process is younger than all others, and nobody knows it.
LEMMA ForkKeeps ==
    ASSUME IInv, Fork
    PROVE  FamilyInv' /\ Reaps /\ NewTid \in UserTasks /\ NewPid \in Procs /\ Exists(procs', home'[cur])
<1> DEFINE p == NewPid
           t == NewTid
<1>0. /\ procs \in [Procs -> ProcType] /\ home \in [UserTasks -> Procs]
      /\ target \in [UserTasks -> Procs \cup {0}] /\ pc \in [Tasks -> {"idle", "user", "trap", "wait", "killed"}]
  BY Zenon DEF IInv, TypeOK, ProcType
<1>1. cur \in UserTasks /\ curproc \in Procs /\ Exists(procs, curproc)
  BY Before, Zenon DEF Fork, Syscall
<1>2. p \in Procs /\ procs[p].state = "None" /\ \A q \in Procs : procs[q].state = "None" => p <= q
  <2>1. {q \in Procs : procs[q].state = "None"} \in SUBSET Nat
    BY ProcsAssumption, Zenon
  <2> QED
    BY <2>1, LeastIs, Zenon DEF Fork, NewPid
<1>3. t \in UserTasks /\ sched.state[t] = "None"
  <2>1. {x \in UserTasks : sched.state[x] = "None"} \in SUBSET Nat
    BY TidsAssumption, Zenon
  <2> QED
    BY <2>1, LeastIs, Zenon DEF Fork, NewTid
<1>4. /\ procs' = [procs EXCEPT ![p] = [state |-> "Init", parent |-> curproc,
                                        tasks |-> {t}, slain |-> FALSE]]
      /\ home' = [home EXCEPT ![t] = p] /\ target' = target
      /\ pc' = [pc EXCEPT ![cur] = "trap"]
  BY Zenon DEF Fork
<1> HIDE DEF p, t
<1>5. /\ procs'[p].state = "Init" /\ procs'[p].parent = curproc
      /\ \A q \in Procs \ {p} : procs'[q] = procs[q]
  BY <1>0, <1>2, <1>4, Zenon
<1>6. curproc # p /\ curproc < p /\ p # 1
  BY <1>1, <1>2, ProcsAssumption, Zenon DEF IInv, PidsInv, Exists
<1>7. \A q : Exists(procs', q) <=> q = p \/ Exists(procs, q)
  BY <1>2, <1>5, Zenon DEF Exists
<1>8. ParentExists'
  BY <1>1, <1>5, <1>7, Zenon DEF IInv, ParentExists, Exists
<1>9. PidsInv'
  <2>1. procs'[1].state \in {"Init", "Zombie"} /\ procs'[1].parent = 0
    BY <1>5, <1>6, ProcsAssumption, Zenon DEF IInv, PidsInv
  <2>2. ASSUME NEW x \in Procs, NEW q \in Procs, procs'[x].state = "None", procs'[q].state # "None"
        PROVE  q < x
    <3>1. x # p /\ procs[x].state = "None" /\ p <= x
      BY <1>2, <1>5, <2>2, Zenon
    <3>2. CASE q = p
      BY <3>1, <3>2, ProcsAssumption
    <3>3. CASE q # p
      BY <1>5, <2>2, <3>1, <3>3, Zenon DEF IInv, PidsInv
    <3> QED
      BY <3>2, <3>3, Zenon
  <2>3. \A q \in Procs : Exists(procs', q) /\ q # 1 => procs'[q].parent < q
    BY <1>5, <1>6, <1>7, Zenon DEF IInv, PidsInv
  <2> QED
    BY <2>1, <2>2, <2>3, Zenon DEF PidsInv
<1>10. TasksInv'
  <2> SUFFICES ASSUME NEW x \in UserTasks
               PROVE  /\ procs'[home'[x]].state # "None"
                      /\ pc'[x] = "wait" /\ target[x] # 0 =>
                          /\ procs'[target[x]].state # "None"
                          /\ Exists(procs', target[x]) /\ Exists(procs', home'[x]) =>
                              procs'[target[x]].parent = home'[x]
    BY <1>4, Zenon DEF TasksInv
  <2>1. home'[x] = IF x = t THEN p ELSE home[x]
    BY <1>0, <1>3, <1>4, Zenon
  <2>2. procs'[home'[x]].state # "None"
    BY <1>0, <1>5, <2>1, Zenon DEF IInv, TasksInv
  <2>3. ASSUME pc'[x] = "wait", target[x] # 0
        PROVE  /\ procs'[target[x]].state # "None"
               /\ Exists(procs', target[x]) /\ Exists(procs', home'[x]) =>
                   procs'[target[x]].parent = home'[x]
    <3>1. pc[x] = "wait" /\ x # t
      <4>1. pc[x] = "wait"
        BY <1>0, <1>1, <1>4, <2>3, Zenon DEF Tasks
      <4>2. pc[t] = "user"
        BY <1>3, Zenon DEF IInv, PlacesInv
      <4> QED
        BY <4>1, <4>2, Zenon
    <3>2. /\ procs[target[x]].state # "None" /\ target[x] \in Procs
          /\ Exists(procs, target[x]) /\ Exists(procs, home[x]) => procs[target[x]].parent = home[x]
          /\ procs[home[x]].state # "None" /\ home[x] \in Procs
      BY <1>0, <2>3, <3>1, Zenon DEF IInv, TasksInv
    <3>3. target[x] # p /\ home[x] # p
      BY <1>2, <3>2, Zenon
    <3> QED
      BY <1>5, <1>7, <2>1, <3>1, <3>2, <3>3, Zenon
  <2> QED
    BY <2>2, <2>3, Zenon
<1>11. Reaps
  BY <1>2, <1>5, Zenon DEF Reaps
<1>12. Exists(procs', home'[cur])
  <2>1. cur # t
    BY <1>3, Before, Zenon DEF Fork, Syscall
  <2> QED
    BY <1>0, <1>1, <1>4, <1>7, <2>1, Zenon DEF curproc
<1> QED
  BY <1>2, <1>3, <1>8, <1>9, <1>10, <1>11, <1>12, Zenon DEF FamilyInv, p, t

\* Process::zombieExit hands the children of a child on, and the current
\* process stays.
LEMMA ReapKeeps ==
    ASSUME IInv, NEW z \in Procs, Exists(procs, z), procs[z].state = "Zombie",
           cur \in UserTasks, Exists(procs, curproc), procs[z].parent = curproc,
           Reap(z), home' = home,
           \A t \in UserTasks : t # cur => target'[t] = target[t]
    PROVE  FamilyInv' /\ Reaps /\ Exists(procs', curproc)
<1> DEFINE g == curproc
<1>0. /\ procs \in [Procs -> ProcType] /\ home \in [UserTasks -> Procs]
      /\ target \in [UserTasks -> Procs \cup {0}] /\ pc \in [Tasks -> {"idle", "user", "trap", "wait", "killed"}]
  BY Zenon DEF IInv, TypeOK, ProcType
<1>1. g \in Procs /\ g \in Nat \ {0} /\ z \in Nat \ {0} /\ z # 1 /\ g < z
  <2>1. g \in Procs
    BY <1>0, Zenon DEF curproc
  <2>2. z # 1
    BY <2>1, ProcsAssumption, Zenon DEF IInv, PidsInv
  <2> QED
    BY <2>1, <2>2, ProcsAssumption, Zenon DEF IInv, PidsInv
<1>2. \A q \in Procs :
         /\ q = z => procs'[q].state = "Reaped"
         /\ q # z => procs'[q].state = procs[q].state
         /\ q # z /\ Exists(procs, q) /\ procs[q].parent = z => procs'[q].parent = g
         /\ q # z /\ ~ (Exists(procs, q) /\ procs[q].parent = z) => procs'[q].parent = procs[q].parent
  BY <1>0, ZenonT(40) DEF Reap, getChilds, ProcType
<1>3. \A q : Exists(procs', q) <=> q # z /\ Exists(procs, q)
  BY <1>2, Zenon DEF Exists
<1>4. ParentExists'
  BY <1>1, <1>2, <1>3 DEF IInv, ParentExists, Exists
<1>5. PidsInv'
  <2>1. procs'[1].state \in {"Init", "Zombie"} /\ procs'[1].parent = 0
    BY <1>1, <1>2, ProcsAssumption, Zenon DEF IInv, PidsInv
  <2>2. \A x, q \in Procs : procs'[x].state = "None" /\ procs'[q].state # "None" => q < x
    BY <1>2 DEF IInv, PidsInv
  <2>3. ASSUME NEW q \in Procs, Exists(procs', q), q # 1
        PROVE  procs'[q].parent < q
    <3>1. q # z /\ procs[q].parent < q /\ q \in Nat
      BY <1>3, <2>3, ProcsAssumption, Zenon DEF IInv, PidsInv
    <3>2. CASE procs[q].parent = z
      BY <1>1, <1>2, <1>3, <2>3, <3>1, <3>2
    <3>3. CASE procs[q].parent # z
      BY <1>2, <3>1, <3>3, Zenon
    <3> QED
      BY <3>2, <3>3, Zenon
  <2> QED
    BY <2>1, <2>2, <2>3, Zenon DEF PidsInv
<1>6. TasksInv'
  <2> SUFFICES ASSUME NEW x \in UserTasks
               PROVE  /\ procs'[home[x]].state # "None"
                      /\ pc'[x] = "wait" /\ target'[x] # 0 =>
                          /\ procs'[target'[x]].state # "None"
                          /\ Exists(procs', target'[x]) /\ Exists(procs', home[x]) =>
                              procs'[target'[x]].parent = home[x]
    BY Zenon DEF TasksInv
  <2>1. procs'[home[x]].state # "None"
    BY <1>0, <1>2, Zenon DEF IInv, TasksInv
  <2>2. ASSUME pc'[x] = "wait", target'[x] # 0
        PROVE  /\ procs'[target'[x]].state # "None"
               /\ Exists(procs', target'[x]) /\ Exists(procs', home[x]) =>
                   procs'[target'[x]].parent = home[x]
    <3>1. x # cur /\ pc[x] = "wait" /\ target'[x] = target[x]
      BY <1>0, <2>2, Zenon DEF Reap, Tasks
    <3>2. /\ procs[target[x]].state # "None" /\ target[x] \in Procs /\ home[x] \in Procs
          /\ Exists(procs, target[x]) /\ Exists(procs, home[x]) => procs[target[x]].parent = home[x]
      BY <1>0, <2>2, <3>1, Zenon DEF IInv, TasksInv
    <3> QED
      BY <1>2, <1>3, <3>1, <3>2, Zenon
  <2> QED
    BY <2>1, <2>2, Zenon
<1>7. Reaps
  BY <1>2, Zenon DEF Reaps
<1> QED
  BY <1>1, <1>3, <1>4, <1>5, <1>6, <1>7 DEF FamilyInv

-----------------------------------------------------------------------------
Places == {"idle", "user", "trap", "wait", "killed"}

\* The current task alone moves, and no task loses its existence.
LEMMA PlacesKept ==
    ASSUME IInv, fault = "none",
           \/ pc' = pc
           \/ cur \in UserTasks /\ \E v \in Places \ {"idle"} : pc' = [pc EXCEPT ![cur] = v],
           \A t \in UserTasks : sched'.state[t] = "None" => sched.state[t] = "None"
    PROVE  PlacesInv' /\ pc' \in [Tasks -> Places]
<1>1. pc \in [Tasks -> Places] /\ UserTasks \subseteq Tasks /\ Idle \in Tasks /\ Idle \notin UserTasks
  BY IdleAssumption, Zenon DEF IInv, TypeOK, Places, Tasks
<1>2. CASE pc' = pc
  BY <1>1, <1>2, Zenon DEF IInv, PlacesInv
<1>3. ASSUME cur \in UserTasks, NEW v \in Places \ {"idle"}, pc' = [pc EXCEPT ![cur] = v]
      PROVE  PlacesInv' /\ pc' \in [Tasks -> Places]
  <2>1. sched.state[cur] # "None"
    BY Before, Zenon
  <2>2. pc' \in [Tasks -> Places] /\ pc'[cur] = v /\ \A t \in Tasks \ {cur} : pc'[t] = pc[t]
    BY <1>1, <1>3, Zenon
  <2> QED
    BY <1>1, <1>3, <2>1, <2>2 DEF IInv, PlacesInv, Places
<1> QED
  BY <1>2, <1>3, Zenon

\* Enough for the invariant after a step.
LEMMA Assemble ==
    ASSUME FamilyInv', PlacesInv', pc' \in [Tasks -> Places],
           sched' \in SchedType, fault' \in Faults, procs' \in [Procs -> ProcType],
           home' \in [UserTasks -> Procs], target' \in [UserTasks -> Procs \cup {0}],
           killsig' \subseteq UserTasks,
           fault' = "none" => /\ QueueInv(sched') /\ CurRunnable(sched')
                              /\ cur' # Idle => Exists(procs', home'[cur'])
    PROVE  IInv'
<1>1. TypeOK'
  BY Zenon DEF TypeOK, Places, ProcType
<1>2. SchedulerSound' /\ CurInv'
  BY Zenon DEF SchedulerSound, CurInv, curproc
<1> QED
  BY <1>1, <1>2, Zenon DEF IInv, FamilyInv

\* The types of the parts of the state.
LEMMA Typed ==
    ASSUME IInv
    PROVE  /\ procs \in [Procs -> ProcType] /\ home \in [UserTasks -> Procs]
           /\ target \in [UserTasks -> Procs \cup {0}] /\ killsig \subseteq UserTasks
           /\ pc \in [Tasks -> Places] /\ sched \in SchedType
  BY Zenon DEF IInv, TypeOK, ProcType, Places

\* A call that changes neither scheduler nor processes.
LEMMA QuietSound ==
    ASSUME IInv, fault = "none", cur \in UserTasks,
           NEW v \in {"user", "trap", "killed"}, pc' = [pc EXCEPT ![cur] = v],
           UNCHANGED <<sched, procs, home, fault>>, killsig' \subseteq UserTasks,
           target' \in [UserTasks -> Procs \cup {0}],
           \A t \in UserTasks : t # cur => target'[t] = target[t]
    PROVE  IInv' /\ Reaps
<1>1. PlacesInv' /\ pc' \in [Tasks -> Places]
  <2>1. v \in Places \ {"idle"}
    BY Zenon DEF Places
  <2> QED
    BY <2>1, PlacesKept, Zenon
<1>2. SameFamily
  BY Zenon DEF SameFamily
<1>3. \A t \in UserTasks : pc'[t] = "wait" => t # cur /\ pc[t] = "wait"
  BY Typed, Zenon DEF Tasks
<1>4. FamilyInv' /\ Reaps
  BY <1>2, <1>3, FamilyKept, Zenon
<1>5. QueueInv(sched) /\ CurRunnable(sched) /\ (cur # Idle => Exists(procs, home[cur]))
  BY Before, Zenon DEF IInv, CurInv, curproc
<1>6. cur' = cur
  BY Zenon DEF cur
<1>7. fault' \in Faults
  BY Zenon DEF Faults
<1> QED
  BY <1>1, <1>4, <1>5, <1>6, <1>7, Typed, Assemble, Zenon

\* A call that ends in schedule() and lets processes exit at most.
LEMMA SwitchKeeps ==
    ASSUME IInv, fault = "none", NEW s, AfterSwitch(s, procs'), SameFamily,
           procs' \in [Procs -> ProcType], home' = home,
           PlacesInv', pc' \in [Tasks -> Places], killsig' \subseteq UserTasks,
           target' \in [UserTasks -> Procs \cup {0}],
           \A t \in UserTasks :
             pc'[t] = "wait" /\ target'[t] # 0 =>
                  \/ pc[t] = "wait" /\ target'[t] = target[t]
                  \/ target'[t] \in getChilds(home[t])
    PROVE  IInv' /\ Reaps
<1>1. FamilyInv' /\ Reaps
  BY FamilyKept, Zenon
<1> QED
  BY <1>1, Typed, Assemble, Zenon DEF AfterSwitch

-----------------------------------------------------------------------------
\* The timer's interrupt.
LEMMA TickSound ==
    ASSUME IInv, Tick
    PROVE  IInv' /\ Reaps
<1> DEFINE n == sched'.curtask
<1>1. AfterSwitch(sched, procs) /\ QueueInv(sched') /\ n \in Tasks /\ sched'.state[n] # "None"
  <2>1. AfterSwitch(sched, procs) /\ QueueInv(sched')
    BY Before, SwitchSound, Zenon DEF Tick
  <2> QED
    BY <2>1, Zenon DEF AfterSwitch, SchedType, QueueInv, CurExists
<1>2. SameFamily /\ procs' = procs /\ home' = home /\ target' = target /\ killsig' = killsig
  BY Zenon DEF Tick, SameFamily
<1>3. pc' = IF pc[n] = "user" THEN [pc EXCEPT ![n] = "trap"] ELSE pc
  BY Zenon DEF Tick
<1> HIDE DEF n
<1>4. PlacesInv' /\ pc' \in [Tasks -> Places] /\ \A t \in UserTasks : pc'[t] = "wait" => pc[t] = "wait"
  <2>1. CASE pc[n] = "user"
    <3>1. pc' \in [Tasks -> Places] /\ pc'[n] = "trap" /\ \A t \in Tasks \ {n} : pc'[t] = pc[t]
      BY <1>1, <1>3, <2>1, Typed, Zenon DEF Places
    <3>2. \A t \in UserTasks : sched'.state[t] = "None" => sched.state[t] = "None" /\ t # n
      BY <1>1, Zenon DEF AfterSwitch
    <3>3. UserTasks \subseteq Tasks /\ Idle \in Tasks /\ n # Idle
      BY <2>1, Zenon DEF IInv, PlacesInv, Tasks
    <3> QED
      BY <3>1, <3>2, <3>3, Zenon DEF IInv, PlacesInv
  <2>2. CASE pc[n] # "user"
    <3>1. pc' = pc
      BY <1>3, <2>2, Zenon
    <3> QED
      BY <1>1, <3>1, PlacesKept, Zenon DEF Tick, AfterSwitch
  <2> QED
    BY <2>1, <2>2, Zenon
<1>5. fault = "none"
  BY Zenon DEF Tick
<1> QED
  BY <1>1, <1>2, <1>4, <1>5, Typed, SwitchKeeps, Zenon

\* A new task in the scheduler.
LEMMA CreateKeeps ==
    ASSUME IInv, fault = "none", NEW t \in UserTasks, sched.state[t] = "None",
           sched' = Create(sched, t)
    PROVE  /\ sched' \in SchedType /\ QueueInv(sched') /\ CurRunnable(sched') /\ cur' = cur
           /\ \A x \in UserTasks : sched'.state[x] = "None" => sched.state[x] = "None"
<1>1. /\ sched' \in SchedType /\ QueueInv(sched') /\ sched'.curtask = sched.curtask
      /\ sched'.state = [sched.state EXCEPT ![t] = "Init"]
  BY Before, CreateSound, Zenon
<1>2. \A x \in Tasks : sched'.state[x] = IF x = t THEN "Init" ELSE sched.state[x]
  BY <1>1, Typed, Zenon DEF SchedType
<1> QED
  BY <1>1, <1>2, Before, Zenon DEF cur, CurRunnable, Runnable, Tasks

\* ObjManager::newId.
LEMMA NewTidIs ==
    ASSUME \E t \in UserTasks : sched.state[t] = "None"
    PROVE  NewTid \in UserTasks /\ sched.state[NewTid] = "None"
<1>1. {x \in UserTasks : sched.state[x] = "None"} \in SUBSET Nat
  BY TidsAssumption, Zenon
<1> QED
  BY <1>1, LeastIs DEF NewTid

\* clone() of a process.
LEMMA ForkSound ==
    ASSUME IInv, Fork
    PROVE  IInv' /\ Reaps
<1>1. fault = "none" /\ cur \in UserTasks /\ curproc \in Procs
  BY Before, Zenon DEF Fork, Syscall
<1>2. /\ FamilyInv' /\ Reaps /\ NewTid \in UserTasks /\ NewPid \in Procs
      /\ Exists(procs', home'[cur]) /\ sched.state[NewTid] = "None"
  BY ForkKeeps, NewTidIs, Zenon DEF Fork
<1>3. /\ sched' \in SchedType /\ QueueInv(sched') /\ CurRunnable(sched') /\ cur' = cur
      /\ \A x \in UserTasks : sched'.state[x] = "None" => sched.state[x] = "None"
  BY <1>1, <1>2, CreateKeeps, Zenon DEF Fork
<1>4. PlacesInv' /\ pc' \in [Tasks -> Places]
  BY <1>1, <1>3, PlacesKept, Zenon DEF Fork, Places
<1>5. /\ procs' \in [Procs -> ProcType] /\ home' \in [UserTasks -> Procs]
      /\ target' = target /\ killsig' = killsig /\ fault' = fault
  BY <1>1, <1>2, Typed, Zenon DEF Fork, ProcType
<1>6. fault' \in Faults
  BY <1>1, <1>5, Zenon DEF Faults
<1> QED
  BY <1>2, <1>3, <1>4, <1>5, <1>6, Typed, Assemble, Zenon

\* clone() of a thread.
LEMMA CloneThreadSound ==
    ASSUME IInv, CloneThread
    PROVE  IInv' /\ Reaps
<1> DEFINE t == NewTid
<1>1. fault = "none" /\ cur \in UserTasks /\ curproc \in Procs /\ Exists(procs, curproc)
  BY Before, Zenon DEF CloneThread, Syscall
<1>2. t \in UserTasks /\ sched.state[t] = "None"
  BY NewTidIs, Zenon DEF CloneThread
<1>3. /\ sched' \in SchedType /\ QueueInv(sched') /\ CurRunnable(sched') /\ cur' = cur
      /\ \A x \in UserTasks : sched'.state[x] = "None" => sched.state[x] = "None"
  BY <1>1, <1>2, CreateKeeps, Zenon DEF CloneThread
<1>4. PlacesInv' /\ pc' \in [Tasks -> Places]
  BY <1>1, <1>3, PlacesKept, Zenon DEF CloneThread, Places
<1>5. /\ procs' = [procs EXCEPT ![curproc].tasks = @ \cup {t}]
      /\ home' = [home EXCEPT ![t] = curproc] /\ pc' = [pc EXCEPT ![cur] = "trap"]
      /\ target' = target /\ killsig' = killsig /\ fault' = fault
  BY Zenon DEF CloneThread
<1> HIDE DEF t
<1>6. procs' \in [Procs -> ProcType] /\ home' \in [UserTasks -> Procs] /\ SameFamily
  BY <1>1, <1>2, <1>5, Typed DEF ProcType, SameFamily
<1>7. \A x \in UserTasks :
        /\ home'[x] = IF x = t THEN curproc ELSE home[x]
        /\ pc'[x] = "wait" => pc[x] = "wait" /\ x # t
  <2>1. pc[t] = "user"
    BY <1>2, Zenon DEF IInv, PlacesInv
  <2> QED
    BY <1>1, <1>2, <1>5, <2>1, Typed, Zenon DEF Tasks
<1>8. FamilyInv' /\ Reaps
  BY <1>1, <1>5, <1>6, <1>7, FamilyKept, Zenon
<1>9. Exists(procs', home'[cur])
  <2>1. home'[cur] = curproc
    BY <1>1, <1>7, Zenon DEF curproc
  <2> QED
    BY <1>1, <1>6, <2>1, Zenon DEF SameFamily, Exists
<1>10. fault' \in Faults
  BY <1>1, <1>5, Zenon DEF Faults
<1> QED
  BY <1>3, <1>4, <1>5, <1>6, <1>8, <1>9, <1>10, Typed, Assemble, Zenon

\* Making tasks zombies: what Process::exit starts from.
LEMMA KillKeeps ==
    ASSUME IInv, fault = "none", NEW S \in SUBSET UserTasks
    PROVE  /\ Kill(sched, S) \in SchedType /\ QueueInv(Kill(sched, S))
           /\ Kill(sched, S).state[Kill(sched, S).curtask] # "Pending"
           /\ \A t \in UserTasks : Kill(sched, S).state[t] = "None" => sched.state[t] = "None"
<1>1. /\ Kill(sched, S) \in SchedType /\ QueueInv(Kill(sched, S))
      /\ Kill(sched, S).curtask = sched.curtask
      /\ Kill(sched, S).state = [t \in Tasks |-> IF t \in S THEN "Zombie" ELSE sched.state[t]]
  BY Before, KillSound, Zenon
<1>2. \A t \in Tasks : Kill(sched, S).state[t] = IF t \in S THEN "Zombie" ELSE sched.state[t]
  BY <1>1, Zenon
<1> QED
  BY <1>1, <1>2, Before, Zenon DEF cur, Tasks

\* A call that may end the current process and then gives up the hart.
LEMMA EndSound ==
    ASSUME IInv, fault = "none", cur \in UserTasks,
           NEW s, AfterSwitch(s, procs'),
           \A t \in UserTasks : s.state[t] = "None" => sched.state[t] = "None",
           procs' \in [Procs -> ProcType], SameFamily,
           pc' = pc \/ pc' = [pc EXCEPT ![cur] = "killed"],
           UNCHANGED <<home, target>>, killsig' \subseteq UserTasks
    PROVE  IInv' /\ Reaps
<1>1. \A t \in UserTasks : sched'.state[t] = "None" => sched.state[t] = "None"
  BY Zenon DEF AfterSwitch
<1>2. PlacesInv' /\ pc' \in [Tasks -> Places]
  BY <1>1, PlacesKept, Zenon DEF Places
<1>3. \A t \in UserTasks : pc'[t] = "wait" => pc[t] = "wait"
  BY Typed, Zenon DEF Tasks
<1> QED
  BY <1>2, <1>3, Typed, SwitchKeeps, Zenon

\* exit().
LEMMA ExitSound ==
    ASSUME IInv, Exit
    PROVE  IInv' /\ Reaps
<1> DEFINE s  == Kill(sched, {cur})
           pr == [procs EXCEPT ![curproc].tasks = @ \ {cur}]
<1>1. fault = "none" /\ cur \in UserTasks /\ curproc \in Procs /\ Exists(procs, curproc)
  BY Before, Zenon DEF Exit, Syscall
<1>2. /\ s \in SchedType /\ QueueInv(s) /\ s.state[s.curtask] # "Pending"
      /\ \A t \in UserTasks : s.state[t] = "None" => sched.state[t] = "None"
  BY <1>1, KillKeeps, Zenon
<1>3. /\ pr \in [Procs -> ProcType]
      /\ \A p \in Procs : pr[p].parent = procs[p].parent /\ pr[p].state = procs[p].state
  BY <1>1, Typed DEF ProcType
<1>4. \/ ProcessExit(curproc, s, pr)
      \/ procs' = pr /\ Switch(s, pr)
  BY Zenon DEF Exit
<1>5. UNCHANGED <<home, pc, target, killsig>>
  BY Zenon DEF Exit
<1> HIDE DEF s, pr
<1>6. ASSUME ProcessExit(curproc, s, pr)
      PROVE  AfterSwitch(s, procs') /\ procs' \in [Procs -> ProcType] /\ SameFamily
  <2>1. procs' = [pr EXCEPT ![curproc].state = "Zombie"] /\ AfterSwitch(s, procs')
    BY <1>1, <1>2, <1>3, <1>6, ProcessExitSound, Zenon
  <2> QED
    BY <1>1, <1>3, <2>1 DEF ProcType, SameFamily
<1>7. ASSUME procs' = pr, Switch(s, pr)
      PROVE  AfterSwitch(s, procs') /\ procs' \in [Procs -> ProcType] /\ SameFamily
  BY <1>2, <1>3, <1>7, SwitchSound, Zenon DEF SameFamily
<1> QED
  BY <1>1, <1>2, <1>4, <1>5, <1>6, <1>7, Typed, EndSound, Zenon

\* exit_group().
LEMMA ExitGroupSound ==
    ASSUME IInv, ExitGroup
    PROVE  IInv' /\ Reaps
<1> DEFINE s == Kill(sched, procs[curproc].tasks)
<1>1. fault = "none" /\ cur \in UserTasks /\ curproc \in Procs /\ Exists(procs, curproc)
  BY Before, Zenon DEF ExitGroup, Syscall
<1>2. procs[curproc].tasks \in SUBSET UserTasks
  BY <1>1, Typed, Zenon DEF ProcType
<1>3. /\ s \in SchedType /\ QueueInv(s) /\ s.state[s.curtask] # "Pending"
      /\ \A t \in UserTasks : s.state[t] = "None" => sched.state[t] = "None"
  BY <1>1, <1>2, KillKeeps, Zenon
<1>4. ProcessExit(curproc, s, procs) /\ UNCHANGED <<home, pc, target, killsig>>
  BY Zenon DEF ExitGroup
<1> HIDE DEF s
<1>5. procs' = [procs EXCEPT ![curproc].state = "Zombie"] /\ AfterSwitch(s, procs')
  BY <1>1, <1>3, <1>4, Typed, ProcessExitSound, Zenon
<1>6. procs' \in [Procs -> ProcType] /\ SameFamily
  BY <1>1, <1>5, Typed, Zenon DEF ProcType, SameFamily
<1> QED
  BY <1>1, <1>3, <1>4, <1>5, <1>6, Typed, EndSound, Zenon

\* A task of a killed process exits at its next trap.
LEMMA TrapKilledSound ==
    ASSUME IInv, TrapKilled
    PROVE  IInv' /\ Reaps
<1> DEFINE pr == [procs EXCEPT ![curproc].slain = TRUE]
<1>1. /\ fault = "none" /\ cur \in UserTasks /\ curproc \in Procs /\ Exists(procs, curproc)
      /\ sched \in SchedType /\ QueueInv(sched) /\ sched.state[sched.curtask] # "Pending"
  BY Before, Zenon DEF TrapKilled, cur
<1>2. /\ pr \in [Procs -> ProcType]
      /\ \A p \in Procs : pr[p].parent = procs[p].parent /\ pr[p].state = procs[p].state
  BY <1>1, Typed, Zenon DEF ProcType
<1>3. /\ ProcessExit(curproc, sched, pr) /\ UNCHANGED <<home, target>>
      /\ pc' = [pc EXCEPT ![cur] = "killed"] /\ killsig' \subseteq killsig
  BY Zenon DEF TrapKilled
<1> HIDE DEF pr
<1>4. procs' = [pr EXCEPT ![curproc].state = "Zombie"] /\ AfterSwitch(sched, procs')
  BY <1>1, <1>2, <1>3, ProcessExitSound, Zenon
<1>5. procs' \in [Procs -> ProcType] /\ SameFamily
  BY <1>1, <1>2, <1>4 DEF ProcType, SameFamily
<1> QED
  BY <1>1, <1>3, <1>4, <1>5, Typed, EndSound, Zenon

-----------------------------------------------------------------------------
\* What the calls of waitpid have in common: who is waited for.
Waiting ==
    /\ fault = "none" /\ cur \in UserTasks /\ curproc \in Procs /\ Exists(procs, curproc)
    /\ home' = home /\ killsig' = killsig
    /\ target' \in [UserTasks -> Procs \cup {0}]
    /\ \A t \in UserTasks : t # cur => target'[t] = target[t]

\* waitpid() finds no zombie and sleeps.
LEMMA WaitSleepSound ==
    ASSUME IInv, Waiting, WaitSleep,
           target'[cur] # 0 => \/ pc[cur] = "wait" /\ target'[cur] = target[cur]
                               \/ target'[cur] \in getChilds(curproc)
    PROVE  IInv' /\ Reaps
<1> DEFINE s == Sleep(sched, cur)
<1>1. /\ s \in SchedType /\ QueueInv(s)
      /\ s.state = [sched.state EXCEPT ![cur] = "Pending"]
  BY Before, SleepSound, Zenon DEF Waiting
<1>2. \A t \in UserTasks : s.state[t] = "None" => sched.state[t] = "None"
  BY <1>1, Typed, Zenon DEF SchedType, Tasks
<1>3. procs' = procs /\ AfterSwitch(s, procs')
  BY <1>1, SwitchSound, Zenon DEF WaitSleep
<1>4. \A t \in UserTasks : sched'.state[t] = "None" => sched.state[t] = "None"
  BY <1>2, <1>3, Zenon DEF AfterSwitch
<1> HIDE DEF s
<1>5. PlacesInv' /\ pc' \in [Tasks -> Places]
  BY <1>4, PlacesKept, Zenon DEF WaitSleep, Waiting, Places
<1>6. \A t \in UserTasks : t # cur => pc'[t] = pc[t]
  BY Typed, Zenon DEF WaitSleep, Tasks
<1>7. \A t \in UserTasks :
         pc'[t] = "wait" /\ target'[t] # 0 =>
              \/ pc[t] = "wait" /\ target'[t] = target[t]
              \/ target'[t] \in getChilds(home[t])
  BY <1>6, Zenon DEF Waiting, curproc
<1>8. SameFamily
  BY <1>3, Zenon DEF SameFamily
<1> QED
  BY <1>3, <1>5, <1>7, <1>8, Typed, SwitchKeeps, Zenon DEF Waiting

\* waitpid() deletes a zombie.
LEMMA ReapSound ==
    ASSUME IInv, Waiting, NEW z \in Procs, procs[z].state = "Zombie",
           procs[z].parent = curproc, Reap(z)
    PROVE  IInv' /\ Reaps
<1>1. FamilyInv' /\ Reaps /\ Exists(procs', curproc)
  BY ReapKeeps, Zenon DEF Waiting, Exists
<1>2. sched' = sched /\ fault' = fault /\ cur' = cur /\ pc' = [pc EXCEPT ![cur] = "trap"]
  BY Zenon DEF Reap, cur
<1>3. PlacesInv' /\ pc' \in [Tasks -> Places]
  BY <1>2, PlacesKept, Zenon DEF Waiting, Places
<1>4. procs' \in [Procs -> ProcType]
  <2>1. procs \in [Procs -> ProcType]
    BY Typed, Zenon
  <2>2. ASSUME NEW r \in ProcType, NEW q \in Procs \cup {0}
        PROVE  /\ [r EXCEPT !.state = "Reaped", !.tasks = {}] \in ProcType
               /\ [r EXCEPT !.parent = q] \in ProcType
    BY Zenon DEF ProcType
  <2>3. procs[z].parent \in Procs \cup {0}
    BY <2>1, Zenon DEF ProcType
  <2> QED
    BY <2>1, <2>2, <2>3, Zenon DEF Reap
<1>5. QueueInv(sched) /\ CurRunnable(sched) /\ fault' \in Faults
  BY <1>2, Before, Zenon DEF Waiting, Faults
<1> QED
  BY <1>1, <1>2, <1>3, <1>4, <1>5, Typed, Assemble, Zenon DEF Waiting, curproc

\* The loop of waitpid(-1).
LEMMA WaitAnyLoopSound ==
    ASSUME IInv, Waiting, WaitAnyLoop, target'[cur] = 0
    PROVE  IInv' /\ Reaps
<1> DEFINE Z == Zombies(getChilds(curproc))
<1>1. ASSUME pc' = [pc EXCEPT ![cur] = "trap"], UNCHANGED <<sched, procs, fault>>
      PROVE  IInv' /\ Reaps
  BY <1>1, Typed, QuietSound, Zenon DEF Waiting
<1>2. ASSUME Z # {}, Reap(Least(Z))
      PROVE  IInv' /\ Reaps
  <2>1. Z \in SUBSET Nat
    BY ProcsAssumption, Zenon DEF Zombies, getChilds
  <2>2. Least(Z) \in Z
    BY <1>2, <2>1, LeastIs, Zenon
  <2>3. Least(Z) \in Procs /\ procs[Least(Z)].state = "Zombie" /\ procs[Least(Z)].parent = curproc
    BY <2>2, Zenon DEF Zombies, getChilds
  <2> QED
    BY <1>2, <2>3, ReapSound, Zenon
<1>3. ASSUME WaitSleep
      PROVE  IInv' /\ Reaps
  BY <1>3, WaitSleepSound, Zenon
<1> QED
  BY <1>1, <1>2, <1>3, Zenon DEF WaitAnyLoop

\* The process that a resumed waitpid finds is a child of the caller.
LEMMA WaitPidLoopSound ==
    ASSUME IInv, Waiting, NEW p \in Procs, target'[cur] = p, WaitPidLoop(p),
           \/ pc[cur] = "wait" /\ target' = target
           \/ p \in getChilds(curproc)
    PROVE  IInv' /\ Reaps
<1>1. Exists(procs, p) => procs[p].parent = curproc
  <2>1. CASE p \in getChilds(curproc)
    BY <2>1, Zenon DEF getChilds
  <2>2. CASE pc[cur] = "wait" /\ target' = target
    <3>1. p # 0
      BY ProcsAssumption, Zenon
    <3> QED
      BY <2>2, <3>1, Zenon DEF IInv, TasksInv, Waiting, curproc
  <2> QED
    BY <2>1, <2>2, Zenon
<1>2. ASSUME Exists(procs, p), procs[p].state = "Zombie", Reap(p)
      PROVE  IInv' /\ Reaps
  BY <1>1, <1>2, ReapSound, Zenon
<1>3. ASSUME WaitSleep
      PROVE  IInv' /\ Reaps
  BY <1>3, WaitSleepSound, Zenon
<1>4. ASSUME ~Exists(procs, p), fault' = "freedProcess", UNCHANGED <<sched, procs, pc>>
      PROVE  IInv' /\ Reaps
  <2>1. target' = target
    BY <1>4, Zenon DEF getChilds
  <2>2. AfterSwitch(sched, procs')
    BY <1>4, Typed, Zenon DEF AfterSwitch, Faults
  <2>3. SameFamily
    BY <1>4, Zenon DEF SameFamily
  <2> QED
    BY <1>4, <2>1, <2>2, <2>3, Typed, EndSound, Zenon DEF Waiting
<1> QED
  BY <1>2, <1>3, <1>4, Zenon DEF WaitPidLoop

-----------------------------------------------------------------------------
\* Every step preserves the inductive invariant and keeps to ParentReaps.
LEMMA StepSound ==
    ASSUME IInv, Next
    PROVE  IInv' /\ Reaps
<1>1. CASE Tick
  BY <1>1, TickSound, Zenon
<1>2. CASE Fork \/ CloneThread
  BY <1>2, ForkSound, CloneThreadSound, Zenon
<1>3. CASE Exit \/ ExitGroup \/ TrapKilled
  BY <1>3, ExitSound, ExitGroupSound, TrapKilledSound, Zenon
<1>4. CASE WaitAny
  <2>1. Waiting /\ WaitAnyLoop /\ target'[cur] = 0
    BY <1>4, Before, Typed, Zenon DEF WaitAny, Waiting, Syscall
  <2> QED
    BY <2>1, WaitAnyLoopSound, Zenon
<1>5. ASSUME NEW p \in Procs, WaitPid(p)
      PROVE  IInv' /\ Reaps
  <2>1. Waiting /\ WaitPidLoop(p) /\ target'[cur] = p /\ p \in getChilds(curproc)
    BY <1>5, Before, Typed, Zenon DEF WaitPid, Waiting, Syscall
  <2> QED
    BY <2>1, WaitPidLoopSound, Zenon
<1>6. CASE WaitResume
  <2>1. Waiting /\ pc[cur] = "wait" /\ target' = target /\ target[cur] \in Procs \cup {0}
    BY <1>6, Before, Typed, Zenon DEF WaitResume, Waiting
  <2>2. CASE target[cur] = 0
    BY <1>6, <2>1, <2>2, WaitAnyLoopSound, Zenon DEF WaitResume
  <2>3. CASE target[cur] # 0
    BY <1>6, <2>1, <2>3, WaitPidLoopSound, Zenon DEF WaitResume
  <2> QED
    BY <2>2, <2>3, Zenon
<1>7. ASSUME NEW p \in Procs, KillProc(p)
      PROVE  IInv' /\ Reaps
  <2>1. fault = "none" /\ cur \in UserTasks
    BY <1>7, Before, Zenon DEF KillProc, Syscall
  <2>2. killsig' \subseteq UserTasks
    BY <1>7, Typed DEF KillProc, ProcType
  <2> QED
    BY <1>7, <2>1, <2>2, Typed, QuietSound, Zenon DEF KillProc
<1>8. CASE TrapReturn
  BY <1>8, Before, Typed, QuietSound, Zenon DEF TrapReturn
<1>9. CASE KilledResume
  BY <1>9, Before, Typed, QuietSound, Zenon DEF KilledResume
<1> QED
  BY <1>1, <1>2, <1>3, <1>4, <1>5, <1>6, <1>7, <1>8, <1>9, Zenon DEF Next

\* The inductive invariant holds of every reachable state.
THEOREM Invariant == Spec => []IInv
<1>1. Init => IInv
  <2> SUFFICES ASSUME Init PROVE IInv
    BY Zenon
  <2>1. sched \in SchedType /\ QueueInv(sched) /\ CurRunnable(sched) /\ cur = Idle
    BY BootSound, TidsAssumption, Zenon DEF Init, SchedInit, Boot, cur
  <2>2. \A p \in Procs : /\ p = 1 => procs[p].state = "Init" /\ procs[p].parent = 0
                         /\ p # 1 => procs[p].state = "None"
    BY Zenon DEF Init
  <2>3. TypeOK
    BY <2>1, ProcsAssumption, TidsAssumption, Zenon DEF Init, TypeOK, Tasks, Faults
  <2>4. SchedulerSound /\ CurInv
    BY <2>1, Zenon DEF SchedulerSound, CurInv
  <2>5. ParentExists
    BY <2>2, Zenon DEF ParentExists, Exists
  <2>6. PlacesInv
    BY IdleAssumption, Zenon DEF Init, PlacesInv, Tasks
  <2>7. PidsInv
    <3>1. ASSUME NEW p \in Procs, NEW q \in Procs, procs[p].state = "None", procs[q].state # "None"
          PROVE  q < p
      <4>1. q = 1 /\ p # 1 /\ p \in Nat \ {0}
        BY <2>2, <3>1, ProcsAssumption, Zenon
      <4> QED
        BY <4>1
    <3> QED
      BY <2>2, <3>1, ProcsAssumption, Zenon DEF PidsInv, Exists
  <2>8. TasksInv
    BY <2>2, ProcsAssumption, Zenon DEF Init, TasksInv
  <2> QED
    BY <2>3, <2>4, <2>5, <2>6, <2>7, <2>8, Zenon DEF IInv
<1>2. IInv /\ UNCHANGED vars => IInv'
  <2> SUFFICES ASSUME IInv, UNCHANGED vars PROVE IInv'
    BY Zenon
  <2> USE DEF vars
  <2>1. TypeOK'
    BY Zenon DEF IInv, TypeOK
  <2>2. SchedulerSound' /\ CurInv'
    BY Zenon DEF IInv, SchedulerSound, CurInv, cur, curproc
  <2>3. ParentExists' /\ PidsInv'
    BY Zenon DEF IInv, ParentExists, PidsInv, Exists
  <2>4. PlacesInv' /\ TasksInv'
    BY Zenon DEF IInv, PlacesInv, TasksInv
  <2> QED
    BY <2>1, <2>2, <2>3, <2>4, Zenon DEF IInv
<1> QED
  BY <1>1, <1>2, StepSound, PTL DEF Spec

(***************************************************************************)
(* For any numbers of processes and tasks and whatever calls they make:    *)
(* fork, threads, exit, exit_group, waitpid and death by a signal compose  *)
(* the scheduler's calls so that no task is lost or queued twice, and      *)
(* schedule() picks none that sleeps or has exited.                        *)
(***************************************************************************)
THEOREM SchedulerAlwaysSound == Spec => []SchedulerSound
<1>1. IInv => SchedulerSound
  BY Zenon DEF IInv
<1> QED
  BY <1>1, Invariant, PTL

(***************************************************************************)
(* For any numbers of processes and tasks: zombieExit leaves no process    *)
(* whose parent is deleted.                                                *)
(***************************************************************************)
THEOREM ParentAlwaysExists == Spec => []ParentExists
<1>1. IInv => ParentExists
  BY Zenon DEF IInv
<1> QED
  BY <1>1, Invariant, PTL

(***************************************************************************)
(* For any numbers of processes and tasks: only its parent deletes a       *)
(* process that has exited, even when a wait for one process is resumed    *)
(* long after it began, and a deleted process does not come back.          *)
(***************************************************************************)
THEOREM OnlyParentReaps == Spec => ParentReaps
<1>1. IInv /\ [Next]_vars => [Reaps]_vars
  BY StepSound, Zenon
<1> QED
  BY <1>1, Invariant, PTL DEF Spec, ParentReaps, Reaps

-----------------------------------------------------------------------------
(***************************************************************************)
(* Programs of one thread that end by exit_group.  A process that exists   *)
(* has one task; a task that has not ended belongs to a process that has   *)
(* not, and the process it waits for is not deleted.                       *)
(***************************************************************************)
Live(t) == sched.state[t] \notin {"None", "Zombie"}

OneTask(p) == \E t \in UserTasks : procs[p].tasks = {t} /\ home[t] = p /\ sched.state[t] # "None"

AtHome(t) == procs[home[t]].state = "Init" /\ t \in procs[home[t]].tasks

OneInv ==
    /\ fault = "none" /\ killsig = {} /\ procs[1].state = "Init"
    /\ \A p \in Procs : Exists(procs, p) => OneTask(p)
    /\ \A t \in UserTasks :
        /\ pc[t] # "killed"
        /\ Live(t) => AtHome(t)
        /\ Live(t) /\ pc[t] = "wait" /\ target[t] # 0 => Exists(procs, target[t])

\* schedule() finds the process of every task that it may switch to.
LEMMA SwitchFine ==
    ASSUME NEW s \in SchedType, QueueInv(s), NEW pr, Switch(s, pr),
           \A t \in UserTasks : Runnable(s, t) => Exists(pr, home[t])
    PROVE  fault' = "none" /\ sched'.state = s.state
<1>1. /\ Schedule(s) \in SchedType /\ CurRunnable(Schedule(s)) /\ Schedule(s).state = s.state
  BY ScheduleSound, Zenon
<1>2. Schedule(s).curtask # Idle =>
         Schedule(s).curtask \in UserTasks /\ Runnable(s, Schedule(s).curtask)
  BY <1>1, Zenon DEF SchedType, Tasks, CurRunnable, Runnable
<1> QED
  BY <1>1, <1>2, Zenon DEF Switch

\* A process has one task that has not ended.
LEMMA Alone ==
    ASSUME IInv, OneInv, NEW t \in UserTasks, NEW u \in UserTasks,
           Live(t), Live(u), home[t] = home[u]
    PROVE  t = u /\ procs[home[t]].tasks = {t}
<1>1. home[t] \in Procs /\ AtHome(t) /\ AtHome(u)
  BY Typed, Zenon DEF OneInv
<1>2. Exists(procs, home[t])
  BY <1>1, Zenon DEF AtHome, Exists
<1>3. OneTask(home[t])
  BY <1>1, <1>2, Zenon DEF OneInv
<1> QED
  BY <1>1, <1>3 DEF OneTask, AtHome

\* A step of the current task that leaves processes and states alone.
LEMMA QuietFine ==
    ASSUME IInv, OneInv, fault' = "none", killsig' = {}, UNCHANGED <<procs, home>>,
           \A t \in UserTasks : sched'.state[t] = "None" <=> sched.state[t] = "None",
           \A t \in UserTasks : sched'.state[t] = "Zombie" <=> sched.state[t] = "Zombie",
           \A t \in UserTasks :
              \/ pc'[t] \in {"user", "trap"}
              \/ pc'[t] = pc[t] /\ target'[t] = target[t]
              \/ pc'[t] = "wait" /\ (target'[t] # 0 => Exists(procs, target'[t]))
    PROVE  OneInv'
<1>1. ASSUME NEW p \in Procs, Exists(procs', p) PROVE OneTask(p)'
  BY <1>1, Zenon DEF OneInv, OneTask, Exists
<1>2. ASSUME NEW t \in UserTasks, Live(t)'
      PROVE  AtHome(t)' /\ (pc'[t] = "wait" /\ target'[t] # 0 => Exists(procs', target'[t]))
  BY <1>2, Zenon DEF OneInv, Live, AtHome
<1>3. \A t \in UserTasks : pc'[t] # "killed"
  BY Zenon DEF OneInv
<1>4. fault' = "none" /\ killsig' = {} /\ procs'[1].state = "Init"
  BY Zenon DEF OneInv
<1> QED
  BY <1>1, <1>2, <1>3, <1>4, Zenon DEF OneInv

\* The current task and its process.
LEMMA CurFine ==
    ASSUME IInv, OneInv, pc[cur] # "idle"
    PROVE  /\ cur \in UserTasks /\ curproc \in Procs /\ Live(cur) /\ AtHome(cur)
           /\ procs[curproc].tasks = {cur}
<1>1. cur \in UserTasks /\ curproc \in Procs /\ sched.state[cur] \notin {"None", "Pending", "Zombie"}
  BY Before, Zenon DEF OneInv
<1>2. Live(cur)
  BY <1>1, Zenon DEF Live
<1> QED
  BY <1>1, <1>2, Alone, Zenon DEF OneInv, curproc

\* The timer's interrupt.
LEMMA TickFine ==
    ASSUME IInv, OneInv, Tick
    PROVE  OneInv'
<1>1. sched \in SchedType /\ QueueInv(sched)
  BY Before, Zenon DEF OneInv
<1>2. ASSUME NEW t \in UserTasks, Runnable(sched, t) PROVE Exists(procs, home[t])
  BY <1>2, Typed, Zenon DEF OneInv, Live, AtHome, Runnable, Exists
<1>3. fault' = "none" /\ sched'.state = sched.state
  BY <1>1, <1>2, SwitchFine, Zenon DEF Tick
<1>4. \A t \in UserTasks : pc'[t] \in {"trap"} \/ pc'[t] = pc[t]
  BY Typed, Zenon DEF Tick, Tasks
<1>5. UNCHANGED <<procs, home, target, killsig>>
  BY Zenon DEF Tick
<1> QED
  BY <1>3, <1>4, <1>5, QuietFine, Zenon DEF OneInv

\* A step that only lets the current task go on.
LEMMA GoOnFine ==
    ASSUME IInv, OneInv, pc[cur] # "idle", NEW v \in {"user", "trap"},
           pc' = [pc EXCEPT ![cur] = v], UNCHANGED <<sched, procs, home, killsig, fault>>,
           \A t \in UserTasks : t # cur => target'[t] = target[t]
    PROVE  OneInv'
<1>1. cur \in UserTasks
  BY CurFine, Zenon
<1>2. \A t \in UserTasks : pc'[t] = IF t = cur THEN v ELSE pc[t]
  BY <1>1, Typed, Zenon DEF Tasks
<1> QED
  BY <1>2, QuietFine, Zenon DEF OneInv

\* kernel::sleep() in waitpid.
LEMMA WaitSleepFine ==
    ASSUME IInv, OneInv, pc[cur] # "idle", WaitSleep, home' = home, killsig' = killsig,
           target'[cur] # 0 => Exists(procs, target'[cur]),
           \A t \in UserTasks : t # cur => target'[t] = target[t]
    PROVE  OneInv'
<1>1. cur \in UserTasks /\ Live(cur) /\ sched \in SchedType /\ QueueInv(sched)
  BY CurFine, Before, Zenon DEF OneInv
<1>2. PICK s \in SchedType : /\ s = Sleep(sched, cur) /\ QueueInv(s)
                             /\ s.state = [sched.state EXCEPT ![cur] = "Pending"]
  <2>1. /\ Sleep(sched, cur) \in SchedType /\ QueueInv(Sleep(sched, cur))
        /\ Sleep(sched, cur).state = [sched.state EXCEPT ![cur] = "Pending"]
    BY <1>1, SleepSound, Zenon
  <2> QED
    BY <2>1, Zenon
<1>3. \A t \in UserTasks : s.state[t] = IF t = cur THEN "Pending" ELSE sched.state[t]
  BY <1>1, <1>2, Zenon DEF SchedType, Tasks
<1>4. ASSUME NEW t \in UserTasks, Runnable(s, t) PROVE Exists(procs, home[t])
  <2>1. Live(t)
    BY <1>1, <1>3, <1>4, Zenon DEF Live, Runnable
  <2> QED
    BY <2>1, Typed, Zenon DEF OneInv, AtHome, Exists
<1>5. fault' = "none" /\ sched'.state = s.state /\ procs' = procs
  BY <1>2, <1>4, SwitchFine, Zenon DEF WaitSleep
<1>6. \A t \in UserTasks : pc'[t] = IF t = cur THEN "wait" ELSE pc[t]
  BY <1>1, Typed, Zenon DEF WaitSleep, Tasks
<1>7. \A t \in UserTasks : /\ sched'.state[t] = "None" <=> sched.state[t] = "None"
                           /\ sched'.state[t] = "Zombie" <=> sched.state[t] = "Zombie"
  BY <1>1, <1>3, <1>5, Zenon DEF Live
<1> QED
  BY <1>5, <1>6, <1>7, QuietFine, Zenon DEF OneInv

\* clone() of a process.
LEMMA ForkFine ==
    ASSUME IInv, OneInv, Fork
    PROVE  OneInv'
<1>1. pc[cur] # "idle" /\ fault = "none"
  BY Zenon DEF Fork, Syscall
<1>2. cur \in UserTasks /\ curproc \in Procs /\ Live(cur)
  BY <1>1, CurFine, Zenon
<1>3. PICK t \in UserTasks : t = NewTid /\ sched.state[t] = "None"
  BY NewTidIs, Zenon DEF Fork
<1>4. PICK p \in Procs : p = NewPid /\ procs[p].state = "None"
  <2>1. {x \in Procs : procs[x].state = "None"} \in SUBSET Nat
    BY ProcsAssumption, Zenon
  <2> QED
    BY <2>1, LeastIs, Zenon DEF NewPid, Fork
<1>5. procs \in [Procs -> ProcType] /\ home \in [UserTasks -> Procs] /\ pc \in [Tasks -> Places]
      /\ sched \in SchedType /\ QueueInv(sched)
  BY <1>1, Typed, Before, Zenon
<1>6. sched'.state = [sched.state EXCEPT ![t] = "Init"]
  BY <1>3, <1>5, CreateSound, Zenon DEF Fork
<1>7. \A x \in UserTasks : sched'.state[x] = IF x = t THEN "Init" ELSE sched.state[x]
  BY <1>5, <1>6, Zenon DEF SchedType, Tasks
<1>8. /\ procs'[p].state = "Init" /\ procs'[p].tasks = {t}
      /\ \A x \in Procs : x # p => procs'[x] = procs[x]
  BY <1>3, <1>4, <1>5, Zenon DEF Fork
<1>9. \A x \in UserTasks : home'[x] = IF x = t THEN p ELSE home[x]
  BY <1>3, <1>4, <1>5, Zenon DEF Fork
<1>10. \A x \in UserTasks : pc'[x] = IF x = cur THEN "trap" ELSE pc[x]
  BY <1>2, <1>5, Zenon DEF Fork, Tasks
<1>11. pc[t] = "user" /\ t # cur
  BY <1>2, <1>3, Zenon DEF IInv, PlacesInv, Live
<1>12. UNCHANGED <<target, killsig, fault>>
  BY Zenon DEF Fork
<1>13. ASSUME NEW x \in Procs, Exists(procs, x) PROVE x # p /\ Exists(procs', x)
  BY <1>4, <1>8, <1>13, Zenon DEF Exists
<1>14. ASSUME NEW x \in Procs, Exists(procs', x) PROVE OneTask(x)'
  <2>1. CASE x = p
    BY <1>7, <1>8, <1>9, <2>1, Zenon DEF OneTask
  <2>2. CASE x # p
    <3>1. Exists(procs, x)
      BY <1>8, <1>14, <2>2, Zenon DEF Exists
    <3>2. PICK u \in UserTasks : procs[x].tasks = {u} /\ home[u] = x /\ sched.state[u] # "None"
      BY <3>1, Zenon DEF OneInv, OneTask
    <3>3. u # t
      BY <1>3, <3>2, Zenon
    <3> QED
      BY <1>7, <1>8, <1>9, <2>2, <3>2, <3>3, Zenon DEF OneTask
  <2> QED
    BY <2>1, <2>2, Zenon
<1>15. ASSUME NEW x \in UserTasks, Live(x)'
       PROVE  AtHome(x)' /\ (pc'[x] = "wait" /\ target'[x] # 0 => Exists(procs', target'[x]))
  <2>1. CASE x = t
    BY <1>8, <1>9, <1>10, <1>11, <2>1, Zenon DEF AtHome
  <2>2. CASE x # t
    <3>1. Live(x) /\ home'[x] = home[x]
      BY <1>7, <1>9, <1>15, <2>2, Zenon DEF Live
    <3>2. AtHome(x) /\ home[x] # p /\ home[x] \in Procs
      BY <1>4, <1>5, <3>1, Zenon DEF OneInv, AtHome
    <3>3. AtHome(x)'
      BY <1>8, <3>1, <3>2, Zenon DEF AtHome
    <3>4. ASSUME pc'[x] = "wait", target'[x] # 0 PROVE Exists(procs', target'[x])
      <4>1. pc[x] = "wait" /\ target[x] # 0
        BY <1>10, <1>12, <3>4, Zenon
      <4>2. Exists(procs, target[x]) /\ target[x] \in Procs
        BY <3>1, <4>1, Zenon DEF OneInv, Exists
      <4> QED
        BY <1>12, <1>13, <4>2, Zenon
    <3> QED
      BY <3>3, <3>4, Zenon
  <2> QED
    BY <2>1, <2>2, Zenon
<1>16. \A x \in UserTasks : pc'[x] # "killed"
  BY <1>10, Zenon DEF OneInv
<1>17. procs'[1].state = "Init"
  BY <1>4, <1>8, ProcsAssumption, Zenon DEF OneInv
<1> QED
  BY <1>12, <1>14, <1>15, <1>16, <1>17, Zenon DEF OneInv

\* exit_group(): the parent has a task to wake, and the others' processes stay.
LEMMA ExitGroupFine ==
    ASSUME IInv, OneInv, Calls = {}, ExitGroup
    PROVE  OneInv'
<1>1. pc[cur] # "idle" /\ fault = "none" /\ curproc # 1
  BY Zenon DEF ExitGroup, Syscall, MayEnd
<1>2. /\ cur \in UserTasks /\ curproc \in Procs /\ Live(cur) /\ AtHome(cur)
      /\ procs[curproc].tasks = {cur}
  BY <1>1, CurFine, Zenon
<1>3. procs \in [Procs -> ProcType] /\ home \in [UserTasks -> Procs] /\ sched \in SchedType /\ QueueInv(sched)
  BY <1>1, Typed, Before, Zenon
<1>4. PICK s \in SchedType :
          /\ s = Kill(sched, {cur}) /\ QueueInv(s) /\ s.state[s.curtask] # "Pending"
          /\ \A t \in UserTasks : s.state[t] = IF t = cur THEN "Zombie" ELSE sched.state[t]
  <2>1. /\ Kill(sched, {cur}) \in SchedType /\ QueueInv(Kill(sched, {cur}))
        /\ Kill(sched, {cur}).state[Kill(sched, {cur}).curtask] # "Pending"
    BY <1>1, <1>2, KillKeeps, Zenon
  <2>2. Kill(sched, {cur}).state = [t \in Tasks |-> IF t \in {cur} THEN "Zombie" ELSE sched.state[t]]
    BY <1>2, <1>3, KillSound
  <2>3. \A t \in UserTasks : Kill(sched, {cur}).state[t] = IF t = cur THEN "Zombie" ELSE sched.state[t]
    BY <2>2, Zenon DEF Tasks
  <2> QED
    BY <2>1, <2>3, Zenon
<1>5. PICK pr1 : pr1 = [procs EXCEPT ![curproc].state = "Zombie"]
  BY Zenon
<1>6. /\ pr1[curproc].state = "Zombie" /\ pr1[curproc].tasks = {cur}
      /\ \A x \in Procs : x # curproc => pr1[x] = procs[x]
  BY <1>2, <1>3, <1>5, Zenon DEF ProcType
<1>7. \A x \in Procs : Exists(pr1, x) <=> Exists(procs, x)
  BY <1>2, <1>6, Zenon DEF AtHome, Exists, curproc
<1>8. PICK q \in Procs : q = procs[curproc].parent /\ Exists(pr1, q) /\ q # curproc
  <2>1. Exists(procs, curproc)
    BY <1>2, Zenon DEF AtHome, Exists, curproc
  <2>2. Exists(procs, procs[curproc].parent) /\ procs[curproc].parent < curproc
    BY <1>1, <1>2, <2>1, Zenon DEF IInv, ParentExists, PidsInv
  <2>3. procs[curproc].parent \in Procs /\ procs[curproc].parent # curproc
    BY <2>2, <1>2, ProcsAssumption DEF Exists
  <2> QED
    BY <1>7, <2>2, <2>3, Zenon
<1>9. OneTask(q)
  BY <1>7, <1>8, Zenon DEF OneInv
<1>10. pr1[q].tasks # {} /\ pr1[q].tasks \subseteq UserTasks
  BY <1>6, <1>8, <1>9, Zenon DEF OneTask
<1>11. ProcessExit(curproc, s, procs) /\ UNCHANGED <<home, pc, target, killsig>>
  BY <1>2, <1>4, Zenon DEF ExitGroup
<1>12. procs' = pr1 /\ \E d \in pr1[q].tasks : Switch(Wakeup(s, d), pr1)
  BY <1>5, <1>8, <1>10, <1>11, Zenon DEF ProcessExit
<1>13. PICK d \in UserTasks : Switch(Wakeup(s, d), pr1)
  BY <1>10, <1>12, Zenon
<1>14. PICK v \in SchedType : v = Wakeup(s, d) /\ QueueInv(v)
           /\ v.state = IF s.state[d] = "Pending" THEN [s.state EXCEPT ![d] = "Ready"] ELSE s.state
  <2>1. /\ Wakeup(s, d) \in SchedType /\ QueueInv(Wakeup(s, d))
        /\ Wakeup(s, d).state = IF s.state[d] = "Pending" THEN [s.state EXCEPT ![d] = "Ready"] ELSE s.state
    BY <1>4, WakeupSound, Zenon
  <2> QED
    BY <2>1, Zenon
<1>15. \A t \in UserTasks :
          v.state[t] = IF t = d /\ s.state[d] = "Pending" THEN "Ready" ELSE s.state[t]
  BY <1>14, Zenon DEF SchedType, Tasks
<1>16. ASSUME NEW t \in UserTasks, v.state[t] \notin {"None", "Zombie"}
       PROVE  Live(t) /\ t # cur /\ home[t] # curproc /\ home[t] \in Procs
  <2>1. Live(t) /\ t # cur
    BY <1>4, <1>15, <1>16, Zenon DEF Live
  <2>2. home[t] # curproc
    BY <1>2, <2>1, Alone, Zenon DEF curproc
  <2> QED
    BY <1>3, <2>1, <2>2, Zenon
<1>17. ASSUME NEW t \in UserTasks, Runnable(v, t) PROVE Exists(pr1, home[t])
  <2>1. Live(t) /\ home[t] \in Procs
    BY <1>16, <1>17, Zenon DEF Runnable
  <2> QED
    BY <1>7, <2>1, Zenon DEF OneInv, AtHome, Exists
<1>18. fault' = "none" /\ sched'.state = v.state
  BY <1>13, <1>14, <1>17, SwitchFine, Zenon
<1>19. ASSUME NEW x \in Procs, Exists(procs', x) PROVE OneTask(x)'
  <2>1. PICK u \in UserTasks : procs[x].tasks = {u} /\ home[u] = x /\ sched.state[u] # "None"
    BY <1>7, <1>12, <1>19, Zenon DEF OneInv, OneTask
  <2>2. procs'[x].tasks = {u}
    BY <1>2, <1>6, <1>12, <2>1, Zenon
  <2>3. sched'.state[u] # "None"
    BY <1>4, <1>15, <1>18, <2>1, Zenon
  <2> QED
    BY <1>11, <2>1, <2>2, <2>3, Zenon DEF OneTask
<1>20. ASSUME NEW x \in UserTasks, Live(x)'
       PROVE  AtHome(x)' /\ (pc'[x] = "wait" /\ target'[x] # 0 => Exists(procs', target'[x]))
  <2>1. Live(x) /\ home[x] # curproc /\ home[x] \in Procs
    BY <1>16, <1>18, <1>20, Zenon DEF Live
  <2>2. AtHome(x)'
    BY <1>6, <1>11, <1>12, <2>1, Zenon DEF OneInv, AtHome
  <2>3. ASSUME pc[x] = "wait", target[x] # 0 PROVE Exists(procs', target[x])
    BY <1>7, <1>12, <2>1, <2>3, Zenon DEF OneInv, Exists
  <2> QED
    BY <1>11, <2>2, <2>3, Zenon
<1>21. procs'[1].state = "Init"
  BY <1>1, <1>6, <1>12, ProcsAssumption, Zenon DEF OneInv
<1> QED
  BY <1>11, <1>18, <1>19, <1>20, <1>21, Zenon DEF OneInv

\* zombieExit: nobody else waits for the process that is deleted.
LEMMA ReapFine ==
    ASSUME IInv, OneInv, pc[cur] # "idle", NEW z \in Procs, procs[z].state = "Zombie",
           procs[z].parent = curproc, Reap(z), home' = home, killsig' = killsig,
           \A t \in UserTasks : t # cur => target'[t] = target[t]
    PROVE  OneInv'
<1>1. cur \in UserTasks /\ curproc \in Procs /\ Live(cur) /\ AtHome(cur)
  BY CurFine, Zenon
<1>2. procs \in [Procs -> ProcType] /\ home \in [UserTasks -> Procs] /\ pc \in [Tasks -> Places]
  BY Typed, Zenon
<1>3. /\ procs'[z].state = "Reaped"
      /\ \A x \in Procs : x # z => procs'[x].state = procs[x].state /\ procs'[x].tasks = procs[x].tasks
  BY <1>2, Zenon DEF Reap, ProcType
<1>4. UNCHANGED <<sched, fault>> /\ \A t \in UserTasks : pc'[t] = IF t = cur THEN "trap" ELSE pc[t]
  BY <1>1, <1>2, Zenon DEF Reap, Tasks
<1>5. ASSUME NEW x \in Procs, Exists(procs', x) PROVE OneTask(x)'
  <2>1. x # z
    BY <1>3, <1>5, Zenon DEF Exists
  <2>2. Exists(procs, x)
    BY <1>3, <1>5, <2>1, Zenon DEF Exists
  <2>3. OneTask(x)
    BY <2>2, Zenon DEF OneInv
  <2> QED
    BY <1>3, <1>4, <2>1, <2>3, Zenon DEF OneTask
<1>6. ASSUME NEW x \in UserTasks, Live(x)'
      PROVE  AtHome(x)' /\ (pc'[x] = "wait" /\ target'[x] # 0 => Exists(procs', target'[x]))
  <2>1. Live(x) /\ AtHome(x) /\ home[x] \in Procs
    BY <1>2, <1>4, <1>6, Zenon DEF Live, OneInv
  <2>2. AtHome(x)'
    BY <1>3, <2>1, Zenon DEF AtHome
  <2>3. ASSUME pc'[x] = "wait", target'[x] # 0 PROVE Exists(procs', target'[x])
    <3>1. x # cur /\ pc[x] = "wait" /\ target'[x] = target[x] /\ target[x] # 0
      BY <1>4, <2>3, Zenon
    <3>2. Exists(procs, target[x]) /\ target[x] \in Procs /\ Exists(procs, home[x])
      BY <2>1, <3>1, Zenon DEF OneInv, Exists, AtHome
    <3>3. target[x] # z
      <4>1. procs[target[x]].parent = home[x]
        BY <3>1, <3>2, Zenon DEF IInv, TasksInv
      <4>2. home[x] # home[cur]
        BY <1>1, <2>1, <3>1, Alone, Zenon
      <4> QED
        BY <4>1, <4>2, Zenon DEF curproc
    <3> QED
      BY <1>3, <3>1, <3>2, <3>3, Zenon DEF Exists
  <2> QED
    BY <2>2, <2>3, Zenon
<1>7. procs'[1].state = "Init" /\ \A x \in UserTasks : pc'[x] # "killed"
  BY <1>3, <1>4, ProcsAssumption, Zenon DEF OneInv
<1> QED
  BY <1>4, <1>5, <1>6, <1>7, Zenon DEF OneInv

\* The loop of waitpid(-1).
LEMMA WaitAnyLoopFine ==
    ASSUME IInv, OneInv, pc[cur] # "idle", WaitAnyLoop, home' = home, killsig' = killsig,
           target'[cur] = 0, \A t \in UserTasks : t # cur => target'[t] = target[t]
    PROVE  OneInv'
<1> DEFINE Z == Zombies(getChilds(curproc))
<1>1. ASSUME pc' = [pc EXCEPT ![cur] = "trap"], UNCHANGED <<sched, procs, fault>>
      PROVE  OneInv'
  BY <1>1, GoOnFine, Zenon
<1>2. ASSUME Z # {}, Reap(Least(Z))
      PROVE  OneInv'
  <2>1. Z \in SUBSET Nat
    BY ProcsAssumption, Zenon DEF Zombies, getChilds
  <2>2. Least(Z) \in Z
    BY <1>2, <2>1, LeastIs, Zenon
  <2>3. Least(Z) \in Procs /\ procs[Least(Z)].state = "Zombie" /\ procs[Least(Z)].parent = curproc
    BY <2>2, Zenon DEF Zombies, getChilds
  <2> QED
    BY <1>2, <2>3, ReapFine, Zenon
<1>3. ASSUME WaitSleep
      PROVE  OneInv'
  BY <1>3, WaitSleepFine, Zenon
<1> QED
  BY <1>1, <1>2, <1>3, Zenon DEF WaitAnyLoop

\* The loop of waitpid for one child.
LEMMA WaitPidLoopFine ==
    ASSUME IInv, OneInv, pc[cur] # "idle", NEW p \in Procs, WaitPidLoop(p),
           home' = home, killsig' = killsig, Exists(procs, p), procs[p].parent = curproc,
           target'[cur] = p, \A t \in UserTasks : t # cur => target'[t] = target[t]
    PROVE  OneInv'
<1>1. ASSUME procs[p].state = "Zombie", Reap(p)
      PROVE  OneInv'
  BY <1>1, ReapFine, Zenon
<1>2. ASSUME WaitSleep
      PROVE  OneInv'
  BY <1>2, WaitSleepFine, Zenon
<1> QED
  BY <1>1, <1>2, Zenon DEF WaitPidLoop

\* Every step keeps the one task of each process where it belongs.
LEMMA StepFine ==
    ASSUME Calls = {}, IInv, OneInv, Next
    PROVE  OneInv'
<1>1. CASE Tick
  BY <1>1, TickFine, Zenon
<1>2. CASE Fork
  BY <1>2, ForkFine, Zenon
<1>3. CASE ExitGroup
  BY <1>3, ExitGroupFine, Zenon
<1>4. CASE WaitAny
  <2>1. cur \in UserTasks /\ pc[cur] # "idle"
    BY <1>4, CurFine, Zenon DEF WaitAny, Syscall
  <2>2. /\ WaitAnyLoop /\ home' = home /\ killsig' = killsig
        /\ target'[cur] = 0 /\ \A t \in UserTasks : t # cur => target'[t] = target[t]
    BY <1>4, <2>1, Typed, Zenon DEF WaitAny
  <2> QED
    BY <2>1, <2>2, WaitAnyLoopFine, Zenon
<1>5. ASSUME NEW p \in Procs, WaitPid(p)
      PROVE  OneInv'
  <2>1. cur \in UserTasks /\ pc[cur] # "idle"
    BY <1>5, CurFine, Zenon DEF WaitPid, Syscall
  <2>2. /\ WaitPidLoop(p) /\ home' = home /\ killsig' = killsig
        /\ Exists(procs, p) /\ procs[p].parent = curproc
        /\ target'[cur] = p /\ \A t \in UserTasks : t # cur => target'[t] = target[t]
    BY <1>5, <2>1, Typed, Zenon DEF WaitPid, getChilds
  <2> QED
    BY <2>1, <2>2, WaitPidLoopFine, Zenon
<1>6. CASE WaitResume
  <2>1. /\ pc[cur] = "wait" /\ UNCHANGED <<home, target, killsig>>
        /\ cur \in UserTasks /\ Live(cur) /\ AtHome(cur) /\ curproc \in Procs
        /\ target[cur] \in Procs \cup {0}
    BY <1>6, CurFine, Typed, Zenon DEF WaitResume
  <2>2. CASE target[cur] = 0
    BY <1>6, <2>1, <2>2, WaitAnyLoopFine, Zenon DEF WaitResume
  <2>3. CASE target[cur] # 0
    <3>1. Exists(procs, target[cur]) /\ Exists(procs, curproc)
      BY <2>1, <2>3, Zenon DEF OneInv, AtHome, Exists, curproc
    <3>2. procs[target[cur]].parent = curproc
      BY <2>1, <2>3, <3>1, Zenon DEF IInv, TasksInv, curproc
    <3> QED
      BY <1>6, <2>1, <2>3, <3>1, <3>2, WaitPidLoopFine, Zenon DEF WaitResume
  <2> QED
    BY <2>2, <2>3, Zenon
<1>7. CASE TrapReturn
  BY <1>7, GoOnFine, Zenon DEF TrapReturn
<1>8. ~TrapKilled
  BY Zenon DEF TrapKilled, OneInv
<1>9. ~KilledResume
  BY CurFine, Zenon DEF KilledResume, OneInv
<1>10. ~CloneThread /\ ~Exit /\ \A p \in Procs : ~KillProc(p)
  BY Zenon DEF CloneThread, Exit, KillProc
<1> QED
  BY <1>1, <1>2, <1>3, <1>4, <1>5, <1>6, <1>7, <1>8, <1>9, <1>10, Zenon DEF Next

(***************************************************************************)
(* For any number of processes of one thread that end by exit_group and    *)
(* send no signals, the first of which does not exit: no assertion of the  *)
(* process code fails, and no null or freed process is used.               *)
(***************************************************************************)
THEOREM NeverFault == ASSUME Calls = {} PROVE Spec => []NoFault
<1>1. Init => OneInv
  <2> SUFFICES ASSUME Init PROVE OneInv
    BY Zenon
  <2>1. 1 \in UserTasks /\ 1 \in Procs /\ UserTasks \subseteq Tasks /\ 1 # Idle
    BY TidsAssumption, ProcsAssumption, IdleAssumption, Zenon DEF Tasks
  <2>2. \A p \in Procs : /\ p = 1 => procs[p].state = "Init" /\ procs[p].tasks = {1}
                         /\ p # 1 => procs[p].state = "None"
    BY Zenon DEF Init
  <2>3. \A t \in UserTasks : sched.state[t] = IF t = 1 THEN "Init" ELSE "None"
    BY <2>1, TidsAssumption, IdleAssumption, Zenon DEF Init, SchedInit, Boot
  <2>4. \A t \in UserTasks : pc[t] = "user" /\ home[t] = 1
    BY <2>1, IdleAssumption, Zenon DEF Init
  <2>5. fault = "none" /\ killsig = {}
    BY Zenon DEF Init
  <2>6. \A p \in Procs : Exists(procs, p) => OneTask(p)
    BY <2>1, <2>2, <2>3, <2>4 DEF Exists, OneTask
  <2>7. \A t \in UserTasks : Live(t) => AtHome(t)
    BY <2>1, <2>2, <2>3, <2>4 DEF Live, AtHome
  <2> QED
    BY <2>1, <2>2, <2>4, <2>5, <2>6, <2>7, Zenon DEF OneInv
<1>2. IInv /\ OneInv /\ [Next]_vars => OneInv'
  <2>1. ASSUME OneInv, UNCHANGED vars PROVE OneInv'
    BY <2>1, Zenon DEF vars, OneInv, OneTask, AtHome, Live, Exists
  <2> QED
    BY <2>1, StepFine, Zenon
<1>3. OneInv => NoFault
  BY Zenon DEF OneInv, NoFault
<1> QED
  BY <1>1, <1>2, <1>3, Invariant, PTL DEF Spec
=============================================================================
