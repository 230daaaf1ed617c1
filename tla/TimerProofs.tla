----------------------------- MODULE TimerProofs -----------------------------
(***************************************************************************)
(* EventsExact and NotEarly of Timer, for any tasks, durations and period  *)
(* of the tick.                                                            *)
(***************************************************************************)
EXTENDS Timer, SchedProofs

Event == [task : Tasks, left : Nat]

\* The queue q holds no event of task t; exactly one, due in m.
None(q, t) == \A i \in DOMAIN q : q[i].task # t

Only(q, t, m) ==
    \E i \in DOMAIN q : /\ q[i].task = t /\ q[i].left = m
                        /\ \A j \in DOMAIN q : q[j].task = t => j = i

\* Timer::add puts the event somewhere into the queue and moves what is behind.
Inserted(q, r, n, e) ==
    /\ DOMAIN r = 1 .. Len(q) + 1 /\ DOMAIN q = 1 .. Len(q) /\ Len(q) \in Nat /\ n \in 0 .. Len(q)
    /\ \A i \in 1 .. n : r[i] = q[i]
    /\ r[n + 1] = e
    /\ \A i \in n + 1 .. Len(q) : r[i + 1] = q[i]

\* It is put behind as many events as there are before it.
LEMMA AddIs ==
    ASSUME NEW q \in Seq(Event), NEW e \in Event
    PROVE  add(q, e) \in Seq(Event) /\ \E n : Inserted(q, add(q, e), n, e)
<1>1. PICK k \in Nat : k = Len(q)
  OBVIOUS
<1>2. DOMAIN q = 1 .. k /\ \A i \in 1 .. k : q[i] \in Event
  BY <1>1
<1> DEFINE before == {i \in DOMAIN q : q[i].left < e.left \/ (q[i].left = e.left /\ e.task # Idle)}
<1>3. PICK n \in 0 .. k : n = Cardinality(before)
  <2>1. IsFiniteSet(1 .. k) /\ Cardinality(1 .. k) = k
    <3>1. 1 \in Int /\ k \in Int /\ (k - 1) + 1 = k /\ (1 > k => k = 0)
      OBVIOUS
    <3> QED
      BY <3>1, FS_Interval
  <2>2. before \in SUBSET (1 .. k)
    BY <1>2
  <2> HIDE DEF before
  <2>3. IsFiniteSet(before) /\ Cardinality(before) <= k
    BY <2>1, <2>2, FS_Subset
  <2>4. Cardinality(before) \in Nat
    BY <2>3, FS_CardinalityType
  <2> QED
    BY <2>3, <2>4
<1> DEFINE r == [i \in 1 .. k + 1 |-> IF i <= n THEN q[i] ELSE IF i = n + 1 THEN e ELSE q[i - 1]]
<1>4. add(q, e) = r
  BY <1>1, <1>3 DEF add
<1>5. \A i \in 1 .. k + 1 : r[i] \in Event
  <2> SUFFICES ASSUME NEW i \in 1 .. k + 1 PROVE r[i] \in Event
    OBVIOUS
  <2>1. CASE i <= n
    BY <1>2, <2>1
  <2>2. CASE i = n + 1
    BY <2>2
  <2>3. CASE i > n + 1
    <3>1. i - 1 \in 1 .. k /\ r[i] = q[i - 1]
      BY <2>3
    <3> QED
      BY <1>2, <3>1
  <2> QED
    BY <2>1, <2>2, <2>3
<1>6. /\ DOMAIN r = 1 .. k + 1 /\ \A i \in 1 .. n : r[i] = q[i]
      /\ r[n + 1] = e
      /\ \A i \in n + 1 .. k : r[i + 1] = q[i]
  <2>1. DOMAIN r = 1 .. k + 1
    OBVIOUS
  <2>2. \A i \in 1 .. n : i \in 1 .. k + 1 /\ r[i] = q[i]
    OBVIOUS
  <2>3. n + 1 \in 1 .. k + 1 /\ ~(n + 1 <= n) /\ r[n + 1] = e
    OBVIOUS
  <2>4. ASSUME NEW i \in n + 1 .. k PROVE r[i + 1] = q[i]
    <3>1. i + 1 \in 1 .. k + 1 /\ ~(i + 1 <= n) /\ i + 1 # n + 1 /\ (i + 1) - 1 = i
      OBVIOUS
    <3> QED
      BY <3>1
  <2> QED
    BY <2>1, <2>2, <2>3, <2>4
<1>7. r \in [1 .. k + 1 -> Event] /\ k + 1 \in Nat
  BY <1>5
<1> HIDE DEF r
<1>8. r \in Seq(Event)
  BY <1>7
<1>9. Inserted(q, r, n, e)
  BY <1>1, <1>2, <1>6 DEF Inserted
<1> QED
  BY <1>4, <1>8, <1>9

\* An event of another task changes nothing for t.
LEMMA AddNone ==
    ASSUME NEW q \in Seq(Event), NEW e \in Event, NEW t, None(q, t), e.task # t
    PROVE  None(add(q, e), t)
<1>1. PICK r, n : r = add(q, e) /\ Inserted(q, r, n, e)
  BY AddIs, Zenon
<1> SUFFICES ASSUME NEW i \in DOMAIN r PROVE r[i].task # t
  BY <1>1 DEF None
<1>2. PICK k \in Nat : k = Len(q) /\ DOMAIN q = 1 .. k /\ n \in 0 .. k /\ i \in 1 .. k + 1
  BY <1>1 DEF Inserted
<1>3. CASE i <= n
  BY <1>1, <1>2, <1>3 DEF Inserted, None
<1>4. CASE i = n + 1
  BY <1>1, <1>2, <1>4 DEF Inserted
<1>5. CASE i > n + 1
  <2>1. PICK j \in n + 1 .. k : i = j + 1
    <3>1. i - 1 \in n + 1 .. k /\ i = (i - 1) + 1
      BY <1>2, <1>5
    <3> QED
      BY <3>1
  <2>2. r[i] = q[j] /\ j \in 1 .. k
    BY <1>1, <1>2, <2>1 DEF Inserted
  <2> QED
    BY <1>2, <2>2 DEF None
<1> QED
  BY <1>2, <1>3, <1>4, <1>5

\* Nor where t has an event.
LEMMA AddOnly ==
    ASSUME NEW q \in Seq(Event), NEW e \in Event, NEW t, NEW m, Only(q, t, m), e.task # t
    PROVE  Only(add(q, e), t, m)
<1>1. PICK r, n : r = add(q, e) /\ Inserted(q, r, n, e)
  BY AddIs, Zenon
<1>2. PICK k \in Nat : k = Len(q) /\ DOMAIN q = 1 .. k /\ n \in 0 .. k /\ DOMAIN r = 1 .. k + 1
  BY <1>1 DEF Inserted
<1>3. PICK i \in 1 .. k : q[i].task = t /\ q[i].left = m /\ \A j \in 1 .. k : q[j].task = t => j = i
  <2>1. DOMAIN q = 1 .. k
    BY <1>2
  <2> QED
    BY <2>1, Zenon DEF Only
<1>4. PICK p \in 1 .. k + 1 : r[p] = q[i] /\ p = IF i <= n THEN i ELSE i + 1
  <2>1. CASE i <= n
    <3>1. r[i] = q[i] /\ i \in 1 .. k + 1
      BY <1>1, <1>2, <2>1 DEF Inserted
    <3> QED
      BY <2>1, <3>1
  <2>2. CASE ~(i <= n)
    <3>1. i \in n + 1 .. k
      BY <1>2, <2>2
    <3>2. r[i + 1] = q[i] /\ i + 1 \in 1 .. k + 1
      BY <1>1, <1>2, <3>1 DEF Inserted
    <3> QED
      BY <2>2, <3>2
  <2> QED
    BY <2>1, <2>2
<1>5. ASSUME NEW l \in 1 .. k + 1, r[l].task = t PROVE l = p
  <2>1. CASE l <= n
    <3>1. l \in 1 .. k /\ r[l] = q[l]
      BY <1>1, <1>2, <2>1 DEF Inserted
    <3> QED
      BY <1>3, <1>4, <1>5, <2>1, <3>1
  <2>2. CASE l = n + 1
    BY <1>1, <1>5, <2>2 DEF Inserted
  <2>3. CASE l > n + 1
    <3>1. PICK j \in n + 1 .. k : l = j + 1
      <4>1. l - 1 \in n + 1 .. k /\ l = (l - 1) + 1
        BY <1>2, <2>3
      <4> QED
        BY <4>1
    <3>2. r[l] = q[j] /\ j \in 1 .. k
      BY <1>1, <1>2, <3>1 DEF Inserted
    <3>3. j = i
      BY <1>3, <1>5, <3>2
    <3> QED
      BY <1>2, <1>4, <3>1, <3>3
  <2> QED
    BY <1>2, <2>1, <2>2, <2>3
<1>6. Only(r, t, m)
  BY <1>2, <1>3, <1>4, <1>5 DEF Only
<1> QED
  BY <1>1, <1>6

\* The new event of a task that had none.
LEMMA AddNew ==
    ASSUME NEW q \in Seq(Event), NEW e \in Event, None(q, e.task)
    PROVE  Only(add(q, e), e.task, e.left)
<1>1. PICK r, n : r = add(q, e) /\ Inserted(q, r, n, e)
  BY AddIs, Zenon
<1>2. PICK k \in Nat : k = Len(q) /\ DOMAIN q = 1 .. k /\ n \in 0 .. k /\ DOMAIN r = 1 .. k + 1
  BY <1>1 DEF Inserted
<1>3. n + 1 \in 1 .. k + 1 /\ r[n + 1] = e
  BY <1>1, <1>2 DEF Inserted
<1>4. ASSUME NEW l \in 1 .. k + 1, r[l].task = e.task PROVE l = n + 1
  <2>1. CASE l <= n
    <3>1. l \in 1 .. k /\ r[l] = q[l]
      BY <1>1, <1>2, <2>1 DEF Inserted
    <3> QED
      BY <1>2, <1>4, <3>1 DEF None
  <2>2. CASE l > n + 1
    <3>1. PICK j \in n + 1 .. k : l = j + 1
      <4>1. l - 1 \in n + 1 .. k /\ l = (l - 1) + 1
        BY <1>2, <2>2
      <4> QED
        BY <4>1
    <3>2. r[l] = q[j] /\ j \in 1 .. k
      BY <1>1, <1>2, <3>1 DEF Inserted
    <3> QED
      BY <1>2, <1>4, <3>2 DEF None
  <2> QED
    BY <1>2, <2>1, <2>2
<1>5. Only(r, e.task, e.left)
  BY <1>2, <1>3, <1>4 DEF Only
<1> QED
  BY <1>1, <1>5

\* The event at the front is taken off.
LEMMA Popped ==
    ASSUME NEW q \in Seq(Event), q # <<>>
    PROVE  /\ Tail(q) \in Seq(Event) /\ Head(q) = q[1] /\ q[1] \in Event
           /\ \E k \in Nat : /\ DOMAIN q = 1 .. k + 1 /\ DOMAIN Tail(q) = 1 .. k
                             /\ \A i \in 1 .. k : Tail(q)[i] = q[i + 1]
<1>1. Tail(q) \in Seq(Event) /\ Head(q) = q[1] /\ q[1] \in Event
  OBVIOUS
<1>2. PICK k \in Nat : Len(q) = k + 1
  <2>1. Len(q) \in Nat /\ Len(q) # 0
    OBVIOUS
  <2>2. Len(q) - 1 \in Nat /\ Len(q) = (Len(q) - 1) + 1
    BY <2>1
  <2> QED
    BY <2>2
<1>3. DOMAIN q = 1 .. k + 1 /\ DOMAIN Tail(q) = 1 .. k /\ \A i \in 1 .. k : Tail(q)[i] = q[i + 1]
  BY <1>2
<1> QED
  BY <1>1, <1>3, Zenon

\* Where t has no event, it has none behind the front.
LEMMA PopNone ==
    ASSUME NEW q \in Seq(Event), q # <<>>, NEW t, None(q, t)
    PROVE  None(Tail(q), t)
<1>1. PICK k \in Nat, r \in Seq(Event) : /\ r = Tail(q) /\ DOMAIN q = 1 .. k + 1 /\ DOMAIN r = 1 .. k
                                         /\ \A i \in 1 .. k : r[i] = q[i + 1]
  BY Popped, Zenon
<1>2. \A i \in 1 .. k : i + 1 \in 1 .. k + 1
  OBVIOUS
<1>3. None(r, t)
  BY <1>1, <1>2 DEF None
<1> QED
  BY <1>1, <1>3

\* Where t has one, it stays, unless it is the one that is taken off.
LEMMA PopOnly ==
    ASSUME NEW q \in Seq(Event), q # <<>>, NEW t, NEW m, Only(q, t, m)
    PROVE  /\ Head(q).task # t => Only(Tail(q), t, m)
           /\ Head(q).task = t => None(Tail(q), t) /\ Head(q).left = m
<1>1. PICK k \in Nat, r \in Seq(Event) : /\ r = Tail(q) /\ DOMAIN q = 1 .. k + 1 /\ DOMAIN r = 1 .. k
                                         /\ \A i \in 1 .. k : r[i] = q[i + 1]
  BY Popped, Zenon
<1>2. Head(q) = q[1]
  BY Popped
<1>3. PICK i \in 1 .. k + 1 :
          q[i].task = t /\ q[i].left = m /\ \A j \in 1 .. k + 1 : q[j].task = t => j = i
  BY <1>1, Zenon DEF Only
<1>4. CASE Head(q).task = t
  <2>1. i = 1
    BY <1>2, <1>3, <1>4
  <2>2. ASSUME NEW j \in 1 .. k PROVE r[j].task # t
    <3>1. j + 1 \in 1 .. k + 1 /\ j + 1 # 1
      OBVIOUS
    <3> QED
      BY <1>1, <1>3, <2>1, <3>1
  <2>3. None(r, t)
    BY <1>1, <2>2 DEF None
  <2> QED
    BY <1>1, <1>2, <1>3, <1>4, <2>1, <2>3
<1>5. CASE Head(q).task # t
  <2>1. PICK p \in 1 .. k : i = p + 1
    <3>1. i # 1
      BY <1>2, <1>3, <1>5
    <3>2. i - 1 \in 1 .. k /\ i = (i - 1) + 1
      BY <3>1
    <3> QED
      BY <3>2
  <2>2. r[p] = q[i]
    BY <1>1, <2>1
  <2>3. ASSUME NEW j \in 1 .. k, r[j].task = t PROVE j = p
    <3>1. j + 1 \in 1 .. k + 1 /\ r[j] = q[j + 1]
      BY <1>1
    <3>2. j + 1 = i
      BY <1>3, <2>3, <3>1
    <3> QED
      BY <2>1, <3>2
  <2>4. r[p].task = t /\ r[p].left = m /\ p \in DOMAIN r
    BY <1>1, <1>3, <2>2
  <2>5. \A j \in DOMAIN r : r[j].task = t => j = p
    BY <1>1, <2>3
  <2>6. Only(r, t, m)
    BY <2>4, <2>5, Zenon DEF Only
  <2> QED
    BY <1>1, <1>5, <2>6
<1> QED
  BY <1>4, <1>5

-----------------------------------------------------------------------------
(***************************************************************************)
(* The inductive invariant.  A task that may run has no event and owes no  *)
(* time; one that sleeps is in nanosleep, and its one event is due when    *)
(* the time it owes is over.  Of a Zombie nothing is said: its event stays *)
(* in the queue.                                                           *)
(***************************************************************************)
SleepInv ==
    \A t \in UserTasks :
        /\ sched.state[t] # "None"
        /\ Runnable(sched, t) => None(events, t) /\ owed[t] = 0
        /\ sched.state[t] = "Pending" => Only(events, t, owed[t]) /\ pc[t] = "sleep"

PcInv == pc[Idle] \in {"loop", "wfi"} /\ \A t \in UserTasks : pc[t] \in {"user", "sleep"}

IInv == TypeOK /\ QueueInv(sched) /\ CurRunnable(sched) /\ PcInv /\ SleepInv

\* schedule(), with s the scheduler's state before it.
LEMMA SwitchSound ==
    ASSUME PcInv, pc \in [Tasks -> {"user", "sleep", "loop", "wfi"}],
           NEW s \in SchedType, QueueInv(s), NEW at, SwitchFrom(s, at),
           s.curtask = Idle => at = "loop", s.curtask # Idle => at \in {"user", "sleep"}
    PROVE  /\ sched' \in SchedType /\ QueueInv(sched') /\ CurRunnable(sched')
           /\ sched'.state = s.state /\ handling' \in BOOLEAN
           /\ pc' \in [Tasks -> {"user", "sleep", "loop", "wfi"}] /\ PcInv'
           /\ \A t \in UserTasks : pc'[t] = IF t = s.curtask THEN at ELSE pc[t]
<1>1. /\ sched' \in SchedType /\ QueueInv(sched') /\ CurRunnable(sched') /\ sched'.state = s.state
  BY ScheduleSound DEF SwitchFrom
<1>2. PICK next : next = Schedule(s).curtask
  OBVIOUS
<1>3. next \in Tasks /\ s.curtask \in Tasks /\ at \in {"user", "sleep", "loop"}
  BY <1>2, ScheduleSound DEF SchedType
<1>4. PICK pcs : pcs = [pc EXCEPT ![s.curtask] = at]
  OBVIOUS
<1>5. /\ pcs \in [Tasks -> {"user", "sleep", "loop", "wfi"}]
      /\ \A t \in Tasks : pcs[t] = IF t = s.curtask THEN at ELSE pc[t]
  BY <1>3, <1>4
<1>6. Idle \in Tasks /\ UserTasks \subseteq Tasks /\ Idle \notin UserTasks /\ Tasks = UserTasks \cup {Idle}
  BY IdleAssumption DEF Tasks
<1>7. pcs[Idle] \in {"loop", "wfi"} /\ \A t \in UserTasks : pcs[t] \in {"user", "sleep"}
  BY <1>3, <1>5, <1>6 DEF PcInv
<1>8. pc' = IF pcs[next] = "loop" THEN [pcs EXCEPT ![next] = "wfi"] ELSE pcs
  BY <1>2, <1>4 DEF SwitchFrom
<1>9. handling' \in BOOLEAN
  BY Zenon DEF SwitchFrom
<1>10. pcs[next] = "loop" => next = Idle
  BY <1>3, <1>6, <1>7
<1>11. /\ pc' \in [Tasks -> {"user", "sleep", "loop", "wfi"}]
       /\ pc'[Idle] \in {"loop", "wfi"} /\ \A t \in UserTasks : pc'[t] = pcs[t]
  BY <1>3, <1>5, <1>6, <1>7, <1>8, <1>10
<1> QED
  BY <1>1, <1>5, <1>6, <1>7, <1>9, <1>11 DEF PcInv

\* Pass: the time left of every event and the time owed go down together.
LEMMA PassSound ==
    ASSUME IInv, Pass
    PROVE  IInv'
<1>1. \A n \in Nat : Less(n) \in Nat
  BY DEF Less
<1>2. events \in Seq(Event) /\ owed \in [UserTasks -> Nat] /\ armed \in Nat
  BY DEF IInv, TypeOK, Event
<1>3. PICK k \in Nat : k = Len(events)
  BY <1>2
<1>4. DOMAIN events = 1 .. k /\ \A i \in 1 .. k : events[i] \in Event
  BY <1>2, <1>3
<1>5. \A e \in Event : /\ [e EXCEPT !.left = Less(@)] \in Event
                       /\ [e EXCEPT !.left = Less(@)].task = e.task
                       /\ [e EXCEPT !.left = Less(@)].left = Less(e.left)
  BY <1>1 DEF Event
<1>6. events' = [i \in 1 .. k |-> [events[i] EXCEPT !.left = Less(@)]]
  BY <1>4 DEF Pass
<1>7. /\ events' \in [1 .. k -> Event]
      /\ \A i \in 1 .. k : events'[i].task = events[i].task /\ events'[i].left = Less(events[i].left)
  <2>1. \A i \in 1 .. k : events'[i] = [events[i] EXCEPT !.left = Less(@)]
    BY <1>6
  <2>2. \A i \in 1 .. k : [events[i] EXCEPT !.left = Less(@)] \in Event
    BY <1>4, <1>5
  <2> QED
    BY <1>4, <1>5, <1>6, <2>1, <2>2
<1>8. events' \in Seq(Event) /\ DOMAIN events' = 1 .. k
  BY <1>7
<1>9. owed' \in [UserTasks -> Nat] /\ armed' \in Nat /\ \A t \in UserTasks : owed'[t] = Less(owed[t])
  BY <1>1, <1>2 DEF Pass
<1>10. TypeOK'
  BY <1>8, <1>9 DEF IInv, TypeOK, Event, Pass
<1>11. ASSUME NEW t \in UserTasks, None(events, t) PROVE None(events', t)
  BY <1>4, <1>7, <1>8, <1>11 DEF None
<1>12. ASSUME NEW t \in UserTasks, Only(events, t, owed[t]) PROVE Only(events', t, owed'[t])
  <2>1. PICK i \in 1 .. k : /\ events[i].task = t /\ events[i].left = owed[t]
                            /\ \A j \in 1 .. k : events[j].task = t => j = i
    BY <1>4, <1>12, Zenon DEF Only
  <2>2. events'[i].task = t /\ events'[i].left = owed'[t] /\ i \in DOMAIN events'
    BY <1>7, <1>8, <1>9, <2>1
  <2>3. \A j \in DOMAIN events' : events'[j].task = t => j = i
    BY <1>7, <1>8, <2>1
  <2> QED
    BY <2>2, <2>3, Zenon DEF Only
<1>13. SleepInv'
  <2>1. Less(0) = 0
    BY DEF Less
  <2> QED
    BY <1>9, <1>11, <1>12, <2>1 DEF IInv, SleepInv, Pass, Runnable
<1> QED
  BY <1>10, <1>13 DEF IInv, Pass, PcInv

\* The callback of an event wakes its task.
LEMMA ExpireSound ==
    ASSUME IInv, NEW e, Expire(e)
    PROVE  IInv'
<1>1. events \in Seq(Event) /\ events # <<>> /\ e = Head(events) /\ e.left = 0 /\ e.task # Idle
  BY DEF IInv, TypeOK, Event, Expire, Due
<1>2. e \in Event /\ Tail(events) \in Seq(Event)
  BY <1>1, Popped
<1>3. e.task \in UserTasks
  BY <1>1, <1>2 DEF Event, Tasks
<1>4. PICK x \in UserTasks : x = e.task
  BY <1>3
<1>5. /\ sched' \in SchedType /\ QueueInv(sched') /\ sched'.curtask = sched.curtask
      /\ sched'.state = IF sched.state[x] = "Pending" THEN [sched.state EXCEPT ![x] = "Ready"] ELSE sched.state
  BY <1>4, WakeupSound DEF IInv, TypeOK, Expire, CurRunnable, Runnable
<1>6. sched.state \in [Tasks -> State] /\ sched.curtask \in Tasks /\ UserTasks \subseteq Tasks
  BY DEF IInv, TypeOK, SchedType, Tasks
<1>7. \A t \in Tasks : sched'.state[t] = IF t = x /\ sched.state[x] = "Pending" THEN "Ready" ELSE sched.state[t]
  BY <1>5, <1>6
<1>8. CurRunnable(sched')
  BY <1>5, <1>6, <1>7 DEF IInv, CurRunnable, Runnable
<1>9. events' = Tail(events) /\ UNCHANGED <<pc, armed, handling, owed>>
  BY DEF Expire
<1>10. TypeOK'
  BY <1>2, <1>5, <1>9 DEF IInv, TypeOK, Event
<1>11. ASSUME NEW t \in UserTasks
       PROVE  /\ sched'.state[t] # "None"
              /\ Runnable(sched', t) => None(events', t) /\ owed[t] = 0
              /\ sched'.state[t] = "Pending" => Only(events', t, owed[t]) /\ pc[t] = "sleep"
  <2>1. /\ sched.state[t] # "None"
        /\ Runnable(sched, t) => None(events, t) /\ owed[t] = 0
        /\ sched.state[t] = "Pending" => Only(events, t, owed[t]) /\ pc[t] = "sleep"
    BY DEF IInv, SleepInv
  <2>2. None(events, t) => None(events', t)
    BY <1>1, <1>9, PopNone
  <2>3. Only(events, t, owed[t]) =>
            /\ t # x => Only(events', t, owed[t])
            /\ t = x => None(events', t) /\ owed[t] = 0
    BY <1>1, <1>4, <1>9, PopOnly
  <2> QED
    BY <1>6, <1>7, <2>1, <2>2, <2>3 DEF Runnable
<1>12. SleepInv'
  BY <1>9, <1>11 DEF SleepInv
<1> QED
  BY <1>5, <1>8, <1>9, <1>10, <1>12 DEF IInv, PcInv

\* What holds of the current task.
LEMMA CurIs ==
    ASSUME IInv
    PROVE  /\ cur \in Tasks /\ (cur # Idle => cur \in UserTasks) /\ (pc[cur] = "user" => cur \in UserTasks)
           /\ cur \in UserTasks => cur # Idle /\ Runnable(sched, cur)
           /\ UserTasks \subseteq Tasks /\ sched.state \in [Tasks -> State]
BY IdleAssumption DEF IInv, TypeOK, SchedType, Tasks, cur, PcInv, CurRunnable

\* The tick is put back, and schedule() is called.
LEMMA TickSound ==
    ASSUME IInv, NEW e, Tick(e)
    PROVE  IInv'
<1>1. events \in Seq(Event) /\ events # <<>> /\ e = Head(events) /\ e.task = Idle
  BY DEF IInv, TypeOK, Event, Tick, Due
<1>2. PICK q \in Seq(Event) : q = Tail(events)
  BY <1>1, Popped
<1>3. [task |-> Idle, left |-> tickDuration] \in Event /\ [task |-> Idle, left |-> tickDuration].task = Idle
  BY TimerAssumption DEF Event, Tasks
<1>4. PICK x \in Event : x = [task |-> Idle, left |-> tickDuration] /\ x.task = Idle
  BY <1>3, Zenon
<1>5. events' = add(q, x) /\ UNCHANGED <<armed, owed>>
  BY <1>2, <1>4 DEF Tick, Rearmed
<1>6. events' \in Seq(Event)
  BY <1>5, AddIs
<1>7. PICK at : at = IF cur = Idle THEN "loop" ELSE "user"
  OBVIOUS
<1>8. SwitchFrom(sched, at) /\ sched \in SchedType /\ QueueInv(sched) /\ PcInv
      /\ pc \in [Tasks -> {"user", "sleep", "loop", "wfi"}]
      /\ (sched.curtask = Idle => at = "loop") /\ (sched.curtask # Idle => at \in {"user", "sleep"})
  BY <1>7 DEF Tick, IInv, TypeOK, cur
<1>9. /\ sched' \in SchedType /\ QueueInv(sched') /\ CurRunnable(sched')
      /\ sched'.state = sched.state /\ handling' \in BOOLEAN
      /\ pc' \in [Tasks -> {"user", "sleep", "loop", "wfi"}] /\ PcInv'
      /\ \A t \in UserTasks : pc'[t] = IF t = sched.curtask THEN at ELSE pc[t]
  BY <1>8, SwitchSound
<1>10. TypeOK'
  BY <1>5, <1>6, <1>9 DEF IInv, TypeOK, Event
<1>11. ASSUME NEW t \in UserTasks
       PROVE  /\ None(events, t) => None(events', t)
              /\ \A m : Only(events, t, m) => Only(events', t, m)
  <2>1. t # Idle
    BY IdleAssumption
  <2>2. None(events, t) => None(events', t)
    BY <1>1, <1>2, <1>4, <1>5, <2>1, PopNone, AddNone
  <2>3. ASSUME NEW m, Only(events, t, m) PROVE Only(events', t, m)
    <3>1. Only(q, t, m)
      BY <1>1, <1>2, <2>1, <2>3, PopOnly
    <3> QED
      BY <1>4, <1>5, <2>1, <3>1, AddOnly
  <2> QED
    BY <2>2, <2>3
<1>12. \A t \in UserTasks : sched.state[t] = "Pending" => pc'[t] = pc[t]
  BY <1>9 DEF IInv, CurRunnable, Runnable
<1>13. SleepInv'
  BY <1>5, <1>9, <1>11, <1>12 DEF IInv, SleepInv, Runnable
<1> QED
  BY <1>9, <1>10, <1>13 DEF IInv

\* nanosleep: the task had no event, and gets one for the time it asks for.
LEMMA nanoSleepSound ==
    ASSUME IInv, NEW d \in Durations, nanoSleep(d)
    PROVE  IInv'
<1>1. PICK c \in UserTasks : c = cur /\ c = sched.curtask /\ Runnable(sched, c) /\ c # Idle
  BY CurIs DEF nanoSleep, cur
<1>2. d \in Nat /\ UserTasks \subseteq Tasks
  BY TimerAssumption, InitTaskAssumption, CurIs
<1>3. Timeout(c, d) \in Event /\ Timeout(c, d).task = c /\ Timeout(c, d).left = d
  BY <1>2 DEF Timeout, Event
<1>4. PICK x \in Event : x = Timeout(c, d) /\ x.task = c /\ x.left = d
  BY <1>3, Zenon
<1>5. events \in Seq(Event) /\ owed \in [UserTasks -> Nat]
  BY DEF IInv, TypeOK, Event
<1>6. events' = add(events, x) /\ armed' = armed
  BY <1>1, <1>4 DEF nanoSleep
<1>7. events' \in Seq(Event)
  BY <1>5, <1>6, AddIs
<1>8. /\ owed' \in [UserTasks -> Nat] /\ owed'[c] = d
      /\ \A t \in UserTasks \ {c} : owed'[t] = owed[t]
  BY <1>1, <1>2, <1>5 DEF nanoSleep
<1>9. PICK s \in SchedType : /\ s = Sleep(sched, c) /\ QueueInv(s) /\ s.curtask = c
                             /\ s.state = [sched.state EXCEPT ![c] = "Pending"]
  <2>1. sched \in SchedType /\ QueueInv(sched)
    BY DEF IInv, TypeOK
  <2>2. /\ Sleep(sched, c) \in SchedType /\ QueueInv(Sleep(sched, c))
        /\ Sleep(sched, c).curtask = c
        /\ Sleep(sched, c).state = [sched.state EXCEPT ![c] = "Pending"]
    BY <1>1, <2>1, SleepSound
  <2> QED
    BY <2>2, Zenon
<1>10. SwitchFrom(s, "sleep")
  BY <1>1, <1>9 DEF nanoSleep
<1>11. PcInv /\ pc \in [Tasks -> {"user", "sleep", "loop", "wfi"}]
  BY DEF IInv, TypeOK
<1>12. /\ sched' \in SchedType /\ QueueInv(sched') /\ CurRunnable(sched')
       /\ sched'.state = s.state /\ handling' \in BOOLEAN
       /\ pc' \in [Tasks -> {"user", "sleep", "loop", "wfi"}] /\ PcInv'
       /\ \A t \in UserTasks : pc'[t] = IF t = c THEN "sleep" ELSE pc[t]
  BY <1>1, <1>9, <1>10, <1>11, SwitchSound
<1>13. TypeOK'
  BY <1>6, <1>7, <1>8, <1>12 DEF IInv, TypeOK, Event
<1>14. Only(events', c, d)
  <2>1. None(events, c)
    BY <1>1 DEF IInv, SleepInv
  <2> QED
    BY <1>4, <1>5, <1>6, <2>1, AddNew
<1>15. ASSUME NEW t \in UserTasks \ {c}
       PROVE  /\ None(events, t) => None(events', t)
              /\ \A m : Only(events, t, m) => Only(events', t, m)
  BY <1>4, <1>5, <1>6, AddNone, AddOnly
<1>16. /\ sched'.state[c] = "Pending"
       /\ \A t \in UserTasks \ {c} : sched'.state[t] = sched.state[t]
  BY <1>2, <1>9, <1>12, CurIs
<1>17. SleepInv'
  <2> SUFFICES ASSUME NEW t \in UserTasks
               PROVE  /\ sched'.state[t] # "None"
                      /\ Runnable(sched', t) => None(events', t) /\ owed'[t] = 0
                      /\ sched'.state[t] = "Pending" => Only(events', t, owed'[t]) /\ pc'[t] = "sleep"
    BY DEF SleepInv
  <2>1. CASE t = c
    BY <1>8, <1>12, <1>14, <1>16, <2>1 DEF Runnable
  <2>2. CASE t # c
    BY <1>8, <1>12, <1>15, <1>16, <2>2 DEF IInv, SleepInv, Runnable
  <2> QED
    BY <2>1, <2>2
<1> QED
  BY <1>12, <1>13, <1>17 DEF IInv

\* exit_group: the tasks of the process are Zombies, whatever they owe.
LEMMA exitGroupSound ==
    ASSUME IInv, NEW S \in SUBSET UserTasks, exitGroup(S)
    PROVE  IInv'
<1>1. PICK c \in UserTasks : c = cur /\ c = sched.curtask /\ c # Idle /\ c \in S
  BY CurIs DEF exitGroup, cur
<1>2. PICK s \in SchedType :
          /\ s = Kill(sched, S) /\ QueueInv(s) /\ s.curtask = c
          /\ s.state = [t \in Tasks |-> IF t \in S THEN "Zombie" ELSE sched.state[t]]
  <2>1. sched \in SchedType /\ QueueInv(sched)
    BY DEF IInv, TypeOK
  <2>2. /\ Kill(sched, S) \in SchedType /\ QueueInv(Kill(sched, S))
        /\ Kill(sched, S).curtask = c
        /\ Kill(sched, S).state = [t \in Tasks |-> IF t \in S THEN "Zombie" ELSE sched.state[t]]
    BY <1>1, <2>1, KillSound
  <2> QED
    BY <2>2, Zenon
<1>3. SwitchFrom(s, "user") /\ UNCHANGED <<events, armed, owed>>
  BY <1>2 DEF exitGroup
<1>4. PcInv /\ pc \in [Tasks -> {"user", "sleep", "loop", "wfi"}]
  BY DEF IInv, TypeOK
<1>5. /\ sched' \in SchedType /\ QueueInv(sched') /\ CurRunnable(sched')
      /\ sched'.state = s.state /\ handling' \in BOOLEAN
      /\ pc' \in [Tasks -> {"user", "sleep", "loop", "wfi"}] /\ PcInv'
      /\ \A t \in UserTasks : pc'[t] = IF t = c THEN "user" ELSE pc[t]
  BY <1>1, <1>2, <1>3, <1>4, SwitchSound
<1>6. TypeOK'
  BY <1>3, <1>5 DEF IInv, TypeOK
<1>7. \A t \in UserTasks : sched'.state[t] = IF t \in S THEN "Zombie" ELSE sched.state[t]
  BY <1>2, <1>5 DEF Tasks
<1>8. SleepInv'
  BY <1>1, <1>3, <1>5, <1>7 DEF IInv, SleepInv, Runnable
<1> QED
  BY <1>5, <1>6, <1>8 DEF IInv

\* Every action keeps the invariant.
LEMMA StepSound ==
    ASSUME IInv, [Next]_vars
    PROVE  IInv'
<1>1. ASSUME UNCHANGED vars PROVE IInv'
  BY <1>1 DEF vars, IInv, TypeOK, PcInv, SleepInv
<1>2. ASSUME Interrupt \/ SetTimer PROVE IInv'
  <2>1. UNCHANGED <<sched, pc, events, owed>> /\ handling' \in BOOLEAN
    BY <1>2 DEF Interrupt, SetTimer
  <2>2. armed' \in Nat
    <3>1. CASE Interrupt
      BY <3>1 DEF Interrupt, IInv, TypeOK
    <3>2. CASE SetTimer
      <4>1. events \in Seq(Event) /\ events # <<>> /\ armed' = Head(events).left
        BY <3>2 DEF SetTimer, NextAlarm, IInv, TypeOK, Event
      <4>2. Head(events) \in Event
        BY <4>1, Popped
      <4> QED
        BY <4>1, <4>2 DEF Event
    <3> QED
      BY <1>2, <3>1, <3>2
  <2> QED
    BY <2>1, <2>2 DEF IInv, TypeOK, PcInv, SleepInv
<1>3. ASSUME Return PROVE IInv'
  <2>1. /\ UNCHANGED <<sched, events, armed, handling, owed>>
        /\ pc \in [Tasks -> {"user", "sleep", "loop", "wfi"}]
        /\ pc' = [pc EXCEPT ![cur] = "user"] /\ pc[cur] = "sleep" /\ cur \in Tasks
    BY <1>3, CurIs DEF Return, IInv, TypeOK
  <2>2. cur # Idle
    BY <2>1 DEF IInv, PcInv
  <2>3. pc' \in [Tasks -> {"user", "sleep", "loop", "wfi"}] /\ PcInv'
    BY <2>1, <2>2, CurIs DEF IInv, PcInv, Tasks
  <2>4. \A t \in UserTasks : sched.state[t] = "Pending" => pc'[t] = pc[t]
    BY <2>1, CurIs DEF Runnable
  <2> QED
    BY <2>1, <2>3, <2>4 DEF IInv, TypeOK, SleepInv
<1> QED
  BY <1>1, <1>2, <1>3, TickSound, ExpireSound, nanoSleepSound, exitGroupSound, PassSound
     DEF Next, Kernel

\* The boot leaves a state in which the invariant holds.
LEMMA InitSound == Init => IInv
<1> SUFFICES ASSUME Init PROVE IInv
  OBVIOUS
<1>1. PICK q \in Orders : /\ Elements(q) = UserTasks
                          /\ sched = [Boot(InitTask) EXCEPT !.state = [t \in Tasks |-> "Init"],
                                                            !.ready[0] = q]
  BY DEF Init
<1>2. PICK k \in Nat : k = Cardinality(UserTasks)
  BY TimerAssumption, InitTaskAssumption, FS_CardinalityType
<1>3. q \in [1 .. k -> UserTasks] /\ \A i, j \in 1 .. k : q[i] = q[j] => i = j
  BY <1>2 DEF Orders
<1>4. q \in Seq(Tasks) /\ Len(q) = k /\ \A i \in 1 .. k : q[i] \in UserTasks
  BY <1>3 DEF Tasks
<1>5. InitTask \in UserTasks /\ Idle \in Tasks /\ Idle \notin UserTasks /\ UserTasks \subseteq Tasks
  BY TimerAssumption, InitTaskAssumption, IdleAssumption DEF Tasks
<1>6. <<InitTask>> \in Seq(Tasks) /\ <<Idle>> \in Seq(Tasks) /\ Len(<<Idle>>) = 1 /\ <<Idle>>[1] = Idle
  BY <1>5
<1>7. 0 .. maxPrior = {0, 1} /\ maxPrior = 1
  BY DEF maxPrior
<1>8. PICK b \in SchedType : /\ b = Boot(InitTask) /\ b.pending = {} /\ b.curtask = Idle
                             /\ b.ready[1] = <<Idle>>
  <2>1. Boot(InitTask) \in SchedType
    BY <1>5, BootSound
  <2>2. Boot(InitTask).pending = {} /\ Boot(InitTask).curtask = Idle /\ Boot(InitTask).ready[1] = <<Idle>>
    BY <1>7 DEF Boot
  <2> QED
    BY <2>1, <2>2, Zenon
<1>9. sched = [b EXCEPT !.state = [t \in Tasks |-> "Init"], !.ready[0] = q]
  BY <1>1, <1>8
<1>10. [t \in Tasks |-> "Init"] \in [Tasks -> State] /\ [b.ready EXCEPT ![0] = q] \in [0 .. maxPrior -> Seq(Tasks)]
  BY <1>4, <1>7 DEF State, SchedType
<1>11. /\ sched \in SchedType /\ sched.pending = {} /\ sched.curtask = Idle
       /\ sched.state = [t \in Tasks |-> "Init"] /\ sched.ready = [b.ready EXCEPT ![0] = q]
  BY <1>8, <1>9, <1>10 DEF SchedType
<1>12. sched.ready[0] = q /\ sched.ready[maxPrior] = <<Idle>>
  BY <1>7, <1>8, <1>11 DEF SchedType
<1>13. \A t \in Tasks : sched.state[t] = "Init" /\ Runnable(sched, t)
  BY <1>11 DEF Runnable
<1>14. NoDoubleQueue(sched)
  BY <1>3, <1>4, <1>5, <1>11, <1>12, <1>13 DEF NoDoubleQueue
<1>15. NoLostTask(sched) /\ PendingSet(sched) /\ CurExists(sched) /\ CurRunnable(sched)
  BY <1>1, <1>5, <1>11, <1>12, <1>13 DEF NoLostTask, PendingSet, CurExists, CurRunnable
<1>16. IdleReady(sched)
  <2>1. PICK r : r = sched.ready[maxPrior] /\ Len(r) = 1 /\ r[1] = Idle
    BY <1>6, <1>12
  <2> QED
    BY <1>5, <1>11, <1>13, <2>1 DEF IdleReady
<1>17. PICK x \in Event : x = [task |-> Idle, left |-> tickDuration] /\ x.task = Idle
  <2>1. [task |-> Idle, left |-> tickDuration] \in Event /\ [task |-> Idle, left |-> tickDuration].task = Idle
    BY <1>5, TimerAssumption, InitTaskAssumption DEF Event
  <2> QED
    BY <2>1, Zenon
<1>18. events \in Seq(Event) /\ DOMAIN events = {1} /\ events[1] = x
  <2>1. events = <<x>>
    BY <1>17 DEF Init
  <2> QED
    BY <2>1
<1>19. TypeOK /\ PcInv
  BY <1>5, <1>11, <1>18, TimerAssumption, InitTaskAssumption DEF Init, TypeOK, PcInv, Event
<1>20. SleepInv
  BY <1>5, <1>13, <1>17, <1>18 DEF Init, SleepInv, None
<1> QED
  BY <1>14, <1>15, <1>16, <1>19, <1>20 DEF IInv, QueueInv

\* The invariant holds in every state.
LEMMA Invariant == Spec => []IInv
<1>1. IInv /\ [Next]_vars => IInv'
  BY StepSound
<1> QED
  BY <1>1, InitSound, PTL DEF Spec

\* A sleeper has exactly one event in the queue and a task that may run has
\* none: no callback reaches a sleep that is over.
THEOREM EventsAlwaysExact == Spec => []EventsExact
<1>1. IInv => EventsExact
  <2> SUFFICES ASSUME IInv, NEW t \in UserTasks
               PROVE  /\ sched.state[t] = "Pending" => Cardinality(EventsOf(t)) = 1
                      /\ Runnable(sched, t) => EventsOf(t) = {}
    BY DEF EventsExact
  <2>1. ASSUME NEW m, Only(events, t, m) PROVE Cardinality(EventsOf(t)) = 1
    <3>1. PICK i : EventsOf(t) = {i}
      BY <2>1 DEF Only, EventsOf
    <3> QED
      BY <3>1, FS_Singleton
  <2>2. None(events, t) => EventsOf(t) = {}
    BY DEF None, EventsOf
  <2> QED
    BY <2>1, <2>2 DEF IInv, SleepInv
<1> QED
  BY <1>1, Invariant, PTL

\* nanosleep lasts at least as long as the program asked, however the sleeps
\* of other tasks, the ticks and the exits fall in between.
THEOREM NeverEarly == Spec => []NotEarly
<1>1. IInv => NotEarly
  BY DEF IInv, TypeOK, SchedType, SleepInv, NotEarly, Runnable, State, Tasks
<1> QED
  BY <1>1, Invariant, PTL
=============================================================================
