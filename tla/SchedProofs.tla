----------------------------- MODULE SchedProofs -----------------------------
(***************************************************************************)
(* What the operators of module Scheduler preserve, for every set of tasks *)
(* and every scheduler state; ProcessProofs and TimerProofs cite these.    *)
(* Then the invariants of Sched, where anybody calls them in any order.    *)
(***************************************************************************)
EXTENDS Sched, FiniteSetTheorems, TLAPS

(***************************************************************************)
(* The positions list::remove keeps are finite in number.                  *)
(***************************************************************************)
LEMMA KeptFinite ==
    ASSUME NEW q \in Seq(Tasks), NEW S
    PROVE  /\ IsFiniteSet(Kept(q, S))
           /\ Kept(q, S) \subseteq Nat \ {0}
           /\ Cardinality(Kept(q, S)) \in Nat
<1>1. Len(q) \in Nat
  OBVIOUS
<1>2. IsFiniteSet(1 .. Len(q))
  BY <1>1, FS_Interval
<1>3. Kept(q, S) \in SUBSET (1 .. Len(q))
  BY Zenon DEF Kept
<1>4. IsFiniteSet(Kept(q, S))
  BY <1>2, <1>3, FS_Subset, Zenon
<1> QED
  BY <1>1, <1>3, <1>4, FS_CardinalityType

(***************************************************************************)
(* Rank numbers the members of a finite set of positions from 1, in order. *)
(***************************************************************************)
LEMMA RankProperties ==
    ASSUME NEW K \in SUBSET (Nat \ {0}), IsFiniteSet(K)
    PROVE  /\ \A k \in K : Rank(K, k) \in 1 .. Cardinality(K)
           /\ \A k \in K : Rank(K, k) <= k
           /\ \A j, k \in K : j < k => Rank(K, j) < Rank(K, k)
           /\ \A i \in 1 .. Cardinality(K) : \E k \in K : Rank(K, k) = i
<1> DEFINE Low(k) == {j \in K : j <= k}
<1>1. \A k \in K : /\ IsFiniteSet(Low(k))
                   /\ Cardinality(Low(k)) \in Nat
                   /\ Cardinality(Low(k)) <= Cardinality(K)
  <2> TAKE k \in K
  <2>1. Low(k) \in SUBSET K
    BY Zenon
  <2> QED
    BY <2>1, FS_Subset, FS_CardinalityType, Zenon
<1>2. Cardinality(K) \in Nat
  BY FS_CardinalityType, Zenon
<1>3. \A k \in K : Cardinality(Low(k)) >= 1
  <2> TAKE k \in K
  <2>1. k \in Low(k)
    OBVIOUS
  <2>2. Cardinality(Low(k)) # 0
    BY <1>1, <2>1, FS_EmptySet, Zenon
  <2> QED
    BY <1>1, <2>2
<1>4. \A k \in K : Cardinality(Low(k)) <= k
  <2> TAKE k \in K
  <2>0. \A x \in Low(k) : x \in 1 .. k
    OBVIOUS
  <2>1. Low(k) \in SUBSET (1 .. k)
    BY <2>0, Zenon
  <2>2. IsFiniteSet(1 .. k) /\ Cardinality(1 .. k) = k
    BY FS_Interval
  <2> QED
    BY <2>1, <2>2, FS_Subset
<1>5. \A j, k \in K : j < k => Cardinality(Low(j)) < Cardinality(Low(k))
  <2> SUFFICES ASSUME NEW j \in K, NEW k \in K, j < k
               PROVE  Cardinality(Low(j)) < Cardinality(Low(k))
    BY Zenon
  <2>0. \A x \in Low(j) : x \in Low(k)
    OBVIOUS
  <2>1. Low(j) \in SUBSET Low(k)
    BY <2>0, Zenon
  <2>2. k \in Low(k) /\ k \notin Low(j)
    OBVIOUS
  <2>3. Cardinality(Low(j)) <= Cardinality(Low(k)) /\ Cardinality(Low(j)) # Cardinality(Low(k))
    BY <1>1, <2>1, <2>2, FS_Subset, Zenon
  <2> QED
    BY <1>1, <2>3
<1>6. \A i \in 1 .. Cardinality(K) : \E k \in K : Cardinality(Low(k)) = i
  <2> DEFINE n == Cardinality(K)
             g == [k \in K |-> Cardinality(Low(k))]
  <2>1. g \in [K -> 1 .. n]
    BY <1>1, <1>2, <1>3
  <2>2. \A j, k \in K : j # k => g[j] # g[k]
    <3> SUFFICES ASSUME NEW j \in K, NEW k \in K, j # k
                 PROVE  g[j] # g[k]
      BY Zenon
    <3>1. j < k \/ k < j
      OBVIOUS
    <3>2. g[j] < g[k] \/ g[k] < g[j]
      BY <3>1, <1>5, Zenon
    <3>3. g[j] \in Nat /\ g[k] \in Nat
      BY <1>1, Zenon
    <3> QED
      BY <3>2, <3>3
  <2>3. g \in Injection(K, 1 .. n)
    BY <2>1, <2>2, Zenon DEF Injection, IsInjective
  <2>4. IsFiniteSet(1 .. n) /\ Cardinality(1 .. n) = n
    BY <1>2, FS_Interval
  <2>5. g \in Surjection(K, 1 .. n)
    BY <2>3, <2>4, FS_Injection, Zenon
  <2> QED
    BY <2>5, Zenon DEF Surjection
<1> QED
  BY <1>1, <1>2, <1>3, <1>4, <1>5, <1>6 DEF Rank

\* f enumerates K, some positions of q, in their order; r has the elements there.
Enumerates(f, K, q, r) ==
    /\ f \in [1 .. Len(r) -> K]
    /\ \A i \in 1 .. Len(r) : r[i] = q[f[i]] /\ i <= f[i]
    /\ \A i, j \in 1 .. Len(r) : i < j => f[i] < f[j]
    /\ \A k \in K : \E i \in 1 .. Len(r) : f[i] = k

(***************************************************************************)
(* list::remove: an increasing enumeration f of the kept positions picks   *)
(* the elements of the result, and misses none of them.                    *)
(***************************************************************************)
LEMMA WithoutEnumerates ==
    ASSUME NEW q \in Seq(Tasks), NEW S
    PROVE  /\ Without(q, S) \in Seq(Tasks)
           /\ \E f : Enumerates(f, Kept(q, S), q, Without(q, S))
<1> DEFINE K == Kept(q, S)
           n == Cardinality(K)
           f == [i \in 1 .. n |-> CHOOSE k \in K : Rank(K, k) = i]
           r == Without(q, S)
<1>1. IsFiniteSet(K) /\ K \in SUBSET (Nat \ {0}) /\ n \in Nat
  BY KeptFinite, Zenon
<1>2. /\ \A k \in K : Rank(K, k) \in 1 .. n
      /\ \A k \in K : Rank(K, k) <= k
      /\ \A j, k \in K : j < k => Rank(K, j) < Rank(K, k)
      /\ \A i \in 1 .. n : \E k \in K : Rank(K, k) = i
  BY <1>1, RankProperties, Zenon
<1>3. \A i \in 1 .. n : f[i] \in K /\ Rank(K, f[i]) = i
  BY <1>2, Zenon
<1>4. f \in [1 .. n -> K]
  BY <1>3, Zenon
<1>5. \A i \in 1 .. n : q[f[i]] \in Tasks
  <2> TAKE i \in 1 .. n
  <2>1. f[i] \in 1 .. Len(q)
    BY <1>3, Zenon DEF Kept
  <2> QED
    BY <2>1
<1>6. r = [i \in 1 .. n |-> q[f[i]]]
  BY DEF Without
<1>7. r \in Seq(Tasks) /\ Len(r) = n
  <2> HIDE DEF f, K, n, r
  <2>1. r \in [1 .. n -> Tasks]
    BY <1>5, <1>6, Zenon
  <2> QED
    BY <1>1, <2>1, <1>6
<1>8. \A i, j \in 1 .. n : i < j => f[i] < f[j]
  <2> SUFFICES ASSUME NEW i \in 1 .. n, NEW j \in 1 .. n, i < j
               PROVE  f[i] < f[j]
    BY Zenon
  <2> HIDE DEF f
  <2>1. f[i] \in K /\ f[j] \in K /\ Rank(K, f[i]) = i /\ Rank(K, f[j]) = j
    BY <1>3, Zenon
  <2>2. f[i] \in Nat /\ f[j] \in Nat
    BY <1>1, <2>1, Zenon
  <2>3. f[i] # f[j]
    BY <2>1
  <2>4. ~ (f[j] < f[i])
    BY <1>2, <2>1
  <2> QED
    BY <2>2, <2>3, <2>4
<1>9. \A k \in K : \E i \in 1 .. n : f[i] = k
  <2> SUFFICES ASSUME NEW k \in K
               PROVE  \E i \in 1 .. n : f[i] = k
    BY Zenon
  <2> DEFINE m == Rank(K, k)
  <2> HIDE DEF f
  <2>1. m \in 1 .. n
    BY <1>2, Zenon
  <2>2. f[m] \in K /\ Rank(K, f[m]) = m
    BY <1>3, <2>1, Zenon
  <2>3. f[m] \in Nat /\ k \in Nat
    BY <1>1, <2>2, Zenon
  <2>4. ~ (f[m] < k) /\ ~ (k < f[m])
    BY <1>2, <2>1, <2>2
  <2>5. f[m] = k
    BY <2>3, <2>4
  <2> QED
    BY <2>1, <2>5, Zenon
<1>10. \A i \in 1 .. n : r[i] = q[f[i]] /\ i <= f[i]
  <2> HIDE DEF f
  <2> QED
    BY <1>2, <1>3, <1>6, Zenon
<1> HIDE DEF f, K, n, r
<1>11. Enumerates(f, K, q, r)
  BY <1>4, <1>7, <1>8, <1>9, <1>10, Zenon DEF Enumerates
<1> QED
  BY <1>7, <1>11, Zenon DEF K, r

(***************************************************************************)
(* Consequences of WithoutEnumerates in the form the scheduler needs.      *)
(***************************************************************************)
LEMMA WithoutProperties ==
    ASSUME NEW q \in Seq(Tasks), NEW S
    PROVE  LET r == Without(q, S)
           IN  /\ r \in Seq(Tasks)
               /\ \A i \in 1 .. Len(r) : r[i] \in Elements(q) /\ r[i] \notin S
               /\ \A t \in Elements(q) \ S : t \in Elements(r)
               /\ (\A i, j \in 1 .. Len(q) : q[i] = q[j] => i = j) =>
                     \A i, j \in 1 .. Len(r) : r[i] = r[j] => i = j
<1> DEFINE r == Without(q, S)
<1>1. r \in Seq(Tasks)
  BY WithoutEnumerates, Zenon
<1>0. PICK f : Enumerates(f, Kept(q, S), q, r)
  BY WithoutEnumerates, Zenon
<1>2. /\ f \in [1 .. Len(r) -> Kept(q, S)]
      /\ \A i \in 1 .. Len(r) : r[i] = q[f[i]] /\ i <= f[i]
      /\ \A i, j \in 1 .. Len(r) : i < j => f[i] < f[j]
      /\ \A k \in Kept(q, S) : \E i \in 1 .. Len(r) : f[i] = k
  BY <1>0, Zenon DEF Enumerates
<1> HIDE DEF r
<1>3. Len(r) \in Nat /\ DOMAIN r = 1 .. Len(r) /\ DOMAIN q = 1 .. Len(q)
  BY <1>1
<1>4. \A i \in 1 .. Len(r) : f[i] \in 1 .. Len(q) /\ q[f[i]] \notin S
  BY <1>2, Zenon DEF Kept
<1>5. \A i \in 1 .. Len(r) : r[i] \in Elements(q) /\ r[i] \notin S
  BY <1>2, <1>3, <1>4, Zenon DEF Elements
<1>6. \A t \in Elements(q) \ S : t \in Elements(r)
  <2> SUFFICES ASSUME NEW t \in Elements(q) \ S
               PROVE  t \in Elements(r)
    BY Zenon
  <2>1. PICK k \in 1 .. Len(q) : q[k] = t
    BY <1>3, Zenon DEF Elements
  <2>2. k \in Kept(q, S)
    BY <2>1, Zenon DEF Kept
  <2>3. PICK i \in 1 .. Len(r) : f[i] = k
    BY <1>2, <2>2, Zenon
  <2>4. r[i] = t
    BY <1>2, <2>1, <2>3, Zenon
  <2> QED
    BY <1>3, <2>4, Zenon DEF Elements
<1>7. ASSUME \A i, j \in 1 .. Len(q) : q[i] = q[j] => i = j,
             NEW i \in 1 .. Len(r), NEW j \in 1 .. Len(r), r[i] = r[j]
      PROVE  i = j
  <2>1. f[i] = f[j]
    BY <1>2, <1>4, <1>7, Zenon
  <2>2. f[i] \in Int /\ f[j] \in Int
    BY <1>4
  <2>3. ~ (i < j) /\ ~ (j < i)
    BY <1>2, <2>1, <2>2
  <2> QED
    BY <1>3, <2>3
<1> QED
  BY <1>1, <1>5, <1>6, <1>7, Zenon DEF r

-----------------------------------------------------------------------------
\* The elements of a list after push_back.
LEMMA AppendIs ==
    ASSUME NEW q \in Seq(Tasks), NEW t \in Tasks
    PROVE  /\ Append(q, t) \in Seq(Tasks)
           /\ Len(Append(q, t)) = Len(q) + 1 /\ Len(q) \in Nat
           /\ \A i \in 1 .. Len(q) : Append(q, t)[i] = q[i]
           /\ Append(q, t)[Len(q) + 1] = t
           /\ DOMAIN Append(q, t) = 1 .. Len(q) + 1
           /\ DOMAIN q = 1 .. Len(q)
  OBVIOUS

(***************************************************************************)
(* Scheduler::add puts a task that may run at the end of its list and      *)
(* changes nothing else.                                                   *)
(***************************************************************************)
LEMMA AddFields ==
    ASSUME NEW s \in SchedType, NEW t \in Tasks,
           s.state[t] \notin {"Zombie", "Pending"}
    PROVE  /\ Add(s, t) \in SchedType
           /\ Add(s, t).pending = s.pending
           /\ Add(s, t).state = s.state
           /\ Add(s, t).curtask = s.curtask
           /\ Add(s, t).ready[prior(t)] = Append(s.ready[prior(t)], t)
           /\ \A p \in 0 .. maxPrior : p # prior(t) => Add(s, t).ready[p] = s.ready[p]
<1>1. prior(t) \in 0 .. maxPrior
  BY DEF prior, maxPrior
<1>2. Append(s.ready[prior(t)], t) \in Seq(Tasks)
  <2>1. s.ready \in [0 .. maxPrior -> Seq(Tasks)]
    BY Zenon DEF SchedType
  <2>2. s.ready[prior(t)] \in Seq(Tasks)
    BY <1>1, <2>1, Zenon
  <2> QED
    BY <2>2
<1>3. Add(s, t) = [s EXCEPT !.ready = [s.ready EXCEPT ![prior(t)] = Append(@, t)]]
  BY Zenon DEF Add
<1>4. [s.ready EXCEPT ![prior(t)] = Append(@, t)] \in [0 .. maxPrior -> Seq(Tasks)]
  BY <1>2, Zenon DEF SchedType
<1> QED
  BY <1>1, <1>3, <1>4, Zenon DEF SchedType

(***************************************************************************)
(* Scheduler::sleep of a user task keeps the queues exact.                 *)
(***************************************************************************)
LEMMA SleepSound ==
    ASSUME NEW s \in SchedType, NEW t \in UserTasks, QueueInv(s)
    PROVE  /\ Sleep(s, t) \in SchedType
           /\ QueueInv(Sleep(s, t))
           /\ Sleep(s, t).curtask = s.curtask
           /\ Sleep(s, t).state = [s.state EXCEPT ![t] = "Pending"]
<1> DEFINE r == Without(s.ready[0], {t})
           u == Sleep(s, t)
<1>1. t \in Tasks /\ t # Idle /\ prior(t) = 0 /\ Idle \in Tasks
  BY IdleAssumption, Zenon DEF prior, Tasks
<1>2. s.ready[0] \in Seq(Tasks)
  BY DEF SchedType, maxPrior
<1>3. /\ r \in Seq(Tasks)
      /\ \A i \in 1 .. Len(r) : r[i] \in Elements(s.ready[0]) /\ r[i] \notin {t}
      /\ \A x \in Elements(s.ready[0]) \ {t} : x \in Elements(r)
      /\ (\A i, j \in 1 .. Len(s.ready[0]) : s.ready[0][i] = s.ready[0][j] => i = j) =>
            \A i, j \in 1 .. Len(r) : r[i] = r[j] => i = j
  BY <1>2, WithoutProperties, Zenon
<1> HIDE DEF r
<1>4. /\ u.ready = [s.ready EXCEPT ![0] = r]
      /\ u.pending = s.pending \cup {t}
      /\ u.state = [s.state EXCEPT ![t] = "Pending"]
      /\ u.curtask = s.curtask
      /\ u \in SchedType
  BY <1>1, <1>3, Zenon DEF Sleep, SchedType, maxPrior, State, r
<1> HIDE DEF u
<1>5. u.ready[0] = r /\ u.ready[maxPrior] = s.ready[maxPrior]
  BY <1>4 DEF SchedType, maxPrior
<1>6. \A x \in Tasks : u.state[x] = IF x = t THEN "Pending" ELSE s.state[x]
  BY <1>4, Zenon DEF SchedType
<1>7. \A x \in Elements(s.ready[0]) : x \in UserTasks /\ x # s.curtask /\ Runnable(s, x)
  BY <1>2 DEF QueueInv, NoDoubleQueue, Elements
<1>8. NoDoubleQueue(u)
  BY <1>1, <1>3, <1>4, <1>5, <1>6, <1>7 DEF NoDoubleQueue, QueueInv, Runnable, Tasks
<1>9. NoLostTask(u)
  BY <1>1, <1>3, <1>4, <1>5, <1>6, ZenonT(40) DEF NoLostTask, QueueInv, Runnable, Tasks
<1>10. IdleReady(u)
  BY <1>1, <1>4, <1>5, <1>6, Zenon DEF IdleReady, QueueInv, Runnable
<1>11. PendingSet(u) /\ CurExists(u)
  BY <1>4, <1>6 DEF PendingSet, CurExists, QueueInv, SchedType
<1> QED
  BY <1>4, <1>8, <1>9, <1>10, <1>11, Zenon DEF QueueInv, u

(***************************************************************************)
(* Adding a user task that may run, is not current and is not yet queued   *)
(* keeps the queues exact: u is s with the state of t changed so.          *)
(***************************************************************************)
LEMMA AddSound ==
    ASSUME NEW s \in SchedType, QueueInv(s), NEW u \in SchedType, NEW t \in UserTasks,
           t # s.curtask, ~ Runnable(s, t), Runnable(u, t), t \notin u.pending,
           u.ready = s.ready, u.curtask = s.curtask,
           \A x \in Tasks \ {t} : /\ u.state[x] = s.state[x]
                                  /\ x \in u.pending <=> x \in s.pending
    PROVE  Add(u, t) \in SchedType /\ QueueInv(Add(u, t))
<1> DEFINE a == Add(u, t)
           q == s.ready[0]
<1>1. t \in Tasks /\ t # Idle /\ prior(t) = 0 /\ Idle \in Tasks
  BY IdleAssumption, Zenon DEF prior, Tasks
<1>2. u.state[t] \notin {"Zombie", "Pending"}
  BY Zenon DEF Runnable
<1>3. /\ a \in SchedType
      /\ a.pending = u.pending
      /\ a.state = u.state
      /\ a.curtask = s.curtask
      /\ a.ready[0] = Append(q, t)
      /\ a.ready[maxPrior] = s.ready[maxPrior]
  <2>1. /\ a \in SchedType /\ a.pending = u.pending /\ a.state = u.state
        /\ a.curtask = u.curtask /\ a.ready[prior(t)] = Append(u.ready[prior(t)], t)
        /\ \A p \in 0 .. maxPrior : p # prior(t) => a.ready[p] = u.ready[p]
    BY <1>1, <1>2, AddFields, Zenon
  <2> HIDE DEF a
  <2> QED
    BY <1>1, <2>1 DEF maxPrior
<1>4. q \in Seq(Tasks)
  BY DEF SchedType, maxPrior
<1> HIDE DEF a, q
<1>5. /\ \A i \in 1 .. Len(q) : q[i] \in UserTasks /\ q[i] # s.curtask /\ Runnable(s, q[i])
      /\ \A i, j \in 1 .. Len(q) : q[i] = q[j] => i = j
  BY Zenon DEF QueueInv, NoDoubleQueue, q
<1>6. \A i \in 1 .. Len(q) : q[i] # t /\ Runnable(u, q[i])
  BY <1>5, Zenon DEF Runnable, Tasks
<1>7. /\ Len(Append(q, t)) = Len(q) + 1 /\ Len(q) \in Nat
      /\ \A i \in 1 .. Len(q) : Append(q, t)[i] = q[i]
      /\ Append(q, t)[Len(q) + 1] = t
      /\ DOMAIN Append(q, t) = 1 .. Len(q) + 1
      /\ DOMAIN q = 1 .. Len(q)
  BY <1>1, <1>4, AppendIs, Zenon
<1>8. NoDoubleQueue(a)
  <2>1. \A i \in 1 .. Len(q) + 1 : /\ Append(q, t)[i] \in UserTasks
                                   /\ Append(q, t)[i] # s.curtask
                                   /\ Runnable(a, Append(q, t)[i])
    <3> TAKE i \in 1 .. Len(q) + 1
    <3>1. i \in 1 .. Len(q) \/ i = Len(q) + 1
      BY <1>7
    <3> QED
      BY <3>1, <1>3, <1>5, <1>6, <1>7 DEF Runnable
  <2>2. \A i, j \in 1 .. Len(q) + 1 : Append(q, t)[i] = Append(q, t)[j] => i = j
    <3> TAKE i, j \in 1 .. Len(q) + 1
    <3>1. /\ i \in 1 .. Len(q) \/ i = Len(q) + 1
          /\ j \in 1 .. Len(q) \/ j = Len(q) + 1
      BY <1>7
    <3> QED
      BY <3>1, <1>5, <1>6, <1>7
  <2> QED
    BY <2>1, <2>2, <1>3, <1>7 DEF NoDoubleQueue
<1>9. NoLostTask(a)
  <2> SUFFICES ASSUME NEW x \in UserTasks, Runnable(a, x), x # a.curtask
               PROVE  x \in Elements(a.ready[0])
    BY Zenon DEF NoLostTask
  <2>1. CASE x = t
    BY <2>1, <1>3, <1>7 DEF Elements
  <2>2. CASE x # t
    <3>1. Runnable(s, x)
      BY <2>2, <1>3, Zenon DEF Runnable, Tasks
    <3>2. x \in Elements(q)
      BY <3>1, <1>3, Zenon DEF QueueInv, NoLostTask, q
    <3> QED
      BY <3>2, <1>3, <1>7 DEF Elements
  <2> QED
    BY <2>1, <2>2, Zenon
<1>10. IdleReady(a)
  BY <1>1, <1>3, Zenon DEF IdleReady, QueueInv, Runnable
<1>11. PendingSet(a)
  BY <1>3, <1>2, Zenon DEF PendingSet, QueueInv
<1>12. CurExists(a)
  <2>1. s.curtask \in Tasks
    BY Zenon DEF SchedType
  <2> QED
    BY <2>1, <1>3, Zenon DEF CurExists, QueueInv
<1> QED
  BY <1>3, <1>8, <1>9, <1>10, <1>11, <1>12, Zenon DEF QueueInv, a

(***************************************************************************)
(* Scheduler::wakeup keeps the queues exact, as long as the current task   *)
(* is not itself going to sleep.                                           *)
(***************************************************************************)
LEMMA WakeupSound ==
    ASSUME NEW s \in SchedType, NEW t \in UserTasks, QueueInv(s),
           s.state[s.curtask] # "Pending"
    PROVE  /\ Wakeup(s, t) \in SchedType
           /\ QueueInv(Wakeup(s, t))
           /\ Wakeup(s, t).curtask = s.curtask
           /\ Wakeup(s, t).state = IF s.state[t] = "Pending"
                                    THEN [s.state EXCEPT ![t] = "Ready"] ELSE s.state
<1>1. CASE s.state[t] # "Pending"
  BY <1>1, Zenon DEF Wakeup
<1>2. CASE s.state[t] = "Pending"
  <2> DEFINE u == [s EXCEPT !.pending = @ \ {t}, !.state[t] = "Ready"]
  <2>1. t \in Tasks
    BY Zenon DEF Tasks
  <2>2. /\ u \in SchedType
        /\ u.ready = s.ready
        /\ u.curtask = s.curtask
        /\ u.state = [s.state EXCEPT ![t] = "Ready"]
        /\ u.pending = s.pending \ {t}
    BY <2>1, Zenon DEF SchedType, State
  <2>3. Wakeup(s, t) = Add(u, t)
    BY <1>2, Zenon DEF Wakeup
  <2> HIDE DEF u
  <2>4. \A x \in Tasks : u.state[x] = IF x = t THEN "Ready" ELSE s.state[x]
    BY <2>2, Zenon DEF SchedType
  <2>5. Add(u, t) \in SchedType /\ QueueInv(Add(u, t))
    BY <1>2, <2>1, <2>2, <2>4, AddSound, Zenon DEF Runnable
  <2>6. Add(u, t).curtask = u.curtask /\ Add(u, t).state = u.state
    BY <2>1, <2>2, <2>4, AddFields, Zenon
  <2> QED
    BY <1>2, <2>2, <2>3, <2>5, <2>6, Zenon
<1> QED
  BY <1>1, <1>2, Zenon

(***************************************************************************)
(* A new task is queued once.                                              *)
(***************************************************************************)
LEMMA CreateSound ==
    ASSUME NEW s \in SchedType, NEW t \in UserTasks, QueueInv(s), s.state[t] = "None"
    PROVE  /\ Create(s, t) \in SchedType
           /\ QueueInv(Create(s, t))
           /\ Create(s, t).curtask = s.curtask
           /\ Create(s, t).state = [s.state EXCEPT ![t] = "Init"]
<1> DEFINE u == [s EXCEPT !.state[t] = "Init"]
<1>1. t \in Tasks /\ t # s.curtask
  BY Zenon DEF Tasks, QueueInv, CurExists
<1>2. /\ u \in SchedType
      /\ u.ready = s.ready
      /\ u.curtask = s.curtask
      /\ u.state = [s.state EXCEPT ![t] = "Init"]
      /\ u.pending = s.pending
  BY <1>1, Zenon DEF SchedType, State
<1>3. Create(s, t) = Add(u, t)
  BY Zenon DEF Create
<1> HIDE DEF u
<1>4. \A x \in Tasks : u.state[x] = IF x = t THEN "Init" ELSE s.state[x]
  BY <1>2, Zenon DEF SchedType
<1>5. t \notin s.pending
  BY <1>1, Zenon DEF QueueInv, PendingSet
<1>6. Add(u, t) \in SchedType /\ QueueInv(Add(u, t))
  BY <1>1, <1>2, <1>4, <1>5, AddSound, Zenon DEF Runnable
<1>7. Add(u, t).curtask = u.curtask /\ Add(u, t).state = u.state
  BY <1>1, <1>2, <1>4, AddFields, Zenon
<1> QED
  BY <1>2, <1>3, <1>6, <1>7, Zenon

(***************************************************************************)
(* Tasks made Zombies leave the ready list, whatever their state was.      *)
(***************************************************************************)
LEMMA KillSound ==
    ASSUME NEW s \in SchedType, NEW S \in SUBSET UserTasks, QueueInv(s)
    PROVE  /\ Kill(s, S) \in SchedType
           /\ QueueInv(Kill(s, S))
           /\ Kill(s, S).curtask = s.curtask
           /\ Kill(s, S).state = [t \in Tasks |-> IF t \in S THEN "Zombie" ELSE s.state[t]]
<1> DEFINE r == Without(s.ready[0], S)
           u == Kill(s, S)
<1>1. S \subseteq Tasks /\ Idle \notin S /\ Idle \in Tasks
  BY IdleAssumption, Zenon DEF Tasks
<1>2. s.ready[0] \in Seq(Tasks)
  BY DEF SchedType, maxPrior
<1>3. /\ r \in Seq(Tasks)
      /\ \A i \in 1 .. Len(r) : r[i] \in Elements(s.ready[0]) /\ r[i] \notin S
      /\ \A x \in Elements(s.ready[0]) \ S : x \in Elements(r)
      /\ (\A i, j \in 1 .. Len(s.ready[0]) : s.ready[0][i] = s.ready[0][j] => i = j) =>
            \A i, j \in 1 .. Len(r) : r[i] = r[j] => i = j
  BY <1>2, WithoutProperties, Zenon
<1> HIDE DEF r
<1>4. /\ u.ready = [s.ready EXCEPT ![0] = r]
      /\ u.pending = s.pending \cup S
      /\ u.state = [t \in Tasks |-> IF t \in S THEN "Zombie" ELSE s.state[t]]
      /\ u.curtask = s.curtask
      /\ u \in SchedType
  BY <1>1, <1>3, Zenon DEF Kill, SchedType, maxPrior, State, r
<1> HIDE DEF u
<1>5. u.ready[0] = r /\ u.ready[maxPrior] = s.ready[maxPrior]
  BY <1>4 DEF SchedType, maxPrior
<1>6. \A x \in Tasks : u.state[x] = IF x \in S THEN "Zombie" ELSE s.state[x]
  BY <1>4, Zenon
<1>7. \A x \in Elements(s.ready[0]) : x \in UserTasks /\ x # s.curtask /\ Runnable(s, x)
  BY <1>2, SMTT(30) DEF QueueInv, NoDoubleQueue, Elements
<1>8. NoDoubleQueue(u)
  BY <1>1, <1>3, <1>4, <1>5, <1>6, <1>7 DEF NoDoubleQueue, QueueInv, Runnable, Tasks
<1>9. NoLostTask(u)
  BY <1>1, <1>3, <1>4, <1>5, <1>6, Zenon DEF NoLostTask, QueueInv, Runnable, Tasks
<1>10. IdleReady(u)
  BY <1>1, <1>4, <1>5, <1>6, Zenon DEF IdleReady, QueueInv, Runnable
<1>11. PendingSet(u) /\ CurExists(u)
  BY <1>4, <1>6 DEF PendingSet, CurExists, QueueInv, SchedType
<1> QED
  BY <1>4, <1>8, <1>9, <1>10, <1>11, Zenon DEF QueueInv, u

(***************************************************************************)
(* Taking the head off the priority-0 list and making it current: the      *)
(* state v is s with the current task put back if it may run.              *)
(***************************************************************************)
LEMMA PopUser ==
    ASSUME NEW s \in SchedType, QueueInv(s), NEW v \in SchedType,
           NEW q \in Seq(Tasks), q # <<>>,
           v.state = s.state, v.pending = s.pending,
           v.curtask = Head(q), v.ready[0] = Tail(q),
           Len(v.ready[maxPrior]) = 2,
           \A i \in 1 .. Len(v.ready[maxPrior]) : v.ready[maxPrior][i] = Idle,
           \A i, j \in 1 .. Len(q) : q[i] = q[j] => i = j,
           \A i \in 1 .. Len(q) : q[i] \in UserTasks /\ Runnable(s, q[i]),
           \A t \in UserTasks : Runnable(s, t) => t \in Elements(q)
    PROVE  QueueInv(v) /\ CurRunnable(v) /\ v.curtask \in UserTasks
<1>1. /\ Len(q) \in Nat /\ Len(q) > 0 /\ Head(q) = q[1]
      /\ Tail(q) \in Seq(Tasks)
      /\ Len(Tail(q)) = Len(q) - 1
      /\ \A i \in 1 .. Len(q) - 1 : Tail(q)[i] = q[i + 1]
      /\ DOMAIN q = 1 .. Len(q)
      /\ DOMAIN Tail(q) = 1 .. Len(q) - 1
  OBVIOUS
<1>2. v.curtask \in UserTasks /\ Runnable(v, v.curtask)
  BY <1>1 DEF Runnable
<1>3. NoDoubleQueue(v)
  <2>1. \A i \in 1 .. Len(q) - 1 : /\ Tail(q)[i] \in UserTasks
                                   /\ Tail(q)[i] # q[1]
                                   /\ Runnable(v, Tail(q)[i])
    <3> TAKE i \in 1 .. Len(q) - 1
    <3>1. i + 1 \in 1 .. Len(q) /\ 1 \in 1 .. Len(q) /\ i + 1 # 1
      BY <1>1
    <3> QED
      BY <1>1, <3>1, Zenon DEF Runnable
  <2>2. \A i, j \in 1 .. Len(q) - 1 : Tail(q)[i] = Tail(q)[j] => i = j
    <3> TAKE i, j \in 1 .. Len(q) - 1
    <3>1. i + 1 \in 1 .. Len(q) /\ j + 1 \in 1 .. Len(q)
      BY <1>1
    <3> QED
      BY <1>1, <3>1
  <2> QED
    BY <1>1, <2>1, <2>2 DEF NoDoubleQueue
<1>4. NoLostTask(v)
  <2> SUFFICES ASSUME NEW t \in UserTasks, Runnable(v, t), t # v.curtask
               PROVE  t \in Elements(Tail(q))
    BY Zenon DEF NoLostTask
  <2>1. PICK k \in 1 .. Len(q) : q[k] = t
    BY <1>1 DEF Runnable, Elements
  <2>2. k # 1
    BY <1>1, <2>1, Zenon
  <2>3. k - 1 \in 1 .. Len(q) - 1 /\ (k - 1) + 1 = k
    BY <1>1, <2>2
  <2>4. Tail(q)[k - 1] = t
    BY <1>1, <2>1, <2>3, Zenon
  <2> QED
    BY <1>1, <2>3, <2>4, Zenon DEF Elements
<1>5. IdleReady(v)
  BY <1>2, IdleAssumption, Zenon DEF IdleReady, QueueInv, Runnable
<1>6. PendingSet(v)
  BY Zenon DEF PendingSet, QueueInv
<1>7. CurExists(v)
  BY <1>2, Zenon DEF CurExists, Runnable
<1> QED
  BY <1>2, <1>3, <1>4, <1>5, <1>6, <1>7, Zenon DEF QueueInv, CurRunnable

(***************************************************************************)
(* next() takes from the priority-0 list if it can, else from the idle     *)
(* task's.                                                                 *)
(***************************************************************************)
LEMMA FirstReadyIs ==
    ASSUME NEW s \in SchedType
    PROVE  /\ s.ready[0] # <<>> => FirstReady(s) = 0
           /\ s.ready[0] = <<>> /\ s.ready[maxPrior] # <<>> => FirstReady(s) = maxPrior
<1> DEFINE P(p) == s.ready[p] # <<>> /\ \A r \in 0 .. p - 1 : s.ready[r] = <<>>
<1>1. 0 .. maxPrior = {0, 1} /\ 0 .. 1 - 1 = {0} /\ 0 .. 0 - 1 = {} /\ maxPrior = 1
  BY DEF maxPrior
<1>2. ASSUME s.ready[0] # <<>>
      PROVE  FirstReady(s) = 0
  <2>1. P(0) /\ ~P(1)
    BY <1>1, <1>2, Zenon
  <2>2. \A p \in 0 .. maxPrior : P(p) <=> p = 0
    BY <1>1, <2>1, Zenon
  <2> HIDE DEF P
  <2>3. (CHOOSE p \in 0 .. maxPrior : P(p)) = 0
    BY <1>1, <2>2, Zenon
  <2> QED
    BY <2>3, Zenon DEF FirstReady, P
<1>3. ASSUME s.ready[0] = <<>>, s.ready[maxPrior] # <<>>
      PROVE  FirstReady(s) = maxPrior
  <2>1. P(1) /\ ~P(0)
    BY <1>1, <1>3, Zenon
  <2>2. \A p \in 0 .. maxPrior : P(p) <=> p = 1
    BY <1>1, <2>1, Zenon
  <2> HIDE DEF P
  <2>3. (CHOOSE p \in 0 .. maxPrior : P(p)) = 1
    BY <1>1, <2>2, Zenon
  <2> QED
    BY <1>1, <2>3, Zenon DEF FirstReady, P
<1> QED
  BY <1>2, <1>3, Zenon

(***************************************************************************)
(* The fields after the head of list p has become the current task.        *)
(***************************************************************************)
LEMMA PopFields ==
    ASSUME NEW s \in SchedType, NEW p \in 0 .. maxPrior, s.ready[p] # <<>>
    PROVE  /\ SwitchTo(s, p) \in SchedType
           /\ SwitchTo(s, p).state = s.state
           /\ SwitchTo(s, p).pending = s.pending
           /\ SwitchTo(s, p).curtask = Head(s.ready[p])
           /\ SwitchTo(s, p).ready[p] = Tail(s.ready[p])
           /\ \A r \in 0 .. maxPrior : r # p => SwitchTo(s, p).ready[r] = s.ready[r]
<1> DEFINE v == SwitchTo(s, p)
           h == Head(s.ready[p])
           l == Tail(s.ready[p])
<1>1. s.ready \in [0 .. maxPrior -> Seq(Tasks)]
  BY Zenon DEF SchedType
<1>2. s.ready[p] \in Seq(Tasks)
  BY <1>1, Zenon
<1>3. h \in Tasks /\ l \in Seq(Tasks)
  BY <1>2
<1>4. v = [s EXCEPT !.ready = [s.ready EXCEPT ![p] = l], !.curtask = h]
  BY Zenon DEF SwitchTo
<1> HIDE DEF h, l, v
<1>5. [s.ready EXCEPT ![p] = l] \in [0 .. maxPrior -> Seq(Tasks)]
  BY <1>1, <1>3, Zenon
<1>6. /\ v \in SchedType /\ v.state = s.state /\ v.pending = s.pending
      /\ v.curtask = h
      /\ v.ready = [s.ready EXCEPT ![p] = l]
  BY <1>3, <1>4, <1>5, Zenon DEF SchedType
<1> QED
  BY <1>1, <1>6, Zenon DEF h, l, v

(***************************************************************************)
(* schedule() keeps the queues exact and always finds a task that may run; *)
(* it picks the idle task only if no user task may run.                    *)
(***************************************************************************)
LEMMA ScheduleSound ==
    ASSUME NEW s \in SchedType, QueueInv(s)
    PROVE  /\ Schedule(s) \in SchedType
           /\ QueueInv(Schedule(s))
           /\ CurRunnable(Schedule(s))
           /\ Schedule(s).state = s.state
           /\ Schedule(s).curtask = Idle => \A t \in UserTasks : ~Runnable(s, t)
<1> DEFINE s1 == Add(s, s.curtask)
           v  == Schedule(s)
           p  == FirstReady(s1)
<1>1. Idle \in Tasks /\ Idle \notin UserTasks /\ s.curtask \in Tasks /\ maxPrior = 1
  BY IdleAssumption, Zenon DEF Tasks, SchedType, maxPrior
<1>2. /\ s1 \in SchedType /\ s1.state = s.state /\ s1.pending = s.pending
      /\ Len(s1.ready[maxPrior]) = 2
      /\ \A i \in 1 .. Len(s1.ready[maxPrior]) : s1.ready[maxPrior][i] = Idle
      /\ s1.ready[0] \in Seq(Tasks)
      /\ \A i, j \in 1 .. Len(s1.ready[0]) : s1.ready[0][i] = s1.ready[0][j] => i = j
      /\ \A i \in 1 .. Len(s1.ready[0]) :
            s1.ready[0][i] \in UserTasks /\ Runnable(s, s1.ready[0][i])
      /\ \A t \in UserTasks : Runnable(s, t) => t \in Elements(s1.ready[0])
  <2>0. s.ready[0] \in Seq(Tasks) /\ s.ready[maxPrior] \in Seq(Tasks)
    BY DEF SchedType, maxPrior
  <2>1. CASE s.state[s.curtask] \in {"Zombie", "Pending"}
    <3>1. s1 = s
      BY <2>1, Zenon DEF Add
    <3>2. ~ Runnable(s, s.curtask)
      BY <2>1, Zenon DEF Runnable
    <3> QED
      BY <1>1, <2>0, <3>1, <3>2, Zenon DEF QueueInv, NoDoubleQueue, NoLostTask, IdleReady
  <2>2. CASE s.state[s.curtask] \notin {"Zombie", "Pending"} /\ s.curtask = Idle
    <3>1. prior(Idle) = 1
      BY <1>1, Zenon DEF prior
    <3>2. /\ s1 \in SchedType /\ s1.state = s.state /\ s1.pending = s.pending
          /\ s1.ready[0] = s.ready[0]
          /\ s1.ready[1] = Append(s.ready[1], Idle)
      BY <1>1, <2>2, <3>1, AddFields, SMTT(30)
    <3> HIDE DEF s1
    <3>3. Len(s1.ready[1]) = 2 /\ \A i \in 1 .. Len(s1.ready[1]) : s1.ready[1][i] = Idle
      <4> DEFINE l == s.ready[1]
      <4>1. l \in Seq(Tasks) /\ Len(l) = 1 /\ l[1] = Idle
        BY <1>1, <2>0, <2>2 DEF QueueInv, IdleReady
      <4> HIDE DEF l
      <4>2. /\ Len(Append(l, Idle)) = Len(l) + 1
            /\ \A i \in 1 .. Len(l) : Append(l, Idle)[i] = l[i]
            /\ Append(l, Idle)[Len(l) + 1] = Idle
        BY <1>1, <4>1, AppendIs, Zenon
      <4> QED
        BY <3>2, <4>1, <4>2 DEF l
    <3> QED
      BY <1>1, <2>0, <2>2, <3>2, <3>3, Zenon DEF QueueInv, NoDoubleQueue, NoLostTask
  <2>3. CASE s.state[s.curtask] \notin {"Zombie", "Pending"} /\ s.curtask # Idle
    <3> DEFINE c == s.curtask
               q == s.ready[0]
    <3>1. prior(c) = 0 /\ c \in UserTasks /\ Runnable(s, c)
      <4>1. s.state[c] \in State /\ s.state[c] # "None"
        BY <1>1, Zenon DEF SchedType, QueueInv, CurExists
      <4> QED
        BY <1>1, <2>3, <4>1, Zenon DEF prior, Runnable, State, Tasks
    <3>2. /\ s1 \in SchedType /\ s1.state = s.state /\ s1.pending = s.pending
          /\ s1.ready[0] = Append(q, c)
          /\ s1.ready[1] = s.ready[1]
      BY <1>1, <2>3, <3>1, AddFields
    <3>3. /\ \A i \in 1 .. Len(q) : q[i] \in UserTasks /\ q[i] # c /\ Runnable(s, q[i])
          /\ \A i, j \in 1 .. Len(q) : q[i] = q[j] => i = j
          /\ \A t \in UserTasks : Runnable(s, t) /\ t # c => t \in Elements(q)
      BY Zenon DEF QueueInv, NoDoubleQueue, NoLostTask
    <3> HIDE DEF s1, c, q
    <3>4. /\ Append(q, c) \in Seq(Tasks)
          /\ Len(Append(q, c)) = Len(q) + 1 /\ Len(q) \in Nat
          /\ \A i \in 1 .. Len(q) : Append(q, c)[i] = q[i]
          /\ Append(q, c)[Len(q) + 1] = c
          /\ DOMAIN Append(q, c) = 1 .. Len(q) + 1
          /\ DOMAIN q = 1 .. Len(q)
      BY <1>1, <2>0, AppendIs, Zenon DEF c, q
    <3>5. \A i \in 1 .. Len(q) + 1 : Append(q, c)[i] \in UserTasks /\ Runnable(s, Append(q, c)[i])
      <4> TAKE i \in 1 .. Len(q) + 1
      <4>1. i \in 1 .. Len(q) \/ i = Len(q) + 1
        BY <3>4
      <4> QED
        BY <4>1, <3>1, <3>3, <3>4, Zenon
    <3>6. \A i, j \in 1 .. Len(q) + 1 : Append(q, c)[i] = Append(q, c)[j] => i = j
      <4> TAKE i, j \in 1 .. Len(q) + 1
      <4>1. /\ i \in 1 .. Len(q) \/ i = Len(q) + 1
            /\ j \in 1 .. Len(q) \/ j = Len(q) + 1
        BY <3>4
      <4> QED
        BY <4>1, <3>3, <3>4, Zenon
    <3>7. \A t \in UserTasks : Runnable(s, t) => t \in Elements(Append(q, c))
      BY <3>3, <3>4 DEF Elements
    <3>8. Len(s1.ready[1]) = 2 /\ \A i \in 1 .. Len(s1.ready[1]) : s1.ready[1][i] = Idle
      BY <1>1, <2>3, <3>2, Zenon DEF QueueInv, IdleReady
    <3> QED
      BY <1>1, <3>2, <3>4, <3>5, <3>6, <3>7, <3>8
  <2> QED
    BY <2>1, <2>2, <2>3, Zenon
<1>3. v = SwitchTo(s1, p)
  BY Zenon DEF Schedule
<1> HIDE DEF s1, v, p
<1>4. CASE s1.ready[0] # <<>>
  <2> DEFINE q == s1.ready[0]
  <2>1. p = 0 /\ 0 \in 0 .. maxPrior /\ 1 \in 0 .. maxPrior
    BY <1>1, <1>2, <1>4, FirstReadyIs DEF p
  <2>2. v = SwitchTo(s1, 0)
    BY <1>3, <2>1, Zenon
  <2>3. /\ v \in SchedType /\ v.state = s1.state /\ v.pending = s1.pending
        /\ v.curtask = Head(q) /\ v.ready[0] = Tail(q)
        /\ \A r \in 0 .. maxPrior : r # 0 => v.ready[r] = s1.ready[r]
    BY <1>2, <1>4, <2>1, <2>2, PopFields, Zenon
  <2>4. QueueInv(v) /\ CurRunnable(v) /\ v.curtask \in UserTasks
    <3>1. v.ready[maxPrior] = s1.ready[maxPrior] /\ v.state = s.state /\ v.pending = s.pending
      BY <1>1, <1>2, <2>1, <2>3
    <3>2. Len(v.ready[maxPrior]) = 2 /\ \A i \in 1 .. Len(v.ready[maxPrior]) : v.ready[maxPrior][i] = Idle
      BY <1>2, <3>1, Zenon
    <3>3. /\ q \in Seq(Tasks) /\ q # <<>>
          /\ \A i, j \in 1 .. Len(q) : q[i] = q[j] => i = j
          /\ \A i \in 1 .. Len(q) : q[i] \in UserTasks /\ Runnable(s, q[i])
          /\ \A t \in UserTasks : Runnable(s, t) => t \in Elements(q)
      BY <1>2, <1>4, Zenon
    <3> HIDE DEF q
    <3> QED
      BY <2>3, <3>1, <3>2, <3>3, PopUser, Zenon
  <2> QED
    BY <1>1, <1>2, <2>3, <2>4, Zenon DEF v
<1>5. CASE s1.ready[0] = <<>>
  <2> DEFINE q == s1.ready[1]
  <2>1. q \in Seq(Tasks) /\ Len(q) = 2 /\ q # <<>> /\ 0 \in 0 .. maxPrior /\ 1 \in 0 .. maxPrior
    BY <1>1, <1>2 DEF SchedType
  <2>2. p = 1
    BY <1>1, <1>2, <1>5, <2>1, FirstReadyIs, Zenon DEF p
  <2>3. v = SwitchTo(s1, 1)
    BY <1>3, <2>2, Zenon
  <2>4. /\ v \in SchedType /\ v.state = s1.state /\ v.pending = s1.pending
        /\ v.curtask = Head(q) /\ v.ready[1] = Tail(q)
        /\ \A r \in 0 .. maxPrior : r # 1 => v.ready[r] = s1.ready[r]
    BY <1>2, <2>1, <2>3, PopFields, ZenonT(40)
  <2>5. /\ Head(q) = Idle
        /\ Len(Tail(q)) = 1 /\ Tail(q)[1] = Idle
    BY <1>1, <1>2, <2>1
  <2>6. v.ready[0] = <<>> /\ v.state = s.state /\ v.pending = s.pending /\ v.curtask = Idle
    BY <1>2, <1>5, <2>1, <2>4, <2>5, Zenon
  <2>7. \A t \in UserTasks : ~Runnable(s, t)
    BY <1>2, <1>5, SMTT(30) DEF Elements
  <2>8. NoDoubleQueue(v) /\ NoLostTask(v) /\ PendingSet(v)
    BY <2>6, <2>7 DEF NoDoubleQueue, NoLostTask, PendingSet, QueueInv, Runnable
  <2>9. CurRunnable(v) /\ CurExists(v)
    BY <2>6, Zenon DEF QueueInv, IdleReady, CurRunnable, CurExists, Runnable
  <2>10. IdleReady(v)
    BY <1>1, <2>4, <2>5, <2>6 DEF IdleReady, QueueInv, Runnable
  <2> QED
    BY <2>4, <2>6, <2>7, <2>8, <2>9, <2>10, Zenon DEF QueueInv, v
<1> QED
  BY <1>4, <1>5, Zenon

\* kernel::init leaves the queues exact, the idle task current and listed.
LEMMA BootSound ==
    ASSUME NEW t \in UserTasks
    PROVE  Boot(t) \in SchedType /\ QueueInv(Boot(t)) /\ CurRunnable(Boot(t))
<1> DEFINE b == Boot(t)
<1>1. t \in Tasks /\ Idle \in Tasks /\ t # Idle /\ maxPrior = 1
  BY IdleAssumption, Zenon DEF Tasks, maxPrior
<1>2. <<t>> \in Seq(Tasks) /\ <<Idle>> \in Seq(Tasks)
  BY <1>1
<1>3. /\ b.ready = [p \in 0 .. maxPrior |-> IF p = 0 THEN <<t>> ELSE <<Idle>>]
      /\ b.pending = {}
      /\ b.state = [x \in Tasks |-> IF x \in {t, Idle} THEN "Init" ELSE "None"]
      /\ b.curtask = Idle
      /\ b \in SchedType
  BY <1>1, <1>2, Zenon DEF Boot, SchedType, State
<1> HIDE DEF b
<1>4. b.ready[0] = <<t>> /\ b.ready[maxPrior] = <<Idle>>
  BY <1>1, <1>3
<1>5. \A x \in Tasks : b.state[x] = IF x \in {t, Idle} THEN "Init" ELSE "None"
  BY <1>3, Zenon
<1>6. NoDoubleQueue(b)
  BY <1>1, <1>3, <1>4, <1>5 DEF NoDoubleQueue, Runnable
<1>7. NoLostTask(b)
  BY <1>1, <1>3, <1>4, <1>5 DEF NoLostTask, Runnable, Elements, Tasks
<1>8. IdleReady(b)
  BY <1>1, <1>3, <1>4, <1>5 DEF IdleReady, Runnable
<1>9. PendingSet(b) /\ CurExists(b) /\ CurRunnable(b)
  BY <1>1, <1>3, <1>5, Zenon DEF PendingSet, CurExists, CurRunnable, Runnable
<1> QED
  BY <1>3, <1>6, <1>7, <1>8, <1>9, Zenon DEF QueueInv, b

-----------------------------------------------------------------------------
(***************************************************************************)
(* The inductive invariant of Sched is the queue invariant, strengthened   *)
(* by the type and by the fact that the current task may run: without it a *)
(* wake-up of the current task would queue it a second time.               *)
(***************************************************************************)
SchedInv == SchedTypeOK /\ QueuesExact /\ CurrentMayRun

\* Every action of the scheduler preserves the inductive invariant.
LEMMA NextPreserves == SchedInv /\ [SchedNext]_sched => SchedInv'
<1> SUFFICES ASSUME SchedInv, [SchedNext]_sched
             PROVE  SchedInv'
  BY Zenon
<1> USE DEF SchedInv, SchedTypeOK, QueuesExact, CurrentMayRun
<1>0. cur \in Tasks /\ (cur # Idle => cur \in UserTasks)
  BY Zenon DEF cur, SchedType, Tasks
<1>1. CASE Yield
  BY <1>1, ScheduleSound, Zenon DEF Yield
<1>2. CASE SleepCur
  <2>1. cur \in UserTasks
    BY <1>0, <1>2, Zenon DEF SleepCur
  <2>2. Sleep(sched, cur) \in SchedType /\ QueueInv(Sleep(sched, cur))
    BY <2>1, SleepSound, Zenon
  <2> QED
    BY <1>2, <2>2, ScheduleSound, Zenon DEF SleepCur
<1>3. ASSUME NEW t \in UserTasks, WakeupTask(t)
      PROVE  SchedInv'
  <2>1. sched.state[cur] # "Pending"
    BY Zenon DEF CurRunnable, Runnable, cur
  <2>2. /\ Wakeup(sched, t) \in SchedType /\ QueueInv(Wakeup(sched, t))
        /\ Wakeup(sched, t).curtask = sched.curtask
        /\ Wakeup(sched, t).state = IF sched.state[t] = "Pending"
                                    THEN [sched.state EXCEPT ![t] = "Ready"] ELSE sched.state
    BY <2>1, WakeupSound, Zenon DEF cur
  <2>3. CurRunnable(Wakeup(sched, t))
    BY <1>0, <2>2 DEF CurRunnable, Runnable, SchedType, cur
  <2> QED
    BY <1>3, <2>2, <2>3, Zenon DEF WakeupTask
<1>4. ASSUME NEW t \in UserTasks, NewTask(t)
      PROVE  SchedInv'
  <2>1. /\ Create(sched, t) \in SchedType /\ QueueInv(Create(sched, t))
        /\ Create(sched, t).curtask = sched.curtask
        /\ Create(sched, t).state = [sched.state EXCEPT ![t] = "Init"]
    BY <1>4, CreateSound, Zenon DEF NewTask
  <2>2. CurRunnable(Create(sched, t))
    BY <1>0, <2>1, Zenon DEF CurRunnable, Runnable, SchedType, cur
  <2> QED
    BY <1>4, <2>1, <2>2, Zenon DEF NewTask
<1>5. ASSUME NEW S \in SUBSET UserTasks, ExitTasks(S)
      PROVE  SchedInv'
  <2>1. Kill(sched, S) \in SchedType /\ QueueInv(Kill(sched, S))
    BY KillSound, Zenon
  <2> QED
    BY <1>5, <2>1, ScheduleSound, Zenon DEF ExitTasks
<1>6. CASE UNCHANGED sched
  BY <1>6, Zenon
<1> QED
  BY <1>1, <1>2, <1>3, <1>4, <1>5, <1>6, Zenon DEF SchedNext

\* The inductive invariant holds of every reachable state.
THEOREM SchedInvariant == SchedSpec => []SchedInv
<1>1. SchedInit => SchedInv
  BY BootSound, InitTaskAssumption, Zenon DEF SchedInit, SchedInv, SchedTypeOK, QueuesExact, CurrentMayRun
<1> QED
  BY <1>1, NextPreserves, PTL DEF SchedSpec

(***************************************************************************)
(* For any number of tasks: a runnable task is running or queued exactly   *)
(* once, a sleeping or exited task is never queued, and next() always has  *)
(* a task to return.                                                       *)
(***************************************************************************)
THEOREM QueuesAlwaysExact == SchedSpec => []QueuesExact
<1>1. SchedInv => QueuesExact
  BY Zenon DEF SchedInv
<1> QED
  BY <1>1, SchedInvariant, PTL

(***************************************************************************)
(* For any number of tasks: schedule() never resumes a sleeping or exited  *)
(* task, so the assertion of Scheduler::sleep holds.                       *)
(***************************************************************************)
THEOREM CurrentAlwaysMayRun == SchedSpec => []CurrentMayRun
<1>1. SchedInv => CurrentMayRun
  BY Zenon DEF SchedInv
<1> QED
  BY <1>1, SchedInvariant, PTL

-----------------------------------------------------------------------------
\* What a step does to the states of the tasks, and when it picks Idle.
LEMMA StepStates ==
    ASSUME SchedInv, SchedNext
    PROVE  /\ \A t \in UserTasks : sched.state[t] = "Zombie" => sched'.state[t] = "Zombie"
           /\ sched'.curtask = Idle /\ sched.curtask # Idle =>
                 \A t \in UserTasks : ~Runnable(sched', t)
<1> USE DEF SchedInv, SchedTypeOK, QueuesExact, CurrentMayRun
<1>0. /\ cur \in Tasks /\ (cur # Idle => cur \in UserTasks)
      /\ sched.state[cur] \notin {"Zombie", "Pending"}
      /\ UserTasks \subseteq Tasks
  BY Zenon DEF cur, SchedType, Tasks, CurRunnable, Runnable
<1>1. CASE Yield
  <2>1. /\ sched'.state = sched.state
        /\ sched'.curtask = Idle => \A t \in UserTasks : ~Runnable(sched, t)
    BY <1>1, ScheduleSound, Zenon DEF Yield
  <2> QED
    BY <2>1, Zenon DEF Runnable
<1>2. CASE SleepCur
  <2> DEFINE u == Sleep(sched, cur)
  <2>1. cur \in UserTasks
    BY <1>0, <1>2, Zenon DEF SleepCur
  <2>2. /\ u \in SchedType /\ QueueInv(u)
        /\ u.state = [sched.state EXCEPT ![cur] = "Pending"]
    BY <2>1, SleepSound, Zenon
  <2> HIDE DEF u
  <2>3. /\ sched'.state = u.state
        /\ sched'.curtask = Idle => \A t \in UserTasks : ~Runnable(u, t)
    BY <1>2, <2>2, ScheduleSound, Zenon DEF SleepCur, u
  <2>4. \A t \in UserTasks : u.state[t] = IF t = cur THEN "Pending" ELSE sched.state[t]
    BY <1>0, <2>2, Zenon DEF SchedType
  <2> QED
    BY <1>0, <2>3, <2>4, Zenon DEF Runnable
<1>3. ASSUME NEW x \in UserTasks, WakeupTask(x)
      PROVE  /\ \A t \in UserTasks : sched.state[t] = "Zombie" => sched'.state[t] = "Zombie"
             /\ sched'.curtask = sched.curtask
  <2>1. /\ sched'.curtask = sched.curtask
        /\ sched'.state = IF sched.state[x] = "Pending"
                          THEN [sched.state EXCEPT ![x] = "Ready"] ELSE sched.state
    BY <1>0, <1>3, WakeupSound, Zenon DEF WakeupTask, cur
  <2>2. sched.state \in [Tasks -> State]
    BY Zenon DEF SchedType
  <2> QED
    BY <1>0, <2>1, <2>2, Zenon
<1>4. ASSUME NEW x \in UserTasks, NewTask(x)
      PROVE  /\ \A t \in UserTasks : sched.state[t] = "Zombie" => sched'.state[t] = "Zombie"
             /\ sched'.curtask = sched.curtask
  <2>1. /\ sched'.curtask = sched.curtask
        /\ sched'.state = [sched.state EXCEPT ![x] = "Init"]
        /\ sched.state[x] = "None"
    BY <1>4, CreateSound, Zenon DEF NewTask
  <2>2. sched.state \in [Tasks -> State]
    BY Zenon DEF SchedType
  <2> QED
    BY <1>0, <2>1, <2>2, Zenon
<1>5. ASSUME NEW S \in SUBSET UserTasks, ExitTasks(S)
      PROVE  /\ \A t \in UserTasks : sched.state[t] = "Zombie" => sched'.state[t] = "Zombie"
             /\ sched'.curtask = Idle => \A t \in UserTasks : ~Runnable(sched', t)
  <2> DEFINE u == Kill(sched, S)
  <2>1. /\ u \in SchedType /\ QueueInv(u)
        /\ u.state = [t \in Tasks |-> IF t \in S THEN "Zombie" ELSE sched.state[t]]
    BY KillSound, Zenon
  <2> HIDE DEF u
  <2>2. /\ sched'.state = u.state
        /\ sched'.curtask = Idle => \A t \in UserTasks : ~Runnable(u, t)
    BY <1>5, <2>1, ScheduleSound, Zenon DEF ExitTasks, u
  <2> QED
    BY <1>0, <2>1, <2>2, Zenon DEF Runnable
<1> QED
  BY <1>1, <1>2, <1>3, <1>4, <1>5, Zenon DEF SchedNext

(***************************************************************************)
(* For any number of tasks: an exited task is never revived nor resumed,   *)
(* whatever wake-ups still name it.                                        *)
(***************************************************************************)
THEOREM DeadAlwaysStayDead == SchedSpec => DeadStayDead
<1> DEFINE A == \A t \in UserTasks :
                   sched.state[t] = "Zombie" => /\ sched'.state[t] = "Zombie"
                                                /\ sched'.curtask # t
<1>1. SchedInv /\ SchedInv' /\ [SchedNext]_sched => [A]_sched
  <2> SUFFICES ASSUME SchedInv, SchedInv', SchedNext
               PROVE  A
    BY Zenon
  <2>1. \A t \in UserTasks : sched.state[t] = "Zombie" => sched'.state[t] = "Zombie"
    BY StepStates, Zenon
  <2>2. sched'.state[sched'.curtask] # "Zombie"
    BY Zenon DEF SchedInv, CurrentMayRun, CurRunnable, Runnable
  <2> QED
    BY <2>1, <2>2, Zenon
<1> QED
  BY <1>1, SchedInvariant, PTL DEF SchedSpec, DeadStayDead

(***************************************************************************)
(* For any number of tasks: the idle task is given the hart only when no   *)
(* user task may run.                                                      *)
(***************************************************************************)
THEOREM IdleAlwaysLast == SchedSpec => IdleOnlyIfNoneReady
<1> DEFINE A == sched'.curtask = Idle /\ sched.curtask # Idle =>
                   \A t \in UserTasks : ~Runnable(sched', t)
<1>1. SchedInv /\ [SchedNext]_sched => [A]_sched
  BY StepStates, Zenon
<1> QED
  BY <1>1, SchedInvariant, PTL DEF SchedSpec, IdleOnlyIfNoneReady
-----------------------------------------------------------------------------
(***************************************************************************)
(* Round robin.  Wherever t is on the priority-0 list of s, it is on that  *)
(* of v, no further back.                                                  *)
(***************************************************************************)
NoFurther(q, r, t) ==
    \A i \in 1 .. Len(q) : q[i] = t => \E j \in 1 .. Len(r) : r[j] = t /\ j <= i

\* A list that keeps its elements in their places, or moves them up, and a
\* second one like it.
LEMMA NoFurtherTrans ==
    ASSUME NEW q \in Seq(Tasks), NEW r \in Seq(Tasks), NEW l \in Seq(Tasks), NEW t,
           NoFurther(q, r, t), NoFurther(r, l, t)
    PROVE  NoFurther(q, l, t)
<1> SUFFICES ASSUME NEW i \in 1 .. Len(q), q[i] = t
             PROVE  \E j \in 1 .. Len(l) : l[j] = t /\ j <= i
  BY Zenon DEF NoFurther
<1>1. Len(q) \in Nat /\ Len(r) \in Nat /\ Len(l) \in Nat
  OBVIOUS
<1>2. PICK k \in 1 .. Len(r) : r[k] = t /\ k <= i
  BY Zenon DEF NoFurther
<1>3. PICK j \in 1 .. Len(l) : l[j] = t /\ j <= k
  BY <1>2, Zenon DEF NoFurther
<1>4. j <= i
  BY <1>1, <1>2, <1>3
<1> QED
  BY <1>3, <1>4, Zenon

\* list::remove of others moves nobody back.
LEMMA WithoutNoFurther ==
    ASSUME NEW q \in Seq(Tasks), NEW S, NEW t, t \notin S
    PROVE  NoFurther(q, Without(q, S), t)
<1> DEFINE r == Without(q, S)
<1>1. r \in Seq(Tasks)
  BY WithoutEnumerates, Zenon
<1>0. PICK f : Enumerates(f, Kept(q, S), q, r)
  BY WithoutEnumerates, Zenon
<1>2. /\ f \in [1 .. Len(r) -> Kept(q, S)]
      /\ \A i \in 1 .. Len(r) : r[i] = q[f[i]] /\ i <= f[i]
      /\ \A i, j \in 1 .. Len(r) : i < j => f[i] < f[j]
      /\ \A k \in Kept(q, S) : \E i \in 1 .. Len(r) : f[i] = k
  BY <1>0, Zenon DEF Enumerates
<1> HIDE DEF r
<1> SUFFICES ASSUME NEW i \in 1 .. Len(q), q[i] = t
             PROVE  \E j \in 1 .. Len(r) : r[j] = t /\ j <= i
  BY Zenon DEF NoFurther, r
<1>3. i \in Kept(q, S)
  BY Zenon DEF Kept
<1>4. PICK j \in 1 .. Len(r) : f[j] = i
  BY <1>2, <1>3, Zenon
<1>5. r[j] = t /\ j <= i
  BY <1>2, <1>4, Zenon
<1> QED
  BY <1>5, Zenon

\* Scheduler::add puts a task behind those that are queued.
LEMMA AddNoFurther ==
    ASSUME NEW s \in SchedType, NEW x \in Tasks, NEW t
    PROVE  NoFurther(s.ready[0], Add(s, x).ready[0], t)
<1> DEFINE q == s.ready[0]
<1>0. q \in Seq(Tasks) /\ Len(q) \in Nat /\ 0 \in 0 .. maxPrior
  BY DEF SchedType, maxPrior
<1>1. NoFurther(q, q, t)
  BY <1>0 DEF NoFurther
<1>2. CASE s.state[x] \in {"Zombie", "Pending"}
  BY <1>1, <1>2, Zenon DEF Add
<1>3. CASE s.state[x] \notin {"Zombie", "Pending"} /\ prior(x) = 0
  <2>1. Add(s, x).ready[0] = Append(q, x)
    BY <1>3, AddFields, Zenon
  <2> HIDE DEF q
  <2>2. Len(Append(q, x)) = Len(q) + 1 /\ \A i \in 1 .. Len(q) : Append(q, x)[i] = q[i]
    BY <1>0, AppendIs, Zenon
  <2>3. NoFurther(q, Append(q, x), t)
    BY <1>0, <2>2 DEF NoFurther
  <2> QED
    BY <2>1, <2>3, Zenon DEF q
<1>4. CASE s.state[x] \notin {"Zombie", "Pending"} /\ prior(x) # 0
  <2>1. Add(s, x).ready[0] = q
    BY <1>0, <1>4, AddFields, Zenon
  <2> QED
    BY <1>1, <2>1, Zenon
<1> QED
  BY <1>2, <1>3, <1>4, Zenon

\* schedule() runs the head of the list and moves the others up.
LEMMA ScheduleNoFurther ==
    ASSUME NEW s \in SchedType, QueueInv(s), NEW t \in UserTasks,
           Schedule(s).curtask # t
    PROVE  NoFurther(s.ready[0], Schedule(s).ready[0], t)
<1> DEFINE s1 == Add(s, s.curtask)
           v  == Schedule(s)
           p  == FirstReady(s1)
           q  == s1.ready[0]
<1>0. s.curtask \in Tasks /\ s.ready[0] \in Seq(Tasks) /\ s.ready[1] \in Seq(Tasks)
      /\ maxPrior = 1 /\ 0 \in 0 .. maxPrior /\ 1 \in 0 .. maxPrior
  BY DEF SchedType, maxPrior
<1>1. s1 \in SchedType /\ q \in Seq(Tasks) /\ Len(q) \in Nat
  <2>1. s1 \in SchedType
    BY <1>0, AddFields, Zenon DEF Add
  <2> QED
    BY <2>1 DEF SchedType, maxPrior
<1>2. s1.ready[1] # <<>>
  <2>1. Len(s.ready[1]) > 0
    BY <1>0 DEF QueueInv, IdleReady
  <2>2. CASE s1.ready[1] = s.ready[1]
    BY <2>1, <2>2
  <2>3. CASE s1.ready[1] = Append(s.ready[1], s.curtask)
    <3> HIDE DEF s1
    <3> QED
      BY <1>0, <2>3, SMTT(30)
  <2>4. prior(s.curtask) \in {0, 1}
    BY <1>0, Zenon DEF prior
  <2>5. s1.ready[1] = s.ready[1] \/ s1.ready[1] = Append(s.ready[1], s.curtask)
    <3>1. CASE s.state[s.curtask] \in {"Zombie", "Pending"}
      BY <3>1, Zenon DEF Add
    <3>2. CASE s.state[s.curtask] \notin {"Zombie", "Pending"}
      <4>1. /\ s1.ready[prior(s.curtask)] = Append(s.ready[prior(s.curtask)], s.curtask)
            /\ \A r \in 0 .. maxPrior : r # prior(s.curtask) => s1.ready[r] = s.ready[r]
        BY <1>0, <3>2, AddFields, Zenon
      <4> HIDE DEF s1
      <4>2. CASE prior(s.curtask) = 1
        BY <4>1, <4>2, Zenon
      <4>3. CASE prior(s.curtask) = 0
        <5>1. 1 # prior(s.curtask)
          BY <4>3
        <5> QED
          BY <1>0, <4>1, <5>1, Zenon
      <4> QED
        BY <2>4, <4>2, <4>3, Zenon
    <3> QED
      BY <3>1, <3>2, Zenon
  <2> QED
    BY <2>2, <2>3, <2>5, Zenon
<1>3. NoFurther(s.ready[0], q, t)
  BY <1>0, AddNoFurther, Zenon
<1>4. v = SwitchTo(s1, p)
  BY Zenon DEF Schedule
<1> HIDE DEF s1, v, p
<1>5. CASE q # <<>>
  <2>1. p = 0
    BY <1>1, <1>5, FirstReadyIs, Zenon DEF p
  <2>2. v.curtask = Head(q) /\ v.ready[0] = Tail(q)
    BY <1>0, <1>1, <1>4, <1>5, <2>1, PopFields, ZenonT(40)
  <2> HIDE DEF q
  <2>3. /\ Head(q) = q[1] /\ Tail(q) \in Seq(Tasks) /\ Len(Tail(q)) = Len(q) - 1
        /\ \A i \in 1 .. Len(q) - 1 : Tail(q)[i] = q[i + 1]
    BY <1>1, <1>5 DEF q
  <2>4. ASSUME NEW i \in 1 .. Len(q), q[i] = t
        PROVE  \E j \in 1 .. Len(Tail(q)) : Tail(q)[j] = t /\ j <= i
    <3>1. i # 1
      BY <2>2, <2>3, <2>4, Zenon DEF v
    <3>2. i - 1 \in 1 .. Len(Tail(q)) /\ (i - 1) + 1 = i /\ i - 1 <= i
      BY <1>1, <2>3, <3>1
    <3>3. Tail(q)[i - 1] = t
      BY <2>3, <2>4, <3>2, Zenon
    <3> QED
      BY <3>2, <3>3, Zenon
  <2>5. NoFurther(q, Tail(q), t)
    BY <2>4, Zenon DEF NoFurther
  <2>6. NoFurther(s.ready[0], Tail(q), t)
    BY <1>0, <1>1, <1>3, <2>3, <2>5, NoFurtherTrans, Zenon
  <2> QED
    BY <2>2, <2>6, Zenon DEF v
<1>6. CASE q = <<>>
  <2>1. p = 1
    BY <1>0, <1>1, <1>2, <1>6, FirstReadyIs, Zenon DEF p
  <2>2. v.ready[0] = q
    BY <1>0, <1>1, <1>2, <1>4, <2>1, PopFields
  <2> QED
    BY <1>3, <2>2, Zenon DEF v
<1> QED
  BY <1>5, <1>6, Zenon

\* What NoFurther says of positions, where every task is queued once.
LEMMA PositionNoFurther ==
    ASSUME NEW s \in SchedType, NEW v \in SchedType, NEW t,
           NoDoubleQueue(v), Queued(s, t), NoFurther(s.ready[0], v.ready[0], t)
    PROVE  Queued(v, t) /\ Position(v, t) <= Position(s, t)
<1> DEFINE q == s.ready[0]
           r == v.ready[0]
           i == Position(s, t)
           k == Position(v, t)
<1>1. /\ DOMAIN q = 1 .. Len(q) /\ DOMAIN r = 1 .. Len(r)
      /\ Len(q) \in Nat /\ Len(r) \in Nat
  BY DEF SchedType, maxPrior
<1>2. \A a, b \in 1 .. Len(r) : r[a] = r[b] => a = b
  BY Zenon DEF NoDoubleQueue
<1>3. \E a \in 1 .. Len(q) : q[a] = t
  BY <1>1, Zenon DEF Queued, Elements
<1>4. i \in 1 .. Len(q) /\ q[i] = t
  BY <1>3, Zenon DEF Position
<1> HIDE DEF i
<1>5. PICK j \in 1 .. Len(r) : r[j] = t /\ j <= i
  BY <1>4, Zenon DEF NoFurther
<1>6. k \in 1 .. Len(r) /\ r[k] = t
  BY <1>5, Zenon DEF Position
<1> HIDE DEF k
<1>7. k = j
  BY <1>2, <1>5, <1>6, Zenon
<1>8. Queued(v, t)
  BY <1>1, <1>5, Zenon DEF Queued, Elements
<1> QED
  BY <1>5, <1>7, <1>8, Zenon DEF i, k

(***************************************************************************)
(* For any number of tasks: no call moves a queued task back, and a task   *)
(* that leaves the queue runs or has exited.                               *)
(***************************************************************************)
THEOREM NeverOvertaken == SchedSpec => NoOvertaking
<1> DEFINE A == \A t \in UserTasks : Queued(sched, t) =>
                   \/ Queued(sched', t) /\ Position(sched', t) <= Position(sched, t)
                   \/ sched'.curtask = t
                   \/ sched'.state[t] = "Zombie"
<1>1. SchedInv /\ SchedInv' /\ [SchedNext]_sched => [A]_sched
  <2> SUFFICES ASSUME SchedInv, SchedInv', SchedNext, NEW t \in UserTasks, Queued(sched, t),
                      sched'.curtask # t, sched'.state[t] # "Zombie"
               PROVE  NoFurther(sched.ready[0], sched'.ready[0], t)
    BY PositionNoFurther, Zenon DEF SchedInv, SchedTypeOK, QueuesExact, QueueInv
  <2> DEFINE q == sched.ready[0]
  <2>0. /\ sched \in SchedType /\ QueueInv(sched) /\ CurRunnable(sched)
        /\ q \in Seq(Tasks)
        /\ cur = sched.curtask /\ cur \in Tasks /\ (cur # Idle => cur \in UserTasks)
        /\ t # cur /\ t \in Tasks /\ 0 \in 0 .. maxPrior
    <3>1. sched \in SchedType /\ QueueInv(sched) /\ CurRunnable(sched)
      BY Zenon DEF SchedInv, SchedTypeOK, QueuesExact, CurrentMayRun
    <3>2. q \in Seq(Tasks) /\ DOMAIN q = 1 .. Len(q) /\ sched.curtask \in Tasks /\ 0 \in 0 .. maxPrior
      BY <3>1 DEF SchedType, maxPrior
    <3>3. t # sched.curtask
      BY <3>1, <3>2, Zenon DEF Queued, Elements, QueueInv, NoDoubleQueue
    <3> QED
      BY <3>1, <3>2, <3>3, Zenon DEF cur, Tasks
  <2>1. CASE Yield
    BY <2>0, <2>1, ScheduleNoFurther, Zenon DEF Yield
  <2>2. CASE SleepCur
    <3> DEFINE u == Sleep(sched, cur)
    <3>1. cur \in UserTasks /\ prior(cur) = 0
      BY <2>0, <2>2, Zenon DEF SleepCur, prior
    <3>2. u \in SchedType /\ QueueInv(u)
      BY <2>0, <3>1, SleepSound, Zenon
    <3>3. u.ready[0] = Without(q, {cur})
      BY <2>0, <3>1, Zenon DEF Sleep, SchedType
    <3>4. sched' = Schedule(u)
      BY <2>2, Zenon DEF SleepCur
    <3> HIDE DEF u
    <3>5. NoFurther(u.ready[0], sched'.ready[0], t)
      BY <3>2, <3>4, ScheduleNoFurther, Zenon
    <3>6. NoFurther(q, u.ready[0], t)
      BY <2>0, <3>3, WithoutNoFurther, Zenon
    <3>7. u.ready[0] \in Seq(Tasks) /\ sched'.ready[0] \in Seq(Tasks)
      BY <2>0, <3>2, Zenon DEF SchedInv, SchedTypeOK, SchedType
    <3> QED
      BY <2>0, <3>5, <3>6, <3>7, NoFurtherTrans, Zenon
  <2>3. ASSUME NEW x \in UserTasks, WakeupTask(x)
        PROVE  NoFurther(q, sched'.ready[0], t)
    <3>1. CASE sched.state[x] # "Pending"
      <4>1. sched' = sched
        BY <2>3, <3>1, Zenon DEF WakeupTask, Wakeup
      <4> QED
        BY <2>0, <4>1 DEF NoFurther
    <3>2. CASE sched.state[x] = "Pending"
      <4> DEFINE u == [sched EXCEPT !.pending = @ \ {x}, !.state[x] = "Ready"]
      <4>1. x \in Tasks /\ u \in SchedType /\ u.ready = sched.ready
        BY <2>0, Zenon DEF SchedType, State, Tasks
      <4>2. sched' = Add(u, x)
        BY <2>3, <3>2, Zenon DEF WakeupTask, Wakeup
      <4> HIDE DEF u
      <4> QED
        BY <4>1, <4>2, AddNoFurther, Zenon
    <3> QED
      BY <3>1, <3>2, Zenon
  <2>4. ASSUME NEW x \in UserTasks, NewTask(x)
        PROVE  NoFurther(q, sched'.ready[0], t)
    <3> DEFINE u == [sched EXCEPT !.state[x] = "Init"]
    <3>1. x \in Tasks /\ u \in SchedType /\ u.ready = sched.ready
      BY <2>0, Zenon DEF SchedType, State, Tasks
    <3>2. sched' = Add(u, x)
      BY <2>4, Zenon DEF NewTask, Create
    <3> HIDE DEF u
    <3> QED
      BY <3>1, <3>2, AddNoFurther, Zenon
  <2>5. ASSUME NEW S \in SUBSET UserTasks, ExitTasks(S)
        PROVE  NoFurther(q, sched'.ready[0], t)
    <3> DEFINE u == Kill(sched, S)
    <3>1. /\ u \in SchedType /\ QueueInv(u)
          /\ u.state = [y \in Tasks |-> IF y \in S THEN "Zombie" ELSE sched.state[y]]
      BY <2>0, KillSound, Zenon
    <3>2. u.ready[0] = Without(q, S)
      BY <2>0, Zenon DEF Kill, SchedType
    <3>3. sched' = Schedule(u)
      BY <2>5, Zenon DEF ExitTasks
    <3> HIDE DEF u
    <3>4. t \notin S
      <4>1. sched'.state = u.state
        BY <3>1, <3>3, ScheduleSound, Zenon
      <4> QED
        BY <2>0, <3>1, <4>1, Zenon
    <3>5. NoFurther(u.ready[0], sched'.ready[0], t)
      BY <3>1, <3>3, ScheduleNoFurther, Zenon
    <3>6. NoFurther(q, u.ready[0], t)
      BY <2>0, <3>2, <3>4, WithoutNoFurther, Zenon
    <3>7. u.ready[0] \in Seq(Tasks) /\ sched'.ready[0] \in Seq(Tasks)
      BY <2>0, <3>1, Zenon DEF SchedInv, SchedTypeOK, SchedType
    <3> QED
      BY <2>0, <3>5, <3>6, <3>7, NoFurtherTrans, Zenon
  <2> QED
    BY <2>1, <2>2, <2>3, <2>4, <2>5, Zenon DEF SchedNext
<1> QED
  BY <1>1, SchedInvariant, PTL DEF SchedSpec, NoOvertaking
=============================================================================
