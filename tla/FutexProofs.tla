----------------------------- MODULE FutexProofs -----------------------------
(***************************************************************************)
(* The futex system call for any number of threads and broadcasts: waiting *)
(* lists and sleepers agree, and neither the lock nor the condition loses  *)
(* a wake-up.                                                              *)
(*                                                                         *)
(* The inductive invariant says besides where a thread is that sleeps, and *)
(* that a lock that is not free has a holder: a thread that goes to sleep  *)
(* because the word is 2 relies on the holder to wake it.                  *)
(***************************************************************************)
EXTENDS Futex, SequenceTheorems, TLAPS

\* A thread on a list goes on with the lock, or with the join, when it wakes.
SleepersInv ==
    \A a \in Addrs : \A t \in Range(futexes[a]) :
        pc[t] = IF a \in Threads THEN "join" ELSE "contend"

\* A lock that is taken has a holder.
HolderInv == word[Mutex] # 0 => \E t \in Threads : pc[t] = "in"

\* The bound of the broadcasts.
CountInv == word[Mutex] \in 0 .. 2 /\ word[Cond] <= MaxCast

IInv ==
    /\ TypeOK /\ WaitersListed
    /\ SleepersInv /\ HolderInv /\ CountInv
    /\ LockNotMissed /\ CondNotMissed

-----------------------------------------------------------------------------
(***************************************************************************)
(* The waiting lists.                                                      *)
(***************************************************************************)
\* A thread that is not on a list is put at its end.
LEMMA AppendNew ==
    ASSUME NEW S, NEW q \in Seq(S), IsInjective(q), NEW t \in S, t \notin Range(q)
    PROVE  /\ Append(q, t) \in Seq(S) /\ IsInjective(Append(q, t))
           /\ Range(Append(q, t)) = Range(q) \cup {t}
<1> DEFINE r == Append(q, t)
<1>1. /\ Len(q) \in Nat /\ DOMAIN q = 1 .. Len(q)
      /\ r \in Seq(S) /\ Len(r) = Len(q) + 1 /\ DOMAIN r = 1 .. Len(q) + 1
      /\ \A i \in 1 .. Len(q) : r[i] = q[i]
      /\ r[Len(q) + 1] = t
  BY AppendProperties, LenProperties
<1> HIDE DEF r
<1>2. \A i \in 1 .. Len(q) : q[i] # t
  BY <1>1 DEF Range
<1>3. IsInjective(r)
  <2> SUFFICES ASSUME NEW i \in 1 .. Len(q) + 1, NEW j \in 1 .. Len(q) + 1, r[i] = r[j]
               PROVE  i = j
    BY <1>1 DEF IsInjective
  <2>1. CASE i \in 1 .. Len(q) /\ j \in 1 .. Len(q)
    BY <1>1, <2>1 DEF IsInjective
  <2>2. CASE i = Len(q) + 1 \/ j = Len(q) + 1
    BY <1>1, <1>2, <2>2
  <2> QED
    BY <1>1, <2>1, <2>2
<1>4. ASSUME NEW x PROVE x \in Range(r) <=> x \in Range(q) \cup {t}
  <2>1. ASSUME x \in Range(r) PROVE x \in Range(q) \cup {t}
    <3>1. PICK i \in 1 .. Len(q) + 1 : x = r[i]
      BY <1>1, <2>1 DEF Range
    <3> QED
      BY <1>1, <3>1 DEF Range
  <2>2. ASSUME x \in Range(q) PROVE x \in Range(r)
    <3>1. PICK i \in 1 .. Len(q) : x = q[i]
      BY <1>1, <2>2 DEF Range
    <3>2. i \in 1 .. Len(q) + 1 /\ x = r[i]
      BY <1>1, <3>1
    <3> QED
      BY <1>1, <3>2 DEF Range
  <2>3. t \in Range(r)
    <3>1. Len(q) + 1 \in 1 .. Len(q) + 1
      BY <1>1
    <3> QED
      BY <1>1, <3>1 DEF Range
  <2> QED
    BY <2>1, <2>2, <2>3
<1> QED
  BY <1>1, <1>3, <1>4 DEF r

\* A part of a list.
LEMMA Slice ==
    ASSUME NEW S, NEW q \in Seq(S), NEW l \in Nat, l > 0, NEW m \in Nat, l <= m + 1, m <= Len(q)
    PROVE  /\ SubSeq(q, l, m) \in Seq(S)
           /\ DOMAIN SubSeq(q, l, m) = 1 .. m - l + 1
           /\ \A i \in 1 .. m - l + 1 : SubSeq(q, l, m)[i] = q[l + i - 1]
<1>1. Len(q) \in Nat /\ \A i \in 1 .. Len(q) : q[i] \in S
  BY LenProperties, ElementOfSeq
<1>2. \A i \in l .. m : q[i] \in S
  BY <1>1
<1>3. /\ SubSeq(q, l, m) \in Seq(S)
      /\ Len(SubSeq(q, l, m)) = IF l <= m THEN m - l + 1 ELSE 0
      /\ \A i \in 1 .. m - l + 1 : SubSeq(q, l, m)[i] = q[l + i - 1]
  <2>1. l \in Int /\ m \in Int
    OBVIOUS
  <2> QED
    BY <1>2, <2>1, SubSeqProperties
<1>4. PICK r \in Seq(S) : r = SubSeq(q, l, m)
  BY <1>3
<1>5. Len(r) = m - l + 1
  BY <1>3, <1>4
<1>6. \A i \in 1 .. m - l + 1 : r[i] = q[l + i - 1]
  BY <1>3, <1>4
<1>7. DOMAIN r = 1 .. m - l + 1
  BY <1>5, LenProperties
<1> QED
  BY <1>4, <1>6, <1>7

\* A list of length k falls into m elements in front and j behind.
Falls(q, k, w, m, r, j) ==
    /\ m + j = k /\ DOMAIN q = 1 .. k /\ IsInjective(q)
    /\ DOMAIN w = 1 .. m /\ \A i \in 1 .. m : w[i] = q[i]
    /\ DOMAIN r = 1 .. j /\ \A i \in 1 .. j : r[i] = q[m + i]

\* What such parts have in common with the list and with each other.
LEMMA Split ==
    ASSUME NEW k \in Nat, NEW m \in Nat, NEW j \in Nat, NEW q, NEW w, NEW r,
           Falls(q, k, w, m, r, j)
    PROVE  /\ IsInjective(r)
           /\ Range(w) \cup Range(r) = Range(q) /\ Range(w) \cap Range(r) = {}
<1> USE DEF Falls
<1>1. IsInjective(r)
  <2> SUFFICES ASSUME NEW x \in 1 .. j, NEW y \in 1 .. j, r[x] = r[y]
               PROVE  x = y
    BY DEF IsInjective
  <2>1. m + x \in 1 .. k /\ m + y \in 1 .. k
    OBVIOUS
  <2>2. q[m + x] = q[m + y]
    OBVIOUS
  <2>3. m + x = m + y
    BY <2>1, <2>2 DEF IsInjective
  <2> QED
    BY <2>3
<1>2. ASSUME NEW x \in 1 .. k PROVE q[x] \in Range(w) \cup Range(r)
  <2>1. CASE x <= m
    BY <2>1 DEF Range
  <2>2. CASE x > m
    <3>1. x - m \in 1 .. j /\ q[x] = r[x - m]
      BY <2>2
    <3> QED
      BY <3>1 DEF Range
  <2> QED
    BY <2>1, <2>2
<1>3. ASSUME NEW x \in 1 .. m PROVE w[x] \in Range(q)
  BY DEF Range
<1>4. ASSUME NEW x \in 1 .. j PROVE r[x] \in Range(q)
  <2>1. m + x \in 1 .. k
    OBVIOUS
  <2> QED
    BY <2>1 DEF Range
<1>5. ASSUME NEW x \in 1 .. m, NEW y \in 1 .. j PROVE w[x] # r[y]
  <2>1. x \in 1 .. k /\ m + y \in 1 .. k /\ x # m + y
    OBVIOUS
  <2> QED
    BY <2>1 DEF IsInjective
<1>6. Range(w) \cap Range(r) = {}
  BY <1>5 DEF Range
<1>7. Range(w) \cup Range(r) = Range(q)
  BY <1>2, <1>3, <1>4 DEF Range
<1> QED
  BY <1>1, <1>6, <1>7

\* n calls of notify_one take the first n off a longer list.
LEMMA Cut ==
    ASSUME NEW S, NEW q \in Seq(S), IsInjective(q), NEW n \in Nat, n < Len(q)
    PROVE  /\ SubSeq(q, n + 1, Len(q)) \in Seq(S) /\ IsInjective(SubSeq(q, n + 1, Len(q)))
           /\ Range(SubSeq(q, 1, n)) \cup Range(SubSeq(q, n + 1, Len(q))) = Range(q)
           /\ Range(SubSeq(q, 1, n)) \cap Range(SubSeq(q, n + 1, Len(q))) = {}
           /\ n > 0 => q[1] \in Range(SubSeq(q, 1, n))
<1>1. PICK k \in Nat : k = Len(q)
  BY LenProperties
<1>2. k - n \in Nat /\ n + (k - n) = k /\ n <= k
  BY <1>1
<1>3. DOMAIN q = 1 .. k
  BY <1>1, LenProperties
<1>4. PICK w : w = SubSeq(q, 1, n) /\ DOMAIN w = 1 .. n /\ \A i \in 1 .. n : w[i] = q[i]
  <2>1. PICK l \in Nat : l = 1
    OBVIOUS
  <2>2. l > 0 /\ l <= n + 1 /\ n <= Len(q)
    BY <1>1, <2>1
  <2>3. /\ DOMAIN SubSeq(q, l, n) = 1 .. n - l + 1
        /\ \A i \in 1 .. n - l + 1 : SubSeq(q, l, n)[i] = q[l + i - 1]
    BY <2>2, Slice
  <2>4. PICK w : /\ w = SubSeq(q, l, n) /\ DOMAIN w = 1 .. n - l + 1
                 /\ \A i \in 1 .. n - l + 1 : w[i] = q[l + i - 1]
    BY <2>3, Zenon
  <2>5. DOMAIN w = 1 .. n /\ \A i \in 1 .. n : w[i] = q[i]
    BY <2>1, <2>4
  <2> QED
    BY <2>1, <2>4, <2>5, Zenon
<1>6. PICK r : /\ r \in Seq(S) /\ r = SubSeq(q, n + 1, k) /\ DOMAIN r = 1 .. k - n
               /\ \A i \in 1 .. k - n : r[i] = q[n + i]
  <2>1. PICK l \in Nat : l = n + 1
    OBVIOUS
  <2>2. l > 0 /\ l <= k + 1 /\ k <= Len(q)
    BY <1>1, <1>2, <2>1
  <2>3. /\ SubSeq(q, l, k) \in Seq(S) /\ DOMAIN SubSeq(q, l, k) = 1 .. k - l + 1
        /\ \A i \in 1 .. k - l + 1 : SubSeq(q, l, k)[i] = q[l + i - 1]
    BY <2>2, Slice
  <2>4. PICK r : /\ r \in Seq(S) /\ r = SubSeq(q, l, k) /\ DOMAIN r = 1 .. k - l + 1
                 /\ \A i \in 1 .. k - l + 1 : r[i] = q[l + i - 1]
    BY <2>3, Zenon
  <2>5. DOMAIN r = 1 .. k - n /\ \A i \in 1 .. k - n : r[i] = q[n + i]
    BY <1>2, <2>1, <2>4
  <2> QED
    BY <2>1, <2>4, <2>5, Zenon
<1>8. IsInjective(r) /\ Range(w) \cup Range(r) = Range(q) /\ Range(w) \cap Range(r) = {}
  <2>1. PICK j \in Nat : j = k - n
    BY <1>2
  <2>2. n + j = k /\ DOMAIN r = 1 .. j /\ \A i \in 1 .. j : r[i] = q[n + i]
    BY <1>2, <1>6, <2>1
  <2>3. DOMAIN w = 1 .. n /\ \A i \in 1 .. n : w[i] = q[i]
    BY <1>4
  <2>4. Falls(q, k, w, n, r, j)
    BY <1>3, <2>2, <2>3 DEF Falls
  <2> QED
    BY <2>4, Split
<1>9. n > 0 => q[1] \in Range(w)
  <2>1. DOMAIN w = 1 .. n /\ \A i \in 1 .. n : w[i] = q[i]
    BY <1>4
  <2>2. n > 0 => 1 \in 1 .. n
    OBVIOUS
  <2> QED
    BY <2>1, <2>2 DEF Range
<1>10. w = SubSeq(q, 1, n) /\ r = SubSeq(q, n + 1, Len(q))
  BY <1>1, <1>4, <1>6
<1> QED
  BY <1>6, <1>8, <1>9, <1>10

\* On a list that is not longer they wake all there are.
LEMMA CutAll ==
    ASSUME NEW S, NEW q \in Seq(S), IsInjective(q), NEW n \in Nat, n >= Len(q)
    PROVE  /\ SubSeq(q, n + 1, Len(q)) = <<>> /\ SubSeq(q, 1, Len(q)) = q
           /\ IsInjective(<<>>) /\ Range(<<>>) = {} /\ <<>> \in Seq(S)
           /\ q # <<>> => q[1] \in Range(q)
<1>1. SubSeq(q, 1, Len(q)) = q
  BY SubSeqFull
<1>2. SubSeq(q, n + 1, Len(q)) = <<>>
  <2>1. n + 1 \in Int /\ Len(q) \in Int /\ Len(q) < n + 1
    BY LenProperties
  <2> QED
    BY <2>1, SubSeqEmpty
<1>3. IsInjective(<<>>) /\ Range(<<>>) = {} /\ <<>> \in Seq(S)
  BY DEF IsInjective, Range
<1>4. q # <<>> => q[1] \in Range(q)
  BY EmptySeq, LenProperties DEF Range
<1> QED
  BY <1>1, <1>2, <1>3, <1>4

-----------------------------------------------------------------------------
(***************************************************************************)
(* The calls, as far as the lists and the sleepers go.                     *)
(***************************************************************************)
ListsInv ==
    /\ futexes \in [Addrs -> Seq(Threads)] /\ asleep \subseteq Threads
    /\ \A a \in Addrs : IsInjective(futexes[a])
    /\ WaitersListed

\* WaitersListed, thread by thread.
LEMMA Sleepers ==
    ASSUME NEW list, NEW S
    PROVE  /\ S = UNION {Range(list[a]) : a \in Addrs}
           /\ \A a, b \in Addrs : a # b => Range(list[a]) \cap Range(list[b]) = {}
           <=>
           /\ \A t : t \in S <=> \E a \in Addrs : t \in Range(list[a])
           /\ \A a, b \in Addrs : \A t : t \in Range(list[a]) /\ t \in Range(list[b]) => a = b
<1> DEFINE R(a) == Range(list[a])
<1> HIDE DEF R
<1>1. S = UNION {R(a) : a \in Addrs} <=> \A t : t \in S <=> \E a \in Addrs : t \in R(a)
  OBVIOUS
<1>2. (\A a, b \in Addrs : a # b => R(a) \cap R(b) = {})
      <=> \A a, b \in Addrs : \A t : t \in R(a) /\ t \in R(b) => a = b
  OBVIOUS
<1> QED
  BY <1>1, <1>2 DEF R

\* FUTEX_WAIT puts the caller on one list and to sleep, or does nothing.
LEMMA WaitSound ==
    ASSUME ListsInv, NEW t \in Threads, t \notin asleep, NEW a \in Addrs, NEW val, Wait(t, a, val)
    PROVE  /\ ListsInv'
           /\ \/ UNCHANGED <<futexes, asleep>>
              \/ /\ word[a] = val /\ asleep' = asleep \cup {t}
                 /\ Range(futexes'[a]) = Range(futexes[a]) \cup {t}
                 /\ \A b \in Addrs : b # a => futexes'[b] = futexes[b]
<1>1. CASE UNCHANGED <<futexes, asleep>>
  BY <1>1 DEF ListsInv, WaitersListed
<1>2. CASE /\ word[a] = val /\ asleep' = asleep \cup {t}
           /\ futexes' = [futexes EXCEPT ![a] = Append(@, t)]
  <2>1. futexes[a] \in Seq(Threads) /\ IsInjective(futexes[a]) /\ t \notin Range(futexes[a])
    BY Sleepers DEF ListsInv, WaitersListed
  <2>2. /\ futexes'[a] \in Seq(Threads) /\ IsInjective(futexes'[a])
        /\ Range(futexes'[a]) = Range(futexes[a]) \cup {t}
    BY <1>2, <2>1, AppendNew DEF ListsInv
  <2>3. /\ \A b \in Addrs : b # a => futexes'[b] = futexes[b]
        /\ DOMAIN futexes' = Addrs /\ futexes' = [b \in Addrs |-> futexes'[b]]
    BY <1>2 DEF ListsInv
  <2>4. futexes' \in [Addrs -> Seq(Threads)] /\ \A b \in Addrs : IsInjective(futexes'[b])
    BY <2>2, <2>3 DEF ListsInv
  <2>5. WaitersListed'
    BY <1>2, <2>2, <2>3, Sleepers DEF ListsInv, WaitersListed
  <2> QED
    BY <1>2, <2>2, <2>3, <2>4, <2>5 DEF ListsInv
<1> QED
  BY <1>1, <1>2 DEF Wait

\* What waking n threads of the list of a does, wherever the others go.
LEMMA WokenSound ==
    ASSUME ListsInv, NEW a \in Addrs, NEW n \in Nat
    PROVE  /\ Rest(a, n) \in Seq(Threads) /\ IsInjective(Rest(a, n))
           /\ Range(Woken(a, n)) \cup Range(Rest(a, n)) = Range(futexes[a])
           /\ Range(Woken(a, n)) \cap Range(Rest(a, n)) = {}
           /\ n > 0 /\ futexes[a] # <<>> => futexes[a][1] \in Range(Woken(a, n))
<1> DEFINE q == futexes[a]
<1>1. q \in Seq(Threads) /\ IsInjective(q)
  BY DEF ListsInv
<1>2. Rest(a, n) = SubSeq(q, n + 1, Len(q))
  BY DEF Rest
<1>3. n < Len(q) \/ n >= Len(q)
  BY <1>1, LenProperties
<1>4. CASE n < Len(q)
  <2>1. Woken(a, n) = SubSeq(q, 1, n)
    BY <1>4 DEF Woken
  <2> HIDE DEF q
  <2>2. /\ Rest(a, n) \in Seq(Threads) /\ IsInjective(Rest(a, n))
        /\ Range(Woken(a, n)) \cup Range(Rest(a, n)) = Range(q)
        /\ Range(Woken(a, n)) \cap Range(Rest(a, n)) = {}
        /\ n > 0 => q[1] \in Range(Woken(a, n))
    BY <1>1, <1>2, <1>4, <2>1, Cut
  <2> QED
    BY <2>2 DEF q
<1>5. CASE n >= Len(q)
  <2>1. Woken(a, n) = SubSeq(q, 1, Len(q))
    BY <1>1, <1>5, LenProperties DEF Woken
  <2> HIDE DEF q
  <2> QED
    BY <1>1, <1>2, <1>5, <2>1, CutAll DEF q
<1> QED
  BY <1>3, <1>4, <1>5

\* An empty list, and what a list holds.
LEMMA Empty ==
    ASSUME NEW S, NEW q \in Seq(S)
    PROVE  /\ <<>> \in Seq(S) /\ IsInjective(<<>>) /\ Range(<<>>) = {}
           /\ q # <<>> => q[1] \in Range(q) /\ q[1] \in S
           /\ q = <<>> <=> Range(q) = {}
<1>1. <<>> \in Seq(S) /\ IsInjective(<<>>) /\ Range(<<>>) = {}
  BY DEF IsInjective, Range
<1>2. q # <<>> => q[1] \in Range(q) /\ q[1] \in S
  BY EmptySeq, LenProperties, ElementOfSeq DEF Range
<1> QED
  BY <1>1, <1>2

\* FUTEX_WAKE.
LEMMA WakeSound ==
    ASSUME ListsInv, NEW a \in Addrs, NEW n \in Nat, Wake(a, n)
    PROVE  /\ ListsInv' /\ asleep' \subseteq asleep
           /\ Range(futexes'[a]) \subseteq Range(futexes[a])
           /\ \A b \in Addrs : b # a => futexes'[b] = futexes[b]
           /\ n > 0 /\ futexes[a] # <<>> =>
                  futexes[a][1] \in Range(futexes[a]) /\ futexes[a][1] \notin asleep'
<1>1. /\ Rest(a, n) \in Seq(Threads) /\ IsInjective(Rest(a, n))
      /\ Range(Woken(a, n)) \cup Range(Rest(a, n)) = Range(futexes[a])
      /\ Range(Woken(a, n)) \cap Range(Rest(a, n)) = {}
      /\ n > 0 /\ futexes[a] # <<>> => futexes[a][1] \in Range(Woken(a, n))
  BY WokenSound
<1>2. /\ futexes'[a] = Rest(a, n) /\ asleep' = asleep \ Range(Woken(a, n))
      /\ \A b \in Addrs : b # a => futexes'[b] = futexes[b]
      /\ futexes' = [b \in Addrs |-> futexes'[b]]
  BY DEF Wake, ListsInv
<1>3. futexes' \in [Addrs -> Seq(Threads)] /\ \A b \in Addrs : IsInjective(futexes'[b])
  <2>1. ASSUME NEW b \in Addrs PROVE futexes'[b] \in Seq(Threads) /\ IsInjective(futexes'[b])
    BY <1>1, <1>2 DEF ListsInv
  <2> QED
    BY <1>2, <2>1
<1>4. WaitersListed'
  <2>1. /\ \A t : t \in asleep <=> \E b \in Addrs : t \in Range(futexes[b])
        /\ \A b, c \in Addrs : \A t : t \in Range(futexes[b]) /\ t \in Range(futexes[c]) => b = c
    BY Sleepers DEF ListsInv, WaitersListed
  <2>2. \A b \in Addrs : \A t : t \in Range(futexes'[b]) <=>
            t \in Range(futexes[b]) /\ t \notin Range(Woken(a, n))
    BY <1>1, <1>2, <2>1
  <2>3. \A t : t \in asleep' <=> \E b \in Addrs : t \in Range(futexes'[b])
    BY <1>2, <2>1, <2>2
  <2>4. \A b, c \in Addrs : \A t : t \in Range(futexes'[b]) /\ t \in Range(futexes'[c]) => b = c
    BY <2>1, <2>2
  <2> QED
    BY <2>3, <2>4, Sleepers DEF WaitersListed
<1> QED
  BY <1>1, <1>2, <1>3, <1>4 DEF ListsInv

\* notify_all.
LEMMA WakeAllSound ==
    ASSUME ListsInv, NEW a \in Addrs, WakeAll(a)
    PROVE  /\ ListsInv' /\ asleep' \subseteq asleep /\ futexes'[a] = <<>> /\ Range(futexes'[a]) = {}
           /\ \A b \in Addrs : b # a => futexes'[b] = futexes[b]
<1>1. /\ futexes'[a] = <<>> /\ asleep' = asleep \ Range(futexes[a])
      /\ \A b \in Addrs : b # a => futexes'[b] = futexes[b]
      /\ futexes' = [b \in Addrs |-> futexes'[b]]
  BY DEF WakeAll, ListsInv
<1>2. <<>> \in Seq(Threads) /\ IsInjective(<<>>) /\ Range(<<>>) = {}
  BY DEF IsInjective, Range
<1>3. futexes' \in [Addrs -> Seq(Threads)] /\ \A b \in Addrs : IsInjective(futexes'[b])
  <2>1. ASSUME NEW b \in Addrs PROVE futexes'[b] \in Seq(Threads) /\ IsInjective(futexes'[b])
    BY <1>1, <1>2 DEF ListsInv
  <2> QED
    BY <1>1, <2>1
<1>4. WaitersListed'
  <2>1. /\ \A t : t \in asleep <=> \E b \in Addrs : t \in Range(futexes[b])
        /\ \A b, c \in Addrs : \A t : t \in Range(futexes[b]) /\ t \in Range(futexes[c]) => b = c
    BY Sleepers DEF ListsInv, WaitersListed
  <2>2. \A b \in Addrs : \A t : t \in Range(futexes'[b]) <=> b # a /\ t \in Range(futexes[b])
    BY <1>1, <1>2
  <2>3. \A t : t \in asleep' <=> \E b \in Addrs : t \in Range(futexes'[b])
    BY <1>1, <2>1, <2>2
  <2>4. \A b, c \in Addrs : \A t : t \in Range(futexes'[b]) /\ t \in Range(futexes'[c]) => b = c
    BY <2>1, <2>2
  <2> QED
    BY <2>3, <2>4, Sleepers DEF WaitersListed
<1> QED
  BY <1>1, <1>2, <1>3, <1>4 DEF ListsInv

\* FUTEX_REQUEUE to an address nobody waits at.
LEMMA RequeueSound ==
    ASSUME ListsInv, NEW a \in Addrs, NEW c \in Addrs, a # c, NEW n \in Nat,
           futexes[c] = <<>>, Requeue(a, n, c)
    PROVE  /\ ListsInv' /\ asleep' \subseteq asleep
           /\ futexes'[a] = <<>> /\ Range(futexes'[a]) = {}
           /\ Range(futexes'[c]) \subseteq Range(futexes[a])
           /\ \A b \in Addrs : b # a /\ b # c => futexes'[b] = futexes[b]
           /\ n > 0 /\ futexes[a] # <<>> =>
                  futexes[a][1] \in Range(futexes[a]) /\ futexes[a][1] \notin asleep'
<1>1. /\ Rest(a, n) \in Seq(Threads) /\ IsInjective(Rest(a, n))
      /\ Range(Woken(a, n)) \cup Range(Rest(a, n)) = Range(futexes[a])
      /\ Range(Woken(a, n)) \cap Range(Rest(a, n)) = {}
      /\ n > 0 /\ futexes[a] # <<>> => futexes[a][1] \in Range(Woken(a, n))
  BY WokenSound
<1>2. /\ futexes'[a] = <<>> /\ futexes'[c] = Rest(a, n) /\ asleep' = asleep \ Range(Woken(a, n))
      /\ \A b \in Addrs : b # a /\ b # c => futexes'[b] = futexes[b]
      /\ futexes' = [b \in Addrs |-> futexes'[b]]
  BY DEF Requeue, ListsInv
<1>3. <<>> \in Seq(Threads) /\ IsInjective(<<>>) /\ Range(<<>>) = {}
  BY DEF IsInjective, Range
<1>4. futexes' \in [Addrs -> Seq(Threads)] /\ \A b \in Addrs : IsInjective(futexes'[b])
  BY <1>1, <1>2, <1>3 DEF ListsInv
<1>5. WaitersListed'
  <2>1. /\ \A t : t \in asleep <=> \E b \in Addrs : t \in Range(futexes[b])
        /\ \A b, d \in Addrs : \A t : t \in Range(futexes[b]) /\ t \in Range(futexes[d]) => b = d
    BY Sleepers DEF ListsInv, WaitersListed
  <2>2. Range(futexes[c]) = {} /\ Range(futexes'[a]) = {} /\ Range(futexes'[c]) = Range(Rest(a, n))
    BY <1>2, <1>3
  <2>3. \A t : t \in Range(Rest(a, n)) <=> t \in Range(futexes[a]) /\ t \notin Range(Woken(a, n))
    BY <1>1
  <2>4. \A b \in Addrs : b # a /\ b # c => Range(futexes'[b]) = Range(futexes[b])
    BY <1>2
  <2>5. \A t : t \in Range(Woken(a, n)) => t \in Range(futexes[a])
    BY <1>1
  <2>6. ASSUME NEW t PROVE t \in asleep' <=> \E b \in Addrs : t \in Range(futexes'[b])
    <3>1. ASSUME t \in asleep' PROVE \E b \in Addrs : t \in Range(futexes'[b])
      <4>1. PICK b \in Addrs : t \in Range(futexes[b])
        BY <1>2, <2>1, <3>1
      <4>2. t \notin Range(Woken(a, n)) /\ b # c
        BY <1>2, <2>2, <3>1, <4>1
      <4> QED
        BY <2>2, <2>3, <2>4, <4>1, <4>2
    <3>2. ASSUME NEW b \in Addrs, t \in Range(futexes'[b]) PROVE t \in asleep'
      <4>1. CASE b = c
        BY <1>2, <2>1, <2>2, <2>3, <3>2, <4>1
      <4>2. CASE b # c /\ b # a
        BY <1>2, <2>1, <2>4, <2>5, <3>2, <4>2
      <4> QED
        BY <2>2, <3>2, <4>1, <4>2
    <3> QED
      BY <3>1, <3>2
  <2>7. ASSUME NEW b \in Addrs, NEW d \in Addrs, NEW t,
               t \in Range(futexes'[b]), t \in Range(futexes'[d])
        PROVE  b = d
    <3>1. b # a /\ d # a
      BY <2>2, <2>7
    <3>2. ASSUME NEW e \in Addrs, e # a, t \in Range(futexes'[e])
          PROVE  t \in Range(futexes[IF e = c THEN a ELSE e])
      BY <2>2, <2>3, <2>4, <3>2
    <3>3. (IF b = c THEN a ELSE b) = (IF d = c THEN a ELSE d)
      BY <2>1, <2>7, <3>1, <3>2
    <3> QED
      BY <3>1, <3>3
  <2> QED
    BY <2>6, <2>7, Sleepers DEF WaitersListed
<1> QED
  BY <1>1, <1>2, <1>3, <1>4, <1>5 DEF ListsInv

-----------------------------------------------------------------------------
(***************************************************************************)
(* The steps.                                                              *)
(***************************************************************************)
\* The lists of a state of the invariant, and who is awake in it.
LEMMA Facts ==
    ASSUME IInv
    PROVE  /\ ListsInv
           /\ Mutex \in Addrs /\ Cond \in Addrs /\ Threads \subseteq Addrs
           /\ Mutex \notin Threads /\ Cond \notin Threads /\ Mutex # Cond
           /\ \A a \in Addrs : Range(futexes[a]) \subseteq asleep
           /\ \A t \in asleep : pc[t] \in {"contend", "join"}
<1>1. ListsInv
  BY DEF IInv, TypeOK, ListsInv
<1>2. /\ Mutex \in Addrs /\ Cond \in Addrs /\ Threads \subseteq Addrs
      /\ Mutex \notin Threads /\ Cond \notin Threads /\ Mutex # Cond
  BY FutexAssumption DEF Addrs
<1>3. \A t : t \in asleep <=> \E a \in Addrs : t \in Range(futexes[a])
  BY Sleepers DEF IInv, WaitersListed
<1>4. ASSUME NEW t \in asleep PROVE pc[t] \in {"contend", "join"}
  <2>1. PICK a \in Addrs : t \in Range(futexes[a])
    BY <1>3
  <2> QED
    BY <2>1 DEF IInv, SleepersInv
<1> QED
  BY <1>1, <1>2, <1>3, <1>4

\* The threads after a step of t: the others are where they were.
LEMMA Others ==
    ASSUME IInv, NEW t \in Threads, NEW p, Go(t, p)
    PROVE  pc'[t] = p /\ \A u \in Threads : u # t => pc'[u] = pc[u]
BY DEF IInv, TypeOK, Go

\* A step that changes no list.
LEMMA QuietSound ==
    ASSUME IInv, NEW t \in Threads, t \notin asleep, NEW p, Go(t, p), UNCHANGED <<futexes, asleep>>
    PROVE  ListsInv' /\ SleepersInv'
<1>1. ListsInv'
  BY Facts DEF ListsInv, WaitersListed
<1>2. ASSUME NEW a \in Addrs, NEW u \in Range(futexes[a]) PROVE u \in Threads /\ u # t
  BY Facts DEF ListsInv
<1>3. SleepersInv'
  BY <1>2, Others DEF IInv, SleepersInv
<1> QED
  BY <1>1, <1>3

\* The thread that goes to sleep is where its list wants it.
LEMMA WaitSleepers ==
    ASSUME IInv, NEW t \in Threads, t \notin asleep, NEW a \in Addrs, NEW val, Wait(t, a, val),
           Go(t, IF a \in Threads THEN "join" ELSE "contend")
    PROVE  ListsInv' /\ SleepersInv'
<1>1. /\ ListsInv'
      /\ \/ UNCHANGED <<futexes, asleep>>
         \/ /\ word[a] = val /\ asleep' = asleep \cup {t}
            /\ Range(futexes'[a]) = Range(futexes[a]) \cup {t}
            /\ \A b \in Addrs : b # a => futexes'[b] = futexes[b]
  BY Facts, WaitSound
<1>2. ASSUME NEW b \in Addrs, NEW u \in Range(futexes'[b])
      PROVE  pc'[u] = IF b \in Threads THEN "join" ELSE "contend"
  <2>1. u \in Range(futexes[b]) \/ (u = t /\ b = a)
    BY <1>1
  <2>2. CASE u = t /\ b = a
    BY <2>2, Others
  <2>3. CASE u \in Range(futexes[b])
    <3>1. u \in Threads /\ u # t
      BY <2>3, Facts DEF ListsInv
    <3> QED
      BY <2>3, <3>1, Others DEF IInv, SleepersInv
  <2> QED
    BY <2>1, <2>2, <2>3
<1> QED
  BY <1>1, <1>2 DEF SleepersInv

\* After a wake-up or a requeue to the lock every list holds sleepers of its own kind.
LEMMA WakeSleepers ==
    ASSUME IInv, NEW t \in Threads, t \notin asleep, NEW p, Go(t, p),
           \A b \in Addrs : \A u \in Range(futexes'[b]) :
               \E a \in Addrs : u \in Range(futexes[a]) /\ (a \in Threads <=> b \in Threads)
    PROVE  SleepersInv'
<1>1. ASSUME NEW b \in Addrs, NEW u \in Range(futexes'[b])
      PROVE  pc'[u] = IF b \in Threads THEN "join" ELSE "contend"
  <2>1. PICK a \in Addrs : u \in Range(futexes[a]) /\ (a \in Threads <=> b \in Threads)
    OBVIOUS
  <2>2. u \in Threads /\ u # t
    BY <2>1, Facts DEF ListsInv
  <2> QED
    BY <2>1, <2>2, Others DEF IInv, SleepersInv
<1> QED
  BY <1>1 DEF SleepersInv

\* Whoever watches over the lock still does, unless it is the thread that steps.
LEMMA LockKept ==
    ASSUME IInv, NEW t \in Threads, NEW p, Go(t, p), asleep' \subseteq asleep \cup {t},
           futexes'[Mutex] = futexes[Mutex], word'[Mutex] = word[Mutex],
           pc[t] \notin {"contend", "wake", "condWake", "in"}
    PROVE  LockNotMissed'
<1>1. ASSUME NEW u \in Threads, NEW x \in {"contend", "wake", "condWake", "in"}, At(u, x)
      PROVE  At(u, x)'
  <2>1. u # t
    BY <1>1 DEF At
  <2> QED
    BY <1>1, <2>1, Others DEF At
<1> QED
  BY <1>1 DEF IInv, LockNotMissed

\* Whoever has counted a broadcast is still about to send it, unless it steps.
LEMMA CondKept ==
    ASSUME IInv, NEW t \in Threads, t \notin asleep, NEW p, Go(t, p),
           asleep' \subseteq asleep \cup {t},
           Range(futexes'[Cond]) \subseteq Range(futexes[Cond]), word'[Cond] = word[Cond],
           \A u \in Threads : u # t => seen'[u] = seen[u],
           pc[t] # "cast"
    PROVE  CondNotMissed'
<1>1. ASSUME NEW b \in Threads, At(b, "cast") PROVE At(b, "cast")'
  <2>1. b # t
    BY <1>1 DEF At
  <2> QED
    BY <1>1, <2>1, Others DEF At
<1>2. ASSUME NEW u \in Range(futexes'[Cond]), seen'[u] # word'[Cond]
      PROVE  \E b \in Threads : At(b, "cast")'
  <2>1. u \in Range(futexes[Cond]) /\ u \in Threads /\ u # t
    BY Facts DEF ListsInv
  <2>2. seen[u] # word[Cond]
    BY <1>2, <2>1
  <2> QED
    BY <1>1, <2>1, <2>2 DEF IInv, CondNotMissed
<1> QED
  BY <1>2 DEF CondNotMissed

\* The holder still holds the lock, unless it steps.
LEMMA HolderKept ==
    ASSUME IInv, NEW t \in Threads, NEW p, Go(t, p), word'[Mutex] = word[Mutex], pc[t] # "in"
    PROVE  HolderInv'
BY Others DEF IInv, HolderInv

\* Where a thread can be.
Places == {"out", "in", "contend", "block", "wake", "condWake", "cond", "cast", "join",
           "joinWait", "done"}

\* The types after a step of t.
LEMMA Typed ==
    ASSUME IInv, ListsInv', NEW t \in Threads, NEW p \in Places, Go(t, p),
           UNCHANGED word \/ \E a \in Addrs, v \in 0 .. MaxCast + 2 : word' = [word EXCEPT ![a] = v],
           UNCHANGED seen \/ \E v \in 0 .. MaxCast : seen' = [seen EXCEPT ![t] = v],
           joined' \in Threads
    PROVE  TypeOK' /\ WaitersListed'
<1>1. word' \in [Addrs -> 0 .. MaxCast + 2]
  BY DEF IInv, TypeOK
<1>2. pc' \in [Threads -> Places]
  BY DEF IInv, TypeOK, Go, Places
<1>3. seen' \in [Threads -> 0 .. MaxCast]
  BY DEF IInv, TypeOK
<1> QED
  BY <1>1, <1>2, <1>3 DEF TypeOK, ListsInv, Places

\* The fast path of the lock.
LEMMA LockSound ==
    ASSUME IInv, NEW t \in Threads, Lock(t)
    PROVE  IInv'
<1>1. t \notin asleep /\ pc[t] = "out" /\ UNCHANGED <<futexes, asleep, seen, joined>>
  BY DEF Lock, At
<1>2. Mutex \in Addrs /\ Cond # Mutex /\ word \in [Addrs -> 0 .. MaxCast + 2] /\ joined \in Threads
  BY Facts DEF IInv, TypeOK
<1>3. MaxCast \in Nat
  BY FutexAssumption
<1>4. CASE word[Mutex] = 0
  <2>1. word' = [word EXCEPT ![Mutex] = 1] /\ Go(t, "in")
    BY <1>4 DEF Lock
  <2>2. ListsInv' /\ SleepersInv'
    BY <1>1, <2>1, QuietSound
  <2>3. 1 \in 0 .. MaxCast + 2 /\ "in" \in Places
    BY <1>3 DEF Places
  <2>4. TypeOK' /\ WaitersListed'
    BY <1>1, <1>2, <2>1, <2>2, <2>3, Typed
  <2>5. word'[Mutex] = 1 /\ word'[Cond] = word[Cond]
    BY <1>2, <2>1, Facts
  <2>6. pc'[t] = "in" /\ \A u \in Threads : u # t => pc'[u] = pc[u]
    BY <2>1, Others
  <2>7. LockNotMissed'
    BY <1>1, <1>4, <2>6 DEF IInv, LockNotMissed, At
  <2>8. CondNotMissed'
    BY <1>1, <2>1, <2>5, CondKept
  <2> QED
    BY <2>2, <2>4, <2>5, <2>6, <2>7, <2>8 DEF IInv, HolderInv, CountInv
<1>5. CASE word[Mutex] # 0
  <2>1. word' = word /\ Go(t, "contend")
    BY <1>5 DEF Lock
  <2>2. ListsInv' /\ SleepersInv'
    BY <1>1, <2>1, QuietSound
  <2>3. TypeOK' /\ WaitersListed'
    BY <1>1, <1>2, <2>1, <2>2, Typed DEF Places
  <2>4. LockNotMissed'
    BY <1>1, <2>1, Others DEF LockNotMissed, At
  <2>5. CondNotMissed'
    BY <1>1, <2>1, CondKept
  <2>6. HolderInv'
    BY <1>1, <2>1, HolderKept
  <2> QED
    BY <2>1, <2>2, <2>3, <2>4, <2>5, <2>6 DEF IInv, CountInv
<1> QED
  BY <1>4, <1>5

\* A thread that finds the lock taken leaves a 2: the holder, who does not
\* sleep, is going to see it.
LEMMA ContendSound ==
    ASSUME IInv, NEW t \in Threads, Contend(t)
    PROVE  IInv'
<1>1. /\ t \notin asleep /\ pc[t] = "contend" /\ UNCHANGED <<futexes, asleep, seen, joined>>
      /\ word' = [word EXCEPT ![Mutex] = 2]
  BY DEF Contend, At
<1>2. Mutex \in Addrs /\ Cond \in Addrs /\ Cond # Mutex /\ joined \in Threads
  BY Facts DEF IInv, TypeOK
<1>3. word'[Mutex] = 2 /\ word'[Cond] = word[Cond]
  BY <1>1, <1>2 DEF IInv, TypeOK
<1>4. PICK p \in {"in", "block"} : Go(t, p) /\ (p = "in" <=> word[Mutex] = 0)
  BY DEF Contend
<1>5. ListsInv' /\ SleepersInv'
  BY <1>1, <1>4, QuietSound
<1>6. TypeOK' /\ WaitersListed'
  <2>1. 2 \in 0 .. MaxCast + 2 /\ p \in Places
    BY FutexAssumption DEF Places
  <2> QED
    BY <1>1, <1>2, <1>4, <1>5, <2>1, Typed
<1>7. CondNotMissed'
  BY <1>1, <1>3, <1>4, CondKept
<1>8. \E u \in Threads : pc'[u] = "in" /\ u \notin asleep
  <2>1. CASE p = "in"
    BY <1>1, <1>4, <2>1, Others
  <2>2. CASE p = "block"
    <3>1. PICK u \in Threads : pc[u] = "in"
      BY <1>4, <2>2 DEF IInv, HolderInv
    <3> QED
      BY <1>1, <1>4, <3>1, Others, Facts
  <2> QED
    BY <2>1, <2>2
<1>9. LockNotMissed' /\ HolderInv'
  BY <1>1, <1>3, <1>8 DEF LockNotMissed, HolderInv, At
<1> QED
  BY <1>3, <1>5, <1>6, <1>7, <1>9 DEF IInv, CountInv

\* A thread sleeps on the lock only while the word is 2, and then the lock
\* has a holder who does not sleep.
LEMMA BlockSound ==
    ASSUME IInv, NEW t \in Threads, Block(t) \/ BlockTimed(t)
    PROVE  IInv'
<1>1. t \notin asleep /\ pc[t] = "block" /\ UNCHANGED <<word, seen, joined>> /\ Go(t, "contend")
  BY DEF Block, BlockTimed, At
<1>2. Mutex \in Addrs /\ Cond \in Addrs /\ Cond # Mutex /\ joined \in Threads /\ Mutex \notin Threads
  BY Facts DEF IInv, TypeOK
<1>3. pc'[t] = "contend" /\ \A u \in Threads : u # t => pc'[u] = pc[u]
  BY <1>1, Others
<1>4. CASE UNCHANGED <<futexes, asleep>>
  <2>1. ListsInv' /\ SleepersInv'
    BY <1>1, <1>4, QuietSound
  <2>2. TypeOK' /\ WaitersListed'
    BY <1>1, <1>2, <2>1, Typed DEF Places
  <2>3. LockNotMissed'
    BY <1>1, <1>3, <1>4 DEF LockNotMissed, At
  <2>4. CondNotMissed' /\ HolderInv'
    BY <1>1, <1>4, CondKept, HolderKept
  <2> QED
    BY <1>1, <2>1, <2>2, <2>3, <2>4 DEF IInv, CountInv
<1>5. CASE /\ Wait(t, Mutex, 2) /\ word[Mutex] = 2 /\ asleep' = asleep \cup {t}
           /\ \A b \in Addrs : b # Mutex => futexes'[b] = futexes[b]
  <2>1. ListsInv' /\ SleepersInv'
    BY <1>1, <1>2, <1>5, WaitSleepers
  <2>2. TypeOK' /\ WaitersListed'
    BY <1>1, <1>2, <2>1, Typed DEF Places
  <2>3. PICK u \in Threads : pc[u] = "in"
    BY <1>5 DEF IInv, HolderInv
  <2>4. u # t /\ u \notin asleep' /\ pc'[u] = "in"
    BY <1>1, <1>3, <1>5, <2>3, Facts
  <2>5. LockNotMissed'
    BY <1>1, <1>5, <2>4 DEF LockNotMissed, At
  <2>6. CondNotMissed'
    BY <1>1, <1>2, <1>5, CondKept
  <2>7. HolderInv'
    BY <1>1, HolderKept
  <2> QED
    BY <1>1, <2>1, <2>2, <2>5, <2>6, <2>7 DEF IInv, CountInv
<1>6. UNCHANGED <<futexes, asleep>> \/ Wait(t, Mutex, 2)
  BY DEF Block, BlockTimed, WaitTimed
<1> QED
  BY <1>1, <1>2, <1>4, <1>5, <1>6, WaitSound, Facts

\* Who releases a lock whose word is 2 is about to wake a sleeper.
LEMMA UnlockSound ==
    ASSUME IInv, NEW t \in Threads, Unlock(t) \/ CondWait(t)
    PROVE  IInv'
<1>1. /\ t \notin asleep /\ pc[t] = "in" /\ UNCHANGED <<futexes, asleep, joined>>
      /\ word' = [word EXCEPT ![Mutex] = 0]
      /\ UNCHANGED seen \/ seen' = [seen EXCEPT ![t] = word[Cond]]
  BY DEF Unlock, CondWait, At
<1>2. Mutex \in Addrs /\ Cond \in Addrs /\ Cond # Mutex /\ joined \in Threads
  BY Facts DEF IInv, TypeOK
<1>3. word'[Mutex] = 0 /\ word'[Cond] = word[Cond]
  BY <1>1, <1>2 DEF IInv, TypeOK
<1>4. PICK p \in {"out", "wake", "cond", "condWake"} :
          Go(t, p) /\ (word[Mutex] = 2 => p \in {"wake", "condWake"})
  BY DEF Unlock, CondWait
<1>5. pc'[t] = p /\ \A u \in Threads : u # t => pc'[u] = pc[u]
  BY <1>4, Others
<1>6. ListsInv' /\ SleepersInv'
  BY <1>1, <1>4, QuietSound
<1>7. TypeOK' /\ WaitersListed'
  <2>1. 0 \in 0 .. MaxCast + 2 /\ p \in Places
    BY FutexAssumption DEF Places
  <2>2. word[Cond] \in 0 .. MaxCast
    BY <1>2, FutexAssumption DEF IInv, TypeOK, CountInv
  <2> QED
    BY <1>1, <1>2, <1>4, <1>6, <2>1, <2>2, Typed
<1>8. CondNotMissed'
  <2>1. \A u \in Threads : u # t => seen'[u] = seen[u]
    BY <1>1 DEF IInv, TypeOK
  <2> QED
    BY <1>1, <1>3, <1>4, <2>1, CondKept
<1>9. LockNotMissed'
  <2>1. CASE word[Mutex] = 2
    BY <1>1, <1>4, <1>5, <2>1 DEF LockNotMissed, At
  <2>2. CASE word[Mutex] # 2
    BY <1>1, <1>5, <2>2 DEF IInv, LockNotMissed, At
  <2> QED
    BY <2>1, <2>2
<1> QED
  BY <1>3, <1>6, <1>7, <1>8, <1>9 DEF IInv, CountInv, HolderInv

\* The one FUTEX_WAKE wakes goes for the lock.
LEMMA WakeOneSound ==
    ASSUME IInv, NEW t \in Threads, WakeOne(t)
    PROVE  IInv'
<1>1. PICK p \in {"out", "cond"} : /\ t \notin asleep /\ pc[t] \in {"wake", "condWake"} /\ Go(t, p)
                                   /\ Wake(Mutex, 1) /\ UNCHANGED <<word, seen, joined>>
  BY DEF WakeOne, At
<1>2. Mutex \in Addrs /\ Cond \in Addrs /\ Cond # Mutex /\ joined \in Threads
  BY Facts DEF IInv, TypeOK
<1>3. /\ ListsInv' /\ asleep' \subseteq asleep
      /\ Range(futexes'[Mutex]) \subseteq Range(futexes[Mutex])
      /\ \A b \in Addrs : b # Mutex => futexes'[b] = futexes[b]
      /\ futexes[Mutex] # <<>> =>
             futexes[Mutex][1] \in Range(futexes[Mutex]) /\ futexes[Mutex][1] \notin asleep'
  <2>1. 1 \in Nat /\ 1 > 0
    OBVIOUS
  <2> QED
    BY <1>1, <1>2, <2>1, WakeSound, Facts
<1>4. SleepersInv'
  <2>1. ASSUME NEW b \in Addrs, NEW u \in Range(futexes'[b]) PROVE u \in Range(futexes[b])
    BY <1>3
  <2> QED
    BY <1>1, <2>1, WakeSleepers
<1>5. TypeOK' /\ WaitersListed'
  BY <1>1, <1>2, <1>3, Typed DEF Places
<1>6. LockNotMissed'
  <2> SUFFICES ASSUME futexes'[Mutex] # <<>> PROVE \E u \in Threads : At(u, "contend")'
    BY DEF LockNotMissed
  <2>1. futexes[Mutex] # <<>>
    <3>1. futexes'[Mutex] \in Seq(Threads)
      BY <1>2, <1>3 DEF ListsInv
    <3>2. futexes'[Mutex][1] \in Range(futexes'[Mutex])
      BY <3>1, Empty
    <3>3. Range(<<>>) = {}
      BY DEF Range
    <3> QED
      BY <1>3, <3>2, <3>3
  <2>2. PICK u : u \in Range(futexes[Mutex]) /\ u \notin asleep'
    BY <1>3, <2>1
  <2>3. u \in Threads /\ u # t /\ pc[u] = "contend"
    BY <1>1, <1>2, <2>2, Facts DEF IInv, SleepersInv, ListsInv
  <2> QED
    BY <1>1, <2>2, <2>3, Others DEF At
<1>7. CondNotMissed' /\ HolderInv'
  BY <1>1, <1>2, <1>3, CondKept, HolderKept
<1> QED
  BY <1>1, <1>3, <1>4, <1>5, <1>6, <1>7 DEF IInv, CountInv

\* A thread sleeps on the condition only if there was no broadcast since it
\* read the count.
LEMMA CondBlockSound ==
    ASSUME IInv, NEW t \in Threads, CondBlock(t)
    PROVE  IInv'
<1>1. /\ t \notin asleep /\ pc[t] = "cond" /\ UNCHANGED <<word, seen, joined>> /\ Go(t, "contend")
      /\ Wait(t, Cond, seen[t])
  BY DEF CondBlock, At
<1>2. Mutex \in Addrs /\ Cond \in Addrs /\ Cond # Mutex /\ joined \in Threads /\ Cond \notin Threads
  BY Facts DEF IInv, TypeOK
<1>3. ListsInv' /\ SleepersInv'
  BY <1>1, <1>2, WaitSleepers
<1>4. \/ UNCHANGED <<futexes, asleep>>
      \/ /\ word[Cond] = seen[t] /\ asleep' = asleep \cup {t}
         /\ Range(futexes'[Cond]) = Range(futexes[Cond]) \cup {t}
         /\ \A b \in Addrs : b # Cond => futexes'[b] = futexes[b]
  BY <1>1, <1>2, WaitSound, Facts
<1>5. TypeOK' /\ WaitersListed'
  BY <1>1, <1>2, <1>3, Typed DEF Places
<1>6. LockNotMissed'
  <2>1. futexes'[Mutex] = futexes[Mutex] /\ asleep' \subseteq asleep \cup {t}
    BY <1>2, <1>4
  <2> QED
    BY <1>1, <2>1, LockKept
<1>7. CondNotMissed'
  <2>1. ASSUME NEW b \in Threads, At(b, "cast") PROVE At(b, "cast")'
    <3>1. b # t /\ b \notin asleep'
      BY <1>1, <1>4, <2>1 DEF At
    <3> QED
      BY <1>1, <2>1, <3>1, Others DEF At
  <2>2. ASSUME NEW u \in Range(futexes'[Cond]), seen[u] # word[Cond] PROVE u \in Range(futexes[Cond])
    BY <1>4, <2>2
  <2> QED
    BY <1>1, <2>1, <2>2 DEF IInv, CondNotMissed
<1>8. HolderInv'
  BY <1>1, HolderKept
<1> QED
  BY <1>1, <1>3, <1>5, <1>6, <1>7, <1>8 DEF IInv, CountInv

\* A broadcast that is counted is about to be sent.
LEMMA BroadcastSound ==
    ASSUME IInv, NEW t \in Threads, Broadcast(t)
    PROVE  IInv'
<1>1. /\ t \notin asleep /\ pc[t] = "out" /\ UNCHANGED <<futexes, asleep, joined>> /\ Go(t, "cast")
      /\ word' = [word EXCEPT ![Cond] = word[Cond] + 1] /\ word[Cond] < MaxCast
      /\ seen' = [seen EXCEPT ![t] = word[Cond] + 1]
  BY DEF Broadcast, At
<1>2. Mutex \in Addrs /\ Cond \in Addrs /\ Cond # Mutex /\ joined \in Threads /\ MaxCast \in Nat
  BY Facts, FutexAssumption DEF IInv, TypeOK
<1>3. word[Cond] + 1 \in 0 .. MaxCast /\ word[Cond] + 1 \in 0 .. MaxCast + 2
  BY <1>1, <1>2 DEF IInv, TypeOK
<1>4. word'[Mutex] = word[Mutex] /\ word'[Cond] <= MaxCast
  BY <1>1, <1>2, <1>3 DEF IInv, TypeOK
<1>5. ListsInv' /\ SleepersInv'
  BY <1>1, QuietSound
<1>6. TypeOK' /\ WaitersListed'
  BY <1>1, <1>2, <1>3, <1>5, Typed DEF Places
<1>7. LockNotMissed' /\ HolderInv'
  BY <1>1, <1>4, LockKept, HolderKept
<1>8. CondNotMissed'
  BY <1>1, Others DEF CondNotMissed, At
<1> QED
  BY <1>4, <1>5, <1>6, <1>7, <1>8 DEF IInv, CountInv

\* A broadcast leaves nobody on the condition; whom it does not wake it moves
\* to the lock, behind one who goes for it.
LEMMA CastRequeueSound ==
    ASSUME IInv, NEW t \in Threads, CastRequeue(t)
    PROVE  IInv'
<1>1. /\ t \notin asleep /\ pc[t] = "cast" /\ Go(t, "out") /\ UNCHANGED <<word, seen, joined>>
      /\ futexes[Mutex] = <<>> /\ Requeue(Cond, 1, Mutex)
  BY DEF CastRequeue, At
<1>2. /\ Mutex \in Addrs /\ Cond \in Addrs /\ Cond # Mutex /\ joined \in Threads
      /\ Mutex \notin Threads /\ Cond \notin Threads
  BY Facts DEF IInv, TypeOK
<1>3. /\ ListsInv' /\ asleep' \subseteq asleep
      /\ Range(futexes'[Cond]) = {} /\ Range(futexes'[Mutex]) \subseteq Range(futexes[Cond])
      /\ \A b \in Addrs : b # Cond /\ b # Mutex => futexes'[b] = futexes[b]
      /\ futexes[Cond] # <<>> =>
             futexes[Cond][1] \in Range(futexes[Cond]) /\ futexes[Cond][1] \notin asleep'
  <2>1. 1 \in Nat /\ 1 > 0
    OBVIOUS
  <2> QED
    BY <1>1, <1>2, <2>1, RequeueSound, Facts
<1>4. SleepersInv'
  <2>1. ASSUME NEW b \in Addrs, NEW u \in Range(futexes'[b])
        PROVE  \E a \in Addrs : u \in Range(futexes[a]) /\ (a \in Threads <=> b \in Threads)
    <3>1. CASE b = Mutex
      BY <1>2, <1>3, <3>1
    <3>2. CASE b # Mutex
      BY <1>2, <1>3, <3>2
    <3> QED
      BY <3>1, <3>2
  <2> QED
    BY <1>1, <2>1, WakeSleepers
<1>5. TypeOK' /\ WaitersListed'
  BY <1>1, <1>2, <1>3, Typed DEF Places
<1>6. LockNotMissed'
  <2> SUFFICES ASSUME futexes'[Mutex] # <<>> PROVE \E u \in Threads : At(u, "contend")'
    BY DEF LockNotMissed
  <2>1. futexes[Cond] # <<>>
    <3>1. futexes'[Mutex] \in Seq(Threads)
      BY <1>2, <1>3 DEF ListsInv
    <3>2. futexes'[Mutex][1] \in Range(futexes'[Mutex])
      BY <3>1, Empty
    <3>3. Range(<<>>) = {}
      BY DEF Range
    <3> QED
      BY <1>3, <3>2, <3>3
  <2>2. PICK u : u \in Range(futexes[Cond]) /\ u \notin asleep'
    BY <1>3, <2>1
  <2>3. u \in Threads /\ u # t /\ pc[u] = "contend"
    BY <1>1, <1>2, <2>2, Facts DEF IInv, SleepersInv, ListsInv
  <2> QED
    BY <1>1, <2>2, <2>3, Others DEF At
<1>7. CondNotMissed'
  BY <1>3 DEF CondNotMissed
<1>8. HolderInv'
  BY <1>1, HolderKept
<1> QED
  BY <1>1, <1>3, <1>4, <1>5, <1>6, <1>7, <1>8 DEF IInv, CountInv

\* The same for a broadcast that wakes everybody.
LEMMA CastAllSound ==
    ASSUME IInv, NEW t \in Threads, CastAll(t)
    PROVE  IInv'
<1>1. /\ t \notin asleep /\ pc[t] = "cast" /\ Go(t, "out") /\ UNCHANGED <<word, seen, joined>>
      /\ WakeAll(Cond)
  BY DEF CastAll, At
<1>2. Mutex \in Addrs /\ Cond \in Addrs /\ Cond # Mutex /\ joined \in Threads
  BY Facts DEF IInv, TypeOK
<1>3. /\ ListsInv' /\ asleep' \subseteq asleep /\ Range(futexes'[Cond]) = {}
      /\ \A b \in Addrs : b # Cond => futexes'[b] = futexes[b]
  BY <1>1, <1>2, WakeAllSound, Facts
<1>4. SleepersInv'
  <2>1. ASSUME NEW b \in Addrs, NEW u \in Range(futexes'[b]) PROVE u \in Range(futexes[b])
    BY <1>3
  <2> QED
    BY <1>1, <2>1, WakeSleepers
<1>5. TypeOK' /\ WaitersListed'
  BY <1>1, <1>2, <1>3, Typed DEF Places
<1>6. LockNotMissed' /\ HolderInv'
  BY <1>1, <1>2, <1>3, LockKept, HolderKept
<1>7. CondNotMissed'
  BY <1>3 DEF CondNotMissed
<1> QED
  BY <1>1, <1>3, <1>4, <1>5, <1>6, <1>7 DEF IInv, CountInv

\* The word and the list of the thread that exits are nobody's lock.
LEMMA ExitSound ==
    ASSUME IInv, NEW t \in Threads, Exit(t)
    PROVE  IInv'
<1>1. /\ t \notin asleep /\ pc[t] = "out" /\ Go(t, "done") /\ UNCHANGED <<seen, joined>>
      /\ word' = [word EXCEPT ![t] = 0] /\ Wake(t, 1)
  BY DEF Exit, At
<1>2. /\ Mutex \in Addrs /\ Cond \in Addrs /\ t \in Addrs /\ t # Mutex /\ t # Cond
      /\ joined \in Threads
  BY Facts DEF IInv, TypeOK
<1>3. /\ ListsInv' /\ asleep' \subseteq asleep /\ Range(futexes'[t]) \subseteq Range(futexes[t])
      /\ \A b \in Addrs : b # t => futexes'[b] = futexes[b]
  <2>1. 1 \in Nat
    OBVIOUS
  <2> QED
    BY <1>1, <1>2, <2>1, WakeSound, Facts
<1>4. SleepersInv'
  <2>1. ASSUME NEW b \in Addrs, NEW u \in Range(futexes'[b]) PROVE u \in Range(futexes[b])
    BY <1>3
  <2> QED
    BY <1>1, <2>1, WakeSleepers
<1>5. TypeOK' /\ WaitersListed'
  <2>1. 0 \in 0 .. MaxCast + 2 /\ "done" \in Places
    BY FutexAssumption DEF Places
  <2> QED
    BY <1>1, <1>2, <1>3, <2>1, Typed
<1>6. word'[Mutex] = word[Mutex] /\ word'[Cond] = word[Cond]
  BY <1>1, <1>2 DEF IInv, TypeOK
<1>7. LockNotMissed' /\ HolderInv' /\ CondNotMissed'
  BY <1>1, <1>2, <1>3, <1>6, LockKept, HolderKept, CondKept
<1> QED
  BY <1>3, <1>4, <1>5, <1>6, <1>7 DEF IInv, CountInv

\* A thread that joins another does not touch the lock or the condition.
LEMMA JoiningSound ==
    ASSUME IInv, Joining
    PROVE  IInv'
<1>1. /\ Main \in Threads /\ joined \in Threads /\ joined \in Addrs
      /\ Mutex \in Addrs /\ Cond \in Addrs /\ joined # Mutex /\ joined # Cond
  BY Facts, FutexAssumption DEF IInv, TypeOK
<1>2. PICK p \in {"join", "out", "joinWait"} :
          /\ Main \notin asleep /\ pc[Main] \in {"out", "join", "joinWait"} /\ Go(Main, p)
          /\ UNCHANGED <<word, seen>> /\ joined' \in Threads
          /\ UNCHANGED <<futexes, asleep>> \/ (p = "join" /\ Wait(Main, joined, 1))
  BY <1>1 DEF Joining, Join, JoinRead, JoinWait, At
<1>3. ListsInv' /\ SleepersInv'
  BY <1>1, <1>2, QuietSound, WaitSleepers
<1>4. /\ asleep' \subseteq asleep \cup {Main}
      /\ \A b \in Addrs : b # joined => futexes'[b] = futexes[b]
  BY <1>1, <1>2, WaitSound, Facts
<1>5. TypeOK' /\ WaitersListed'
  BY <1>1, <1>2, <1>3, Typed DEF Places
<1>6. LockNotMissed' /\ HolderInv' /\ CondNotMissed'
  BY <1>1, <1>2, <1>4, LockKept, HolderKept, CondKept
<1> QED
  BY <1>2, <1>3, <1>5, <1>6 DEF IInv, CountInv

-----------------------------------------------------------------------------
\* IInv is an inductive invariant of the futex system call and its callers.
THEOREM Invariant == Spec => []IInv
<1>1. Init => IInv
  <2> SUFFICES ASSUME Init PROVE IInv
    OBVIOUS
  <2>1. <<>> \in Seq(Threads) /\ IsInjective(<<>>) /\ Range(<<>>) = {}
    BY DEF IsInjective, Range
  <2>2. Mutex \in Addrs /\ Cond \in Addrs /\ Mutex \notin Threads /\ Cond \notin Threads
    BY FutexAssumption DEF Addrs
  <2>3. \A a \in Addrs : futexes[a] = <<>>
    BY DEF Init
  <2>4. TypeOK
    BY <2>1, FutexAssumption DEF Init, TypeOK
  <2>5. WaitersListed
    BY <2>1, <2>3 DEF Init, WaitersListed
  <2>6. SleepersInv /\ LockNotMissed /\ CondNotMissed
    BY <2>1, <2>2, <2>3 DEF SleepersInv, LockNotMissed, CondNotMissed
  <2>7. HolderInv /\ CountInv
    BY <2>2, FutexAssumption DEF Init, HolderInv, CountInv
  <2> QED
    BY <2>4, <2>5, <2>6, <2>7 DEF IInv
<1>2. IInv /\ [Next]_vars => IInv'
  <2> SUFFICES ASSUME IInv, [Next]_vars PROVE IInv'
    OBVIOUS
  <2>1. ASSUME NEW t \in Threads, Step(t) PROVE IInv'
    BY <2>1, LockSound, ContendSound, BlockSound, UnlockSound, WakeOneSound, CondBlockSound,
       BroadcastSound, CastRequeueSound, CastAllSound, ExitSound DEF Step
  <2>2. CASE Joining
    BY <2>2, JoiningSound
  <2>3. CASE UNCHANGED vars
    BY <2>3 DEF vars, IInv, TypeOK, WaitersListed, SleepersInv, HolderInv, CountInv,
                LockNotMissed, CondNotMissed, At
  <2> QED
    BY <2>1, <2>2, <2>3 DEF Next
<1> QED
  BY <1>1, <1>2, PTL DEF Spec

\* A thread sleeps in FUTEX_WAIT exactly while it is on the list of one
\* address, with any number of threads.
THEOREM AlwaysListed == Spec => []WaitersListed
<1>1. IInv => WaitersListed
  BY DEF IInv
<1> QED
  BY <1>1, Invariant, PTL

\* The lock never loses a wake-up: between the test of the word and the sleep,
\* in a wake-up or in a requeue.
THEOREM LockNeverMissed == Spec => []LockNotMissed
<1>1. IInv => LockNotMissed
  BY DEF IInv
<1> QED
  BY <1>1, Invariant, PTL

\* The condition never loses a broadcast.
THEOREM CondNeverMissed == Spec => []CondNotMissed
<1>1. IInv => CondNotMissed
  BY DEF IInv
<1> QED
  BY <1>1, Invariant, PTL
=============================================================================
