----------------------------- MODULE PipeProofs -----------------------------
(***************************************************************************)
(* A pipe for any size of the ring, any tasks at its ends and any lengths  *)
(* of their calls.                                                         *)
(*                                                                         *)
(* InOrder needs no more than that the calls make progress within their    *)
(* length.  NoLostWakeup is about tasks that have no children, or have     *)
(* their end of the pipe to themselves (~ParentsShare): it needs to know   *)
(* what the waiting lists hold, because an entry may outlive its sleep.    *)
(***************************************************************************)
EXTENDS Pipe, SequenceTheorems, TLAPS

Call == [op : {"none", "read", "write"}, len : Nat, off : Nat]

\* The ring, and the calls.
RingInv ==
    /\ head \in Nat /\ tail \in Nat
    /\ DOMAIN buf = 0 .. bufSize - 1
    /\ call \in [Users -> Call]
    /\ \A t \in Users : call[t].off <= call[t].len
    /\ InOrder

-----------------------------------------------------------------------------
(***************************************************************************)
(* Positions and slots.                                                    *)
(***************************************************************************)
\* A position is some rounds of the ring and a slot.
LEMMA Slot ==
    ASSUME NEW x \in Nat
    PROVE  /\ bufSize \in Nat /\ bufSize > 0
           /\ (x % bufSize) \in 0 .. bufSize - 1
           /\ \E d \in Int : x = bufSize * d + (x % bufSize)
<1>1. bufSize \in Nat /\ bufSize > 0
  BY bufSizeAssumption
<1>2. (x % bufSize) \in 0 .. bufSize - 1
  BY <1>1
<1>3. x \div bufSize \in Int /\ x = bufSize * (x \div bufSize) + (x % bufSize)
  BY <1>1
<1> QED
  BY <1>1, <1>2, <1>3

\* Positions less than a round apart are in different slots.
LEMMA SlotsDiffer ==
    ASSUME NEW x \in Nat, NEW y \in Nat, x < y, y < x + bufSize
    PROVE  (x % bufSize) # (y % bufSize)
<1>1. bufSize \in Nat /\ bufSize > 0
  BY bufSizeAssumption
<1>2. PICK d \in Int : x = bufSize * d + (x % bufSize)
  BY Slot
<1>3. PICK e \in Int : y = bufSize * e + (y % bufSize)
  BY Slot
<1>4. PICK r \in Int : r = (x % bufSize)
  BY <1>1
<1> SUFFICES ASSUME (y % bufSize) = r
             PROVE  FALSE
  BY <1>4
<1>5. x = bufSize * d + r /\ y = bufSize * e + r
  BY <1>2, <1>3, <1>4
<1>6. CASE d < e
  <2>1. bufSize * e >= bufSize * d + bufSize
    BY <1>1, <1>6
  <2> QED
    BY <1>1, <1>5, <2>1
<1>7. CASE e < d
  <2>1. bufSize * d >= bufSize * e + bufSize
    BY <1>1, <1>7
  <2> QED
    BY <1>1, <1>5, <2>1
<1>8. CASE d = e
  BY <1>5, <1>8
<1> QED
  BY <1>6, <1>7, <1>8

\* Where a round is complete the next slot is the first.
LEMMA Wraps ==
    ASSUME NEW x \in Nat
    PROVE  (x + (bufSize - (x % bufSize))) % bufSize = 0
<1>1. bufSize \in Nat /\ bufSize > 0
  BY bufSizeAssumption
<1>2. PICK d \in Int : x = bufSize * d + (x % bufSize)
  BY Slot
<1>3. PICK y \in Int : y = x + (bufSize - (x % bufSize))
  BY <1>1
<1>4. y = bufSize * (d + 1) + 0
  BY <1>1, <1>2, <1>3
<1>5. y % bufSize = 0
  BY <1>1, <1>4
<1> QED
  BY <1>3, <1>5

\* The loops of read and write copy all they can: two chunks are enough.
LEMMA CopiedAll ==
    ASSUME NEW x \in Nat, NEW n \in Nat, n <= bufSize, NEW m \in Nat
    PROVE  Copied(x, n, m) = MinOf(n, m)
<1>1. bufSize \in Nat /\ bufSize > 0
  BY bufSizeAssumption
<1>2. PICK r \in Nat : r = (x % bufSize) /\ r < bufSize
  BY Slot
<1>3. PICK c \in Nat : c = Chunk(x, n, m)
  BY <1>1, <1>2 DEF Chunk, MinOf
<1>4. c <= n /\ c <= m /\ (c = n \/ c = m \/ c = bufSize - r)
  BY <1>1, <1>2, <1>3 DEF Chunk, MinOf
<1>5. PICK s \in Nat : s = ((x + c) % bufSize) /\ s < bufSize
  <2>1. x + c \in Nat
    OBVIOUS
  <2> QED
    BY <1>1, <2>1, Slot
<1>6. Copied(x, n, m) = c + MinOf(MinOf(n - c, bufSize - s), m - c)
  BY <1>3, <1>5 DEF Copied, Chunk
<1>7. CASE c = n \/ c = m
  BY <1>1, <1>4, <1>5, <1>6, <1>7 DEF MinOf
<1>8. CASE c = bufSize - r
  <2>1. s = 0
    BY <1>2, <1>5, <1>8, Wraps
  <2> QED
    BY <1>1, <1>4, <1>6, <2>1 DEF MinOf
<1> QED
  BY <1>4, <1>7, <1>8

-----------------------------------------------------------------------------
(***************************************************************************)
(* The bytes.                                                              *)
(***************************************************************************)
\* The ring b holds the bytes from position h up to l.
Holds(b, h, l) == DOMAIN b = 0 .. bufSize - 1 /\ \A n \in h .. l - 1 : b[n % bufSize] = n

\* The first h bytes.
First(h) == [i \in 1 .. h |-> i - 1]

\* What a write stores comes behind what is there and overwrites none of it.
LEMMA StoreSound ==
    ASSUME NEW h \in Nat, NEW l \in Nat, NEW k \in Nat, h <= l, l + k <= h + bufSize,
           NEW b, Holds(b, h, l)
    PROVE  Holds(Stored(b, l, k), h, l + k)
<1> DEFINE b2 == Stored(b, l, k)
<1> USE DEF Holds
<1>1. bufSize \in Nat /\ bufSize > 0
  BY bufSizeAssumption
<1>2. ASSUME NEW x \in h .. (l + k) - 1, NEW y \in h .. (l + k) - 1, (x % bufSize) = (y % bufSize)
      PROVE  x = y
  <2>1. x \in Nat /\ y \in Nat /\ x < y + bufSize /\ y < x + bufSize
    BY <1>1
  <2>2. ~ x < y
    BY <1>2, <2>1, SlotsDiffer
  <2>3. ~ y < x
    BY <1>2, <2>1, SlotsDiffer
  <2> QED
    BY <2>1, <2>2, <2>3
<1>3. ASSUME NEW n \in h .. (l + k) - 1 PROVE b2[n % bufSize] = n
  <2>1. n \in Nat
    OBVIOUS
  <2>2. PICK i \in 0 .. bufSize - 1 : i = (n % bufSize)
    BY <2>1, Slot
  <2>3. CASE n \in l .. l + k - 1
    <3>1. \A y \in l .. l + k - 1 : y % bufSize = i => y = n
      BY <1>2, <2>2
    <3>2. \E y \in l .. l + k - 1 : y % bufSize = i
      BY <2>2, <2>3
    <3>3. (CHOOSE y \in l .. l + k - 1 : y % bufSize = i) = n
      BY <3>1, <3>2
    <3> QED
      BY <2>2, <3>2, <3>3 DEF Stored
  <2>4. CASE n \notin l .. l + k - 1
    <3>1. n \in h .. l - 1
      BY <2>4
    <3>2. ~ \E y \in l .. l + k - 1 : y % bufSize = i
      <4> SUFFICES ASSUME NEW y \in l .. l + k - 1, y % bufSize = i PROVE FALSE
        OBVIOUS
      <4>1. y \in h .. (l + k) - 1 /\ y # n
        BY <2>4
      <4> QED
        BY <1>2, <2>2, <4>1
    <3>3. b2[i] = b[i]
      BY <2>2, <3>2 DEF Stored
    <3> QED
      BY <2>2, <3>1, <3>3
  <2> QED
    BY <2>3, <2>4
<1>4. DOMAIN b2 = 0 .. bufSize - 1
  BY DEF Stored
<1> QED
  BY <1>3, <1>4

\* The bytes a read takes out continue those delivered before.
LEMMA DeliverSound ==
    ASSUME NEW h \in Nat, NEW l \in Nat, NEW k \in Nat, h + k <= l, NEW b, Holds(b, h, l)
    PROVE  First(h) \o Bytes(b, h, k) = First(h + k)
<1> DEFINE q == First(h)
           p == Bytes(b, h, k)
<1>1. q \in Seq(Nat) /\ Len(q) = h /\ \A i \in 1 .. h : q[i] = i - 1
  <2>1. \A i \in 1 .. h : i - 1 \in Nat
    OBVIOUS
  <2> QED
    BY <2>1, IsASeq, LenProperties DEF First
<1>2. p \in Seq(Nat) /\ Len(p) = k /\ \A i \in 1 .. k : p[i] = (h + i) - 1
  <2>1. ASSUME NEW i \in 1 .. k
        PROVE  b[(h + i - 1) % bufSize] = (h + i) - 1 /\ (h + i) - 1 \in Nat
    <3>1. (h + i) - 1 \in h .. l - 1 /\ h + i - 1 = (h + i) - 1 /\ (h + i) - 1 \in Nat
      OBVIOUS
    <3> QED
      BY <3>1 DEF Holds
  <2>2. p = [i \in 1 .. k |-> (h + i) - 1]
    BY <2>1 DEF Bytes
  <2> HIDE DEF p
  <2> QED
    BY <2>1, <2>2, IsASeq, LenProperties
<1> HIDE DEF p, q
<1>3. PICK x \in Seq(Nat), y \in Seq(Nat) :
          /\ x = q /\ Len(x) = h /\ \A i \in 1 .. h : x[i] = i - 1
          /\ y = p /\ Len(y) = k /\ \A i \in 1 .. k : y[i] = (h + i) - 1
  BY <1>1, <1>2
<1>4. PICK r : /\ r = x \o y /\ r \in Seq(Nat) /\ Len(r) = h + k
               /\ \A i \in 1 .. h + k : r[i] = IF i <= h THEN x[i] ELSE y[i - h]
  <2>1. PICK r : /\ r = x \o y /\ r \in Seq(Nat) /\ Len(r) = Len(x) + Len(y)
                 /\ \A i \in 1 .. Len(x) + Len(y) :
                        r[i] = IF i <= Len(x) THEN x[i] ELSE y[i - Len(x)]
    <3>1. /\ x \o y \in Seq(Nat) /\ Len(x \o y) = Len(x) + Len(y)
          /\ \A i \in 1 .. Len(x) + Len(y) :
                 (x \o y)[i] = IF i <= Len(x) THEN x[i] ELSE y[i - Len(x)]
      BY ConcatProperties
    <3> QED
      BY <3>1, Zenon
  <2>2. Len(x) = h /\ Len(y) = k
    BY <1>3
  <2>3. Len(r) = h + k /\ \A i \in 1 .. h + k : r[i] = IF i <= h THEN x[i] ELSE y[i - h]
    BY <2>1, <2>2, Zenon
  <2> QED
    BY <2>1, <2>3, Zenon
<1>5. ASSUME NEW i \in 1 .. h + k PROVE r[i] = i - 1
  <2>1. r[i] = IF i <= h THEN x[i] ELSE y[i - h]
    BY <1>4
  <2>2. CASE i <= h
    BY <1>3, <2>1, <2>2
  <2>3. CASE i > h
    <3>1. i - h \in 1 .. k /\ r[i] = y[i - h]
      BY <2>1, <2>3
    <3> QED
      BY <1>3, <3>1
  <2> QED
    BY <2>2, <2>3
<1>6. DOMAIN r = 1 .. h + k /\ r = [i \in DOMAIN r |-> r[i]]
  BY <1>4, LenProperties
<1>7. r = First(h + k)
  BY <1>5, <1>6 DEF First
<1> QED
  BY <1>3, <1>4, <1>7 DEF p, q

\* Pipe::write stores what there is room for.
LEMMA WriteBytes ==
    ASSUME RingInv, NEW t \in Users, NEW c \in Call, c.off <= c.len, WriteLoop(t, c)
    PROVE  /\ RingInv'
           /\ call' = [call EXCEPT ![t] = NoCall] \/ (tail' = head + bufSize /\ head' = head)
<1>1. bufSize \in Nat /\ bufSize > 0 /\ head \in Nat /\ tail \in Nat
  BY bufSizeAssumption DEF RingInv
<1>2. head <= tail /\ tail <= head + bufSize
  BY DEF RingInv, InOrder
<1>3. PICK n \in Nat : n = head + bufSize - tail /\ n <= bufSize
  BY <1>1, <1>2
<1>4. c.len \in Nat /\ c.off \in Nat
  BY DEF Call
<1>5. PICK m \in Nat : m = c.len - c.off
  BY <1>4
<1>6. PICK k \in Nat : k = Copied(tail, head + bufSize - tail, c.len - c.off) /\ k = MinOf(n, m)
  BY <1>1, <1>3, <1>5, CopiedAll DEF MinOf
<1>7. k <= n /\ k <= m /\ (k = n \/ k = m)
  BY <1>6 DEF MinOf
<1>8. tail' = tail + k /\ head' = head /\ rcvd' = rcvd
  BY <1>6 DEF WriteLoop
<1>9. buf' = Stored(buf, tail, k)
  BY <1>6 DEF WriteLoop
<1>10. Holds(buf', head, tail + k)
  <2>1. tail + k <= head + bufSize
    BY <1>1, <1>3, <1>7
  <2>2. Holds(buf, head, tail)
    BY DEF RingInv, InOrder, Holds
  <2> QED
    BY <1>1, <1>2, <1>9, <2>1, <2>2, StoreSound
<1>11. InOrder'
  <2>1. head' <= tail' /\ tail' <= head' + bufSize
    BY <1>1, <1>2, <1>3, <1>7, <1>8
  <2>2. rcvd' = [i \in 1 .. head' |-> i - 1]
    BY <1>8, <1>10 DEF First, RingInv, InOrder
  <2>3. \A x \in head' .. tail' - 1 : buf'[x % bufSize] = x
    BY <1>1, <1>8, <1>10 DEF Holds, RingInv, InOrder
  <2> QED
    BY <2>1, <2>2, <2>3 DEF InOrder
<1>12. \/ call' = [call EXCEPT ![t] = NoCall]
       \/ call' = [call EXCEPT ![t] = [c EXCEPT !.off = c.off + k]] /\ c.off + k # c.len
  BY <1>6 DEF WriteLoop
<1>13. /\ call' \in [Users -> Call]
       /\ \A u \in Users : call'[u].off <= call'[u].len
  <2>1. NoCall \in Call /\ NoCall.off = 0 /\ NoCall.len = 0
    BY DEF NoCall, Call
  <2>2. PICK d \in Call : d = [c EXCEPT !.off = c.off + k] /\ d.off <= d.len
    <3>1. [c EXCEPT !.off = c.off + k] \in Call
      BY <1>4 DEF Call
    <3>2. [c EXCEPT !.off = c.off + k].off <= [c EXCEPT !.off = c.off + k].len
      BY <1>4, <1>5, <1>7 DEF Call
    <3> QED
      BY <3>1, <3>2
  <2>3. PICK e \in Call : call' = [call EXCEPT ![t] = e] /\ e.off <= e.len
    <3>1. CASE call' = [call EXCEPT ![t] = NoCall]
      <4>1. NoCall.off <= NoCall.len
        BY <2>1
      <4> QED
        BY <2>1, <3>1, <4>1, Zenon
    <3>2. CASE call' = [call EXCEPT ![t] = [c EXCEPT !.off = c.off + k]]
      BY <2>2, <3>2, Zenon
    <3> QED
      BY <1>12, <3>1, <3>2
  <2>4. call \in [Users -> Call] /\ \A u \in Users : call[u].off <= call[u].len
    BY DEF RingInv
  <2>5. \A u \in Users : call'[u] = IF u = t THEN e ELSE call[u]
    BY <2>3, <2>4
  <2>6. call' \in [Users -> Call]
    BY <2>3, <2>4
  <2> QED
    BY <2>3, <2>4, <2>5, <2>6
<1>14. RingInv'
  BY <1>1, <1>8, <1>10, <1>11, <1>13 DEF RingInv, Holds
<1>15. c.off + k # c.len => tail + k = head + bufSize
  BY <1>1, <1>3, <1>4, <1>5, <1>7
<1> QED
  BY <1>8, <1>12, <1>14, <1>15

\* Pipe::read takes out what there is.
LEMMA ReadBytes ==
    ASSUME RingInv, NEW t \in Users, NEW c \in Call, c.off <= c.len, ReadLoop(t, c)
    PROVE  /\ RingInv'
           /\ call' = [call EXCEPT ![t] = NoCall] \/ (tail' = head' /\ head' = head)
<1>1. bufSize \in Nat /\ bufSize > 0 /\ head \in Nat /\ tail \in Nat
  BY bufSizeAssumption DEF RingInv
<1>2. head <= tail /\ tail <= head + bufSize
  BY DEF RingInv, InOrder
<1>3. PICK n \in Nat : n = tail - head /\ n <= bufSize
  BY <1>1, <1>2
<1>4. c.len \in Nat /\ c.off \in Nat
  BY DEF Call
<1>5. PICK m \in Nat : m = c.len - c.off
  BY <1>4
<1>6. PICK k \in Nat : k = Copied(head, tail - head, c.len - c.off) /\ k = MinOf(n, m)
  BY <1>1, <1>3, <1>5, CopiedAll DEF MinOf
<1>7. k <= n /\ k <= m /\ (k = n \/ k = m)
  BY <1>6 DEF MinOf
<1>8. head' = head + k /\ tail' = tail /\ buf' = buf
  BY <1>6 DEF ReadLoop
<1>9. rcvd' = rcvd \o Bytes(buf, head, k)
  BY <1>6 DEF ReadLoop
<1>10. rcvd' = First(head + k)
  <2>1. Holds(buf, head, tail) /\ rcvd = First(head)
    BY DEF RingInv, InOrder, Holds, First
  <2>2. head + k <= tail
    BY <1>1, <1>3, <1>7
  <2>3. First(head) \o Bytes(buf, head, k) = First(head + k)
    BY <1>1, <2>1, <2>2, DeliverSound
  <2> QED
    BY <1>9, <2>1, <2>3
<1>11. InOrder'
  <2>1. head' <= tail' /\ tail' <= head' + bufSize
    BY <1>1, <1>2, <1>3, <1>7, <1>8
  <2>2. rcvd' = [i \in 1 .. head' |-> i - 1]
    BY <1>8, <1>10 DEF First, RingInv, InOrder
  <2>3. \A x \in head' .. tail' - 1 : buf'[x % bufSize] = x
    BY <1>1, <1>8, <1>10 DEF Holds, RingInv, InOrder
  <2> QED
    BY <2>1, <2>2, <2>3 DEF InOrder
<1>12. \/ call' = [call EXCEPT ![t] = NoCall]
       \/ /\ call' = [call EXCEPT ![t] = [c EXCEPT !.off = c.off + k]]
          /\ c.off + k # c.len /\ ~ c.off + k > 0
  BY <1>6 DEF ReadLoop
<1>13. /\ call' \in [Users -> Call]
       /\ \A u \in Users : call'[u].off <= call'[u].len
  <2>1. NoCall \in Call /\ NoCall.off = 0 /\ NoCall.len = 0
    BY DEF NoCall, Call
  <2>2. PICK d \in Call : d = [c EXCEPT !.off = c.off + k] /\ d.off <= d.len
    <3>1. [c EXCEPT !.off = c.off + k] \in Call
      BY <1>4 DEF Call
    <3>2. [c EXCEPT !.off = c.off + k].off <= [c EXCEPT !.off = c.off + k].len
      BY <1>4, <1>5, <1>7 DEF Call
    <3> QED
      BY <3>1, <3>2
  <2>3. PICK e \in Call : call' = [call EXCEPT ![t] = e] /\ e.off <= e.len
    <3>1. CASE call' = [call EXCEPT ![t] = NoCall]
      <4>1. NoCall.off <= NoCall.len
        BY <2>1
      <4> QED
        BY <2>1, <3>1, <4>1, Zenon
    <3>2. CASE call' = [call EXCEPT ![t] = [c EXCEPT !.off = c.off + k]]
      BY <2>2, <3>2, Zenon
    <3> QED
      BY <1>12, <3>1, <3>2
  <2>4. call \in [Users -> Call] /\ \A u \in Users : call[u].off <= call[u].len
    BY DEF RingInv
  <2>5. \A u \in Users : call'[u] = IF u = t THEN e ELSE call[u]
    BY <2>3, <2>4
  <2>6. call' \in [Users -> Call]
    BY <2>3, <2>4
  <2> QED
    BY <2>3, <2>4, <2>5, <2>6
<1>14. RingInv'
  BY <1>1, <1>8, <1>10, <1>11, <1>13 DEF RingInv, Holds
<1>15. c.off + k # c.len /\ ~ c.off + k > 0 => tail = head + k /\ head + k = head
  BY <1>1, <1>3, <1>4, <1>5, <1>7
<1> QED
  BY <1>8, <1>12, <1>14, <1>15

\* A call at its start.
LEMMA NewCall ==
    ASSUME NEW n \in Lens, NEW o \in {"read", "write"}
    PROVE  \E c \in Call : c = [op |-> o, len |-> n, off |-> 0] /\ c.op = o /\ c.off <= c.len
<1> DEFINE c == [op |-> o, len |-> n, off |-> 0]
<1>1. n \in Nat
  BY LensAssumption
<1>2. c \in Call /\ c.op = o /\ c.off = 0 /\ c.len = n
  BY <1>1 DEF Call
<1>3. c.off <= c.len
  BY <1>1, <1>2
<1> HIDE DEF c
<1>4. \E d \in Call : d = c /\ d.op = o /\ d.off <= d.len
  BY <1>2, <1>3, Zenon
<1> QED
  BY <1>4 DEF c

\* The steps outside the loops leave the ring and the calls alone.
LEMMA RingSound ==
    ASSUME RingInv, [Next]_vars
    PROVE  RingInv'
<1>1. ASSUME UNCHANGED <<buf, head, tail, call, rcvd>> PROVE RingInv'
  BY <1>1 DEF RingInv, InOrder
<1>2. ASSUME NEW t \in Writers, NEW n \in Lens, Write(t, n) PROVE RingInv'
  <2>1. PICK c \in Call : c = [op |-> "write", len |-> n, off |-> 0] /\ c.off <= c.len
    BY NewCall
  <2> QED
    BY <1>2, <2>1, WriteBytes DEF Write, Users
<1>3. ASSUME NEW t \in Readers, NEW n \in Lens, Read(t, n) PROVE RingInv'
  <2>1. PICK c \in Call : c = [op |-> "read", len |-> n, off |-> 0] /\ c.off <= c.len
    BY NewCall
  <2> QED
    BY <1>3, <2>1, ReadBytes DEF Read, Users
<1>4. ASSUME NEW t \in Writers, WriteResume(t) PROVE RingInv'
  <2>1. t \in Users /\ call[t] \in Call /\ call[t].off <= call[t].len
    BY DEF Users, RingInv
  <2> QED
    BY <1>4, <2>1, WriteBytes DEF WriteResume
<1>5. ASSUME NEW t \in Readers, ReadResume(t) PROVE RingInv'
  <2>1. t \in Users /\ call[t] \in Call /\ call[t].off <= call[t].len
    BY DEF Users, RingInv
  <2> QED
    BY <1>5, <2>1, ReadBytes DEF ReadResume
<1> QED
  BY <1>1, <1>2, <1>3, <1>4, <1>5 DEF Next, vars, Close, ExitProc, Reap, ChildExit

\* The ring and the calls are sound from the start on.
LEMMA RingAlways == Spec => []RingInv
<1>1. Init => RingInv
  <2> SUFFICES ASSUME Init PROVE RingInv
    OBVIOUS
  <2>1. NoCall \in Call /\ NoCall.off <= NoCall.len
    BY DEF NoCall, Call
  <2>2. call \in [Users -> Call] /\ \A t \in Users : call[t].off <= call[t].len
    BY <2>1 DEF Init
  <2>3. 1 .. 0 = {} /\ 0 .. 0 - 1 = {} /\ <<>> = [i \in {} |-> i - 1]
    OBVIOUS
  <2>4. InOrder
    BY <2>3, bufSizeAssumption DEF Init, InOrder
  <2> QED
    BY <2>2, <2>4 DEF Init, RingInv
<1>2. RingInv /\ [Next]_vars => RingInv'
  BY RingSound
<1> QED
  BY <1>1, <1>2, PTL DEF Spec

\* The pipe neither loses, repeats nor reorders bytes, for any size of the
\* ring, any tasks and any lengths of their calls.
THEOREM AlwaysInOrder == Spec => []InOrder
<1>1. RingInv => InOrder
  BY DEF RingInv
<1> QED
  BY <1>1, RingAlways, PTL

-----------------------------------------------------------------------------
(***************************************************************************)
(* The waiting lists.  A list q of the tasks S at one end of the pipe,     *)
(* when the tasks in a sleep, the descriptors are f and the calls c:       *)
(* either it is exactly the sleepers of the end, or one task is left at    *)
(* the end and the list holds no other, perhaps more than once.            *)
(***************************************************************************)
Exact(S, q, a) == IsInjective(q) /\ Range(q) = a \cap S

Lone(S, q, a, f, c, t) ==
    Range(q) \subseteq {t} /\ a \cap S \subseteq Range(q) /\ ~EndOpen(S \ {t}, f, c)

EndOK(S, q, a, f, c) ==
    q \in Seq(S) /\ (Exact(S, q, a) \/ \E t \in S : Lone(S, q, a, f, c, t))

WaitsType == [r : Seq(Readers), w : Seq(Writers), a : SUBSET Users]

EndsOK(w, f, c) ==
    w \in WaitsType /\ EndOK(Readers, w.r, w.a, f, c) /\ EndOK(Writers, w.w, w.a, f, c)

ListsInv ==
    /\ EndsOK(Waits, fd, call)
    /\ \A t \in asleep : InCall(t)
    /\ NoLostWakeup

\* The front of a list, and the rest.
LEMMA Front ==
    ASSUME NEW S, NEW q \in Seq(S), q # <<>>
    PROVE  /\ Head(q) \in S /\ Tail(q) \in Seq(S) /\ Head(q) \in Range(q)
           /\ Range(q) = Range(Tail(q)) \cup {Head(q)}
           /\ IsInjective(q) => IsInjective(Tail(q)) /\ Head(q) \notin Range(Tail(q))
<1>1. PICK k \in Nat : Len(q) = k + 1
  <2>1. Len(q) \in Nat /\ Len(q) # 0
    BY EmptySeq, LenProperties
  <2>2. Len(q) - 1 \in Nat /\ Len(q) = (Len(q) - 1) + 1
    BY <2>1
  <2> QED
    BY <2>2
<1>2. PICK h : h = Head(q) /\ h \in S /\ h = q[1]
  <2>1. Head(q) = q[1] /\ Head(q) \in S
    BY HeadTailProperties
  <2> QED
    BY <2>1
<1>3. PICK r : /\ r = Tail(q) /\ r \in Seq(S) /\ DOMAIN r = 1 .. k
               /\ \A i \in 1 .. k : r[i] = q[i + 1]
  <2>1. Tail(q) \in Seq(S) /\ Len(Tail(q)) = k
    BY <1>1, HeadTailProperties
  <2>2. \A i \in 1 .. Len(Tail(q)) : Tail(q)[i] = q[i + 1]
    BY HeadTailProperties
  <2>3. DOMAIN Tail(q) = 1 .. k
    BY <2>1, LenProperties
  <2> QED
    BY <2>1, <2>2, <2>3, Zenon
<1>4. DOMAIN q = 1 .. k + 1
  BY <1>1, LenProperties
<1>5. 1 \in 1 .. k + 1 /\ \A i \in 1 .. k : i + 1 \in 1 .. k + 1 /\ i + 1 # 1
  OBVIOUS
<1>6. Range(q) = Range(r) \cup {h} /\ h \in Range(q)
  <2>1. ASSUME NEW x \in Range(q) PROVE x \in Range(r) \cup {h}
    <3>1. PICK i \in 1 .. k + 1 : x = q[i]
      BY <1>4 DEF Range
    <3>2. CASE i = 1
      BY <1>2, <3>1, <3>2
    <3>3. CASE i # 1
      <4>1. i - 1 \in 1 .. k /\ r[i - 1] = x
        BY <1>3, <3>1, <3>3
      <4> QED
        BY <1>3, <4>1 DEF Range
    <3> QED
      BY <3>2, <3>3
  <2>2. ASSUME NEW x \in Range(r) PROVE x \in Range(q)
    BY <1>3, <1>4, <1>5 DEF Range
  <2>3. h \in Range(q)
    BY <1>2, <1>4, <1>5 DEF Range
  <2> QED
    BY <2>1, <2>2, <2>3
<1>7. ASSUME IsInjective(q) PROVE IsInjective(r) /\ h \notin Range(r)
  <2>1. ASSUME NEW i \in 1 .. k, NEW j \in 1 .. k, r[i] = r[j] PROVE i = j
    <3>1. i + 1 = j + 1
      BY <1>3, <1>4, <1>5, <1>7, <2>1 DEF IsInjective
    <3> QED
      BY <3>1
  <2>2. ASSUME NEW i \in 1 .. k PROVE r[i] # h
    BY <1>2, <1>3, <1>4, <1>5, <1>7 DEF IsInjective
  <2> QED
    BY <1>3, <2>1, <2>2 DEF IsInjective, Range
<1> QED
  BY <1>2, <1>3, <1>6, <1>7

\* A task at the end of a list.
LEMMA Back ==
    ASSUME NEW S, NEW q \in Seq(S), NEW t \in S
    PROVE  /\ Append(q, t) \in Seq(S)
           /\ Range(Append(q, t)) = Range(q) \cup {t}
           /\ IsInjective(q) /\ t \notin Range(q) => IsInjective(Append(q, t))
<1>1. PICK k \in Nat : k = Len(q) /\ DOMAIN q = 1 .. k
  BY LenProperties
<1>2. PICK r : /\ r = Append(q, t) /\ r \in Seq(S) /\ DOMAIN r = 1 .. k + 1
               /\ r[k + 1] = t /\ \A i \in 1 .. k : r[i] = q[i]
  <2>1. /\ Append(q, t) \in Seq(S) /\ Len(Append(q, t)) = k + 1
        /\ Append(q, t)[k + 1] = t /\ \A i \in 1 .. k : Append(q, t)[i] = q[i]
    BY <1>1, AppendProperties
  <2>2. DOMAIN Append(q, t) = 1 .. k + 1
    BY <2>1, LenProperties
  <2> QED
    BY <2>1, <2>2, Zenon
<1>3. k + 1 \in 1 .. k + 1 /\ \A i \in 1 .. k : i \in 1 .. k + 1
  OBVIOUS
<1>4. \A i \in 1 .. k + 1 : i \in 1 .. k \/ i = k + 1
  OBVIOUS
<1>5. Range(r) = Range(q) \cup {t}
  <2>1. ASSUME NEW x \in Range(r) PROVE x \in Range(q) \cup {t}
    BY <1>1, <1>2, <1>4 DEF Range
  <2>2. ASSUME NEW x \in Range(q) PROVE x \in Range(r)
    BY <1>1, <1>2, <1>3 DEF Range
  <2>3. t \in Range(r)
    BY <1>2, <1>3 DEF Range
  <2> QED
    BY <2>1, <2>2, <2>3
<1>6. ASSUME IsInjective(q), t \notin Range(q) PROVE IsInjective(r)
  <2>1. ASSUME NEW i \in 1 .. k + 1, NEW j \in 1 .. k + 1, r[i] = r[j] PROVE i = j
    <3>1. \A x \in 1 .. k : q[x] # t
      BY <1>1, <1>6 DEF Range
    <3>2. CASE i \in 1 .. k /\ j \in 1 .. k
      BY <1>1, <1>2, <1>6, <2>1, <3>2 DEF IsInjective
    <3> QED
      BY <1>2, <1>4, <2>1, <3>1, <3>2
  <2> QED
    BY <1>2, <2>1 DEF IsInjective
<1> QED
  BY <1>2, <1>5, <1>6

\* notify_one takes the front off: the end is still in order.  Where somebody
\* of the end sleeps on, the one at the front was asleep.
LEMMA PopOK ==
    ASSUME NEW S, NEW q, NEW a, NEW f, NEW c, EndOK(S, q, a, f, c), q # <<>>
    PROVE  /\ EndOK(S, Tail(q), a \ {Head(q)}, f, c) /\ Head(q) \in S
           /\ \A y \in S : y \in a \ {Head(q)} => Head(q) \in a
<1>1. q \in Seq(S)
  BY DEF EndOK
<1>2. PICK h, r : /\ h = Head(q) /\ r = Tail(q) /\ h \in S /\ r \in Seq(S) /\ h \in Range(q)
                  /\ Range(q) = Range(r) \cup {h}
                  /\ IsInjective(q) => IsInjective(r) /\ h \notin Range(r)
  BY <1>1, Front, Zenon
<1>3. CASE Exact(S, q, a)
  <2>1. Exact(S, r, a \ {h}) /\ h \in a
    BY <1>2, <1>3 DEF Exact
  <2> QED
    BY <1>2, <2>1 DEF EndOK
<1>4. ASSUME NEW t \in S, Lone(S, q, a, f, c, t)
      PROVE  EndOK(S, r, a \ {h}, f, c) /\ \A y \in S : y \notin a \ {h}
  <2>1. h = t /\ Range(r) \subseteq {t} /\ (a \ {h}) \cap S = {}
    BY <1>2, <1>4 DEF Lone
  <2>2. Lone(S, r, a \ {h}, f, c, t)
    BY <1>4, <2>1 DEF Lone
  <2> QED
    BY <1>2, <2>1, <2>2 DEF EndOK
<1> QED
  BY <1>2, <1>3, <1>4 DEF EndOK

\* What the tasks of the other end do does not matter.
LEMMA OtherOK ==
    ASSUME NEW S, NEW q, NEW a, NEW f, NEW c, EndOK(S, q, a, f, c), NEW b, b \cap S = a \cap S
    PROVE  EndOK(S, q, b, f, c)
BY DEF EndOK, Exact, Lone

\* A task that goes to sleep in a call, or with its descriptor.
LEMMA PushOK ==
    ASSUME NEW S, NEW q, NEW a, NEW f, NEW c, EndOK(S, q, a, f, c),
           NEW t \in S, t \notin a, t \in f \/ c[t].op # "none"
    PROVE  EndOK(S, Append(q, t), a \cup {t}, f, c)
<1>1. PICK r : /\ r = Append(q, t) /\ r \in Seq(S) /\ Range(r) = Range(q) \cup {t}
               /\ IsInjective(q) /\ t \notin Range(q) => IsInjective(r)
  BY Back, Zenon DEF EndOK
<1>2. CASE Exact(S, q, a)
  <2>1. Exact(S, r, a \cup {t})
    BY <1>1, <1>2 DEF Exact
  <2> QED
    BY <1>1, <2>1 DEF EndOK
<1>3. ASSUME NEW u \in S, Lone(S, q, a, f, c, u) PROVE EndOK(S, r, a \cup {t}, f, c)
  <2>1. t = u
    BY <1>3 DEF Lone, EndOpen
  <2>2. Lone(S, r, a \cup {t}, f, c, u)
    BY <1>1, <1>3, <2>1 DEF Lone
  <2> QED
    BY <1>1, <2>2 DEF EndOK
<1> QED
  BY <1>1, <1>2, <1>3 DEF EndOK

\* Nobody of S uses the end with g and d who did not with f and c.
Shuts(S, f, c, g, d) ==
    \A u \in S : u \in g \/ d[u].op # "none" => u \in f \/ c[u].op # "none"

\* An end nobody opens again.
LEMMA ShutOK ==
    ASSUME NEW S, NEW q, NEW a, NEW f, NEW c, EndOK(S, q, a, f, c), NEW g, NEW d,
           Shuts(S, f, c, g, d)
    PROVE  EndOK(S, q, a, g, d)
<1>1. ASSUME NEW t \in S, ~EndOpen(S \ {t}, f, c) PROVE ~EndOpen(S \ {t}, g, d)
  BY <1>1 DEF EndOpen, Shuts
<1>2. ASSUME NEW t \in S, Lone(S, q, a, f, c, t) PROVE Lone(S, q, a, g, d, t)
  BY <1>1, <1>2 DEF Lone
<1> QED
  BY <1>2 DEF EndOK

\* notify_all.
LEMMA ClearOK ==
    ASSUME NEW S, NEW q, NEW a, NEW f, NEW c, EndOK(S, q, a, f, c)
    PROVE  EndOK(S, <<>>, a \ Range(q), f, c) /\ (a \ Range(q)) \cap S = {}
<1>1. <<>> \in Seq(S) /\ IsInjective(<<>>) /\ Range(<<>>) = {}
  BY DEF IsInjective, Range
<1>2. a \cap S \subseteq Range(q)
  BY DEF EndOK, Exact, Lone
<1>3. Exact(S, <<>>, a \ Range(q))
  BY <1>1, <1>2 DEF Exact
<1> QED
  BY <1>1, <1>2, <1>3 DEF EndOK

\* A task that is woken without notify leaves its entry behind; it is the only
\* one at its end.
LEMMA StaleOK ==
    ASSUME NEW S, NEW q, NEW a, NEW f, NEW c, EndOK(S, q, a, f, c),
           NEW t \in S, t \in a, ~EndOpen(S \ {t}, f, c), \A u \in a : c[u].op # "none"
    PROVE  EndOK(S, q, a \ {t}, f, c)
<1>1. \A u \in S : u \in a => u = t
  BY DEF EndOpen
<1>2. Range(q) \subseteq {t}
  <2>1. CASE Exact(S, q, a)
    BY <1>1, <2>1 DEF Exact
  <2>2. ASSUME NEW u \in S, Lone(S, q, a, f, c, u) PROVE Range(q) \subseteq {t}
    BY <2>2 DEF Lone
  <2> QED
    BY <2>1, <2>2 DEF EndOK
<1>3. Lone(S, q, a \ {t}, f, c, t)
  BY <1>1, <1>2 DEF Lone
<1> QED
  BY <1>3 DEF EndOK

\* Somebody of S who sleeps on after a notify was not the one it was meant for.
Fair(S, a, b) == b \subseteq a /\ ((\E y \in S : y \in b) => \E x \in S : x \in a \ b)

\* notify_one of canr.
LEMMA NotifyRSound ==
    ASSUME NEW w, NEW f, NEW c, EndsOK(w, f, c)
    PROVE  EndsOK(NotifyR(w), f, c) /\ Fair(Readers, w.a, NotifyR(w).a)
<1>1. w \in WaitsType /\ EndOK(Readers, w.r, w.a, f, c) /\ EndOK(Writers, w.w, w.a, f, c)
  BY DEF EndsOK
<1>2. CASE w.r = <<>>
  <2>1. Range(<<>>) = {}
    BY DEF Range
  <2>2. w.a \cap Readers = {}
    BY <1>1, <1>2, <2>1 DEF EndOK, Exact, Lone
  <2> QED
    BY <1>2, <2>2 DEF NotifyR, Fair
<1>3. CASE w.r # <<>>
  <2>1. PICK h, r : /\ h = Head(w.r) /\ r = Tail(w.r) /\ EndOK(Readers, r, w.a \ {h}, f, c)
                    /\ h \in Readers /\ \A y \in Readers : y \in w.a \ {h} => h \in w.a
    BY <1>1, <1>3, PopOK, Zenon
  <2>2. NotifyR(w) = [w EXCEPT !.r = r, !.a = w.a \ {h}]
    BY <1>3, <2>1 DEF NotifyR
  <2>3. r \in Seq(Readers) /\ w.a \ {h} \in SUBSET Users /\ w.w \in Seq(Writers)
    BY <1>1, <2>1 DEF EndOK, WaitsType
  <2>4. /\ NotifyR(w) \in WaitsType /\ NotifyR(w).r = r
        /\ NotifyR(w).a = w.a \ {h} /\ NotifyR(w).w = w.w
    BY <1>1, <2>2, <2>3 DEF WaitsType
  <2>5. (w.a \ {h}) \cap Writers = w.a \cap Writers
    BY <2>1, EndsAssumption
  <2>6. EndOK(Writers, w.w, w.a \ {h}, f, c)
    BY <1>1, <2>5, OtherOK
  <2> QED
    BY <2>1, <2>4, <2>6 DEF EndsOK, Fair
<1> QED
  BY <1>2, <1>3

\* notify_one of canw.
LEMMA NotifyWSound ==
    ASSUME NEW w, NEW f, NEW c, EndsOK(w, f, c)
    PROVE  EndsOK(NotifyW(w), f, c) /\ Fair(Writers, w.a, NotifyW(w).a)
<1>1. w \in WaitsType /\ EndOK(Readers, w.r, w.a, f, c) /\ EndOK(Writers, w.w, w.a, f, c)
  BY DEF EndsOK
<1>2. CASE w.w = <<>>
  <2>1. Range(<<>>) = {}
    BY DEF Range
  <2>2. w.a \cap Writers = {}
    BY <1>1, <1>2, <2>1 DEF EndOK, Exact, Lone
  <2> QED
    BY <1>2, <2>2 DEF NotifyW, Fair
<1>3. CASE w.w # <<>>
  <2>1. PICK h, r : /\ h = Head(w.w) /\ r = Tail(w.w) /\ EndOK(Writers, r, w.a \ {h}, f, c)
                    /\ h \in Writers /\ \A y \in Writers : y \in w.a \ {h} => h \in w.a
    BY <1>1, <1>3, PopOK, Zenon
  <2>2. NotifyW(w) = [w EXCEPT !.w = r, !.a = w.a \ {h}]
    BY <1>3, <2>1 DEF NotifyW
  <2>3. r \in Seq(Writers) /\ w.a \ {h} \in SUBSET Users /\ w.r \in Seq(Readers)
    BY <1>1, <2>1 DEF EndOK, WaitsType
  <2>4. /\ NotifyW(w) \in WaitsType /\ NotifyW(w).w = r
        /\ NotifyW(w).a = w.a \ {h} /\ NotifyW(w).r = w.r
    BY <1>1, <2>2, <2>3 DEF WaitsType
  <2>5. (w.a \ {h}) \cap Readers = w.a \cap Readers
    BY <2>1, EndsAssumption
  <2>6. EndOK(Readers, w.r, w.a \ {h}, f, c)
    BY <1>1, <2>5, OtherOK
  <2> QED
    BY <2>1, <2>4, <2>6 DEF EndsOK, Fair
<1> QED
  BY <1>2, <1>3

\* tryWakeup leaves nobody behind for whom the ring at h and l is ready.
LEMMA TrySound ==
    ASSUME NEW w, NEW f, NEW c, EndsOK(w, f, c), NEW h, NEW l
    PROVE  /\ EndsOK(tryWakeup(w, h, l), f, c) /\ tryWakeup(w, h, l).a \subseteq w.a
           /\ h # l => Fair(Readers, w.a, tryWakeup(w, h, l).a)
           /\ l # h + bufSize => Fair(Writers, w.a, tryWakeup(w, h, l).a)
<1>1. PICK v : /\ v = (IF h # l THEN NotifyR(w) ELSE w) /\ EndsOK(v, f, c) /\ v.a \subseteq w.a
               /\ h # l => Fair(Readers, w.a, v.a)
  BY NotifyRSound DEF Fair
<1>2. PICK u : /\ u = (IF l # h + bufSize THEN NotifyW(v) ELSE v) /\ EndsOK(u, f, c)
               /\ u.a \subseteq v.a
               /\ l # h + bufSize => Fair(Writers, v.a, u.a)
  BY <1>1, NotifyWSound DEF Fair
<1>3. tryWakeup(w, h, l) = u
  BY <1>1, <1>2 DEF tryWakeup
<1>4. h # l => Fair(Readers, w.a, u.a)
  BY <1>1, <1>2 DEF Fair
<1>5. l # h + bufSize => Fair(Writers, w.a, u.a)
  BY <1>1, <1>2 DEF Fair
<1> QED
  BY <1>1, <1>2, <1>3, <1>4, <1>5

\* The destructor of a File wakes whom it finds at the other end.
LEMMA ReleaseSound ==
    ASSUME NEW w, NEW f, NEW c, EndsOK(w, f, c), NEW t
    PROVE  EndsOK(Release(w, t, f, c), f, c) /\ Release(w, t, f, c).a \subseteq w.a
<1>1. w \in WaitsType /\ EndOK(Readers, w.r, w.a, f, c) /\ EndOK(Writers, w.w, w.a, f, c)
  BY DEF EndsOK
<1>2. w.r \in Seq(Readers) /\ w.w \in Seq(Writers) /\ w.a \in SUBSET Users
  BY <1>1 DEF WaitsType
<1>3. Range(w.r) \subseteq Readers /\ Range(w.w) \subseteq Writers
  BY <1>2 DEF Range
<1>4. <<>> \in Seq(Readers) /\ <<>> \in Seq(Writers)
  OBVIOUS
<1> DEFINE v == [w EXCEPT !.r = <<>>, !.a = @ \ Range(w.r)]
           u == [w EXCEPT !.w = <<>>, !.a = @ \ Range(w.w)]
<1>5. v \in WaitsType /\ v.r = <<>> /\ v.w = w.w /\ v.a = w.a \ Range(w.r)
  BY <1>1, <1>2, <1>4 DEF WaitsType
<1>6. u \in WaitsType /\ u.w = <<>> /\ u.r = w.r /\ u.a = w.a \ Range(w.w)
  BY <1>1, <1>2, <1>4 DEF WaitsType
<1>7. Release(w, t, f, c) \in {u, v, w}
  BY DEF Release
<1> HIDE DEF v, u
<1>8. EndOK(Readers, <<>>, w.a \ Range(w.r), f, c) /\ EndOK(Writers, <<>>, w.a \ Range(w.w), f, c)
  BY <1>1, ClearOK, Zenon
<1>9. EndOK(Readers, v.r, v.a, f, c) /\ EndOK(Writers, u.w, u.a, f, c)
  BY <1>5, <1>6, <1>8, Zenon
<1>10. v.a \cap Writers = w.a \cap Writers /\ u.a \cap Readers = w.a \cap Readers
  BY <1>3, <1>5, <1>6, EndsAssumption
<1>11. EndOK(Writers, v.w, v.a, f, c) /\ EndOK(Readers, u.r, u.a, f, c)
  BY <1>1, <1>5, <1>6, <1>10, OtherOK
<1>12. EndsOK(v, f, c) /\ EndsOK(u, f, c) /\ v.a \subseteq w.a /\ u.a \subseteq w.a
  BY <1>5, <1>6, <1>9, <1>11 DEF EndsOK
<1> QED
  BY <1>7, <1>12

\* The lists as an action leaves them.
LEMMA SetSound ==
    ASSUME NEW u, EndsOK(u, fd', call'), SetWaits(u)
    PROVE  EndsOK(Waits, fd, call)'
<1>1. u \in WaitsType /\ EndOK(Readers, u.r, u.a, fd', call') /\ EndOK(Writers, u.w, u.a, fd', call')
  BY DEF EndsOK
<1>2. Waits'.r = u.r /\ Waits'.w = u.w /\ Waits'.a = u.a
  BY DEF SetWaits, Waits
<1>3. Waits' \in WaitsType
  BY <1>1 DEF SetWaits, Waits, WaitsType
<1>4. EndsOK(Waits', fd', call')
  BY <1>1, <1>2, <1>3 DEF EndsOK
<1> QED
  BY <1>4

\* A call returns: it has notified whom the ring is ready for.
LEMMA DoneSound ==
    ASSUME ListsInv, call \in [Users -> Call], NEW t \in Users, t \notin asleep,
           fd' = fd, call' = [call EXCEPT ![t] = NoCall],
           SetWaits(Release(tryWakeup(Waits, head', tail'), t, fd, call'))
    PROVE  ListsInv'
<1>1. EndsOK(Waits, fd, call) /\ Waits.a = asleep /\ \A u \in asleep : u \in Users /\ InCall(u)
  BY DEF ListsInv, Waits, EndsOK, WaitsType
<1>2. \A u \in Users : call'[u] = IF u = t THEN NoCall ELSE call[u]
  OBVIOUS
<1>3. Shuts(Readers, fd, call, fd, call') /\ Shuts(Writers, fd, call, fd, call')
  BY <1>2 DEF NoCall, Shuts, Users
<1>4. EndsOK(Waits, fd, call')
  BY <1>1, <1>3, ShutOK DEF EndsOK
<1>5. PICK v : /\ v = tryWakeup(Waits, head', tail') /\ EndsOK(v, fd, call')
               /\ v.a \subseteq asleep
               /\ head' # tail' => Fair(Readers, asleep, v.a)
               /\ tail' # head' + bufSize => Fair(Writers, asleep, v.a)
  BY <1>1, <1>4, TrySound
<1>6. PICK u : u = Release(v, t, fd, call') /\ EndsOK(u, fd', call') /\ u.a \subseteq v.a
  BY <1>5, ReleaseSound
<1>7. EndsOK(Waits, fd, call)' /\ asleep' = u.a
  BY <1>5, <1>6, SetSound DEF SetWaits
<1>8. \A y \in asleep' : call'[y].op # "none"
  BY <1>1, <1>2, <1>5, <1>6, <1>7 DEF InCall
<1>9. ASSUME NEW x \in asleep, x \notin v.a PROVE Woken'
  BY <1>1, <1>2, <1>6, <1>7, <1>9 DEF Woken, InCall
<1>10. NoLostWakeup'
  <2>1. ASSUME NEW y \in Readers, y \in asleep', head' # tail' PROVE Woken'
    BY <1>5, <1>6, <1>7, <1>9, <2>1 DEF Fair
  <2>2. ASSUME NEW y \in Writers, y \in asleep', tail' # head' + bufSize PROVE Woken'
    BY <1>5, <1>6, <1>7, <1>9, <2>2 DEF Fair
  <2> QED
    BY <2>1, <2>2 DEF NoLostWakeup, Sleeping, empty, full
<1> QED
  BY <1>7, <1>8, <1>10 DEF ListsInv, InCall

\* write() goes to sleep: the ring is full, and a reader has been notified.
LEMMA WriteSleeps ==
    ASSUME ListsInv, call \in [Users -> Call], NEW t \in Writers, t \notin asleep,
           t \in fd \/ InCall(t), fd' = fd,
           NEW d, call' = [call EXCEPT ![t] = d], d.op # "none", tail' = head' + bufSize,
           SetWaits([NotifyR(Waits) EXCEPT !.w = Append(@, t), !.a = @ \cup {t}])
    PROVE  ListsInv'
<1>1. EndsOK(Waits, fd, call) /\ Waits.a = asleep /\ \A u \in asleep : u \in Users /\ InCall(u)
  BY DEF ListsInv, Waits, EndsOK, WaitsType
<1>2. PICK v : v = NotifyR(Waits) /\ EndsOK(v, fd, call) /\ Fair(Readers, asleep, v.a)
  BY <1>1, NotifyRSound
<1>3. /\ v \in WaitsType /\ v.a \subseteq asleep
      /\ EndOK(Readers, v.r, v.a, fd, call) /\ EndOK(Writers, v.w, v.a, fd, call)
  BY <1>2 DEF EndsOK, Fair
<1>4. PICK q, a : q = Append(v.w, t) /\ a = v.a \cup {t} /\ EndOK(Writers, q, a, fd, call)
  <2>1. EndOK(Writers, Append(v.w, t), v.a \cup {t}, fd, call)
    BY <1>3, PushOK DEF InCall
  <2> QED
    BY <2>1, Zenon
<1>5. a \cap Readers = v.a \cap Readers /\ a \subseteq Users
  BY <1>1, <1>3, <1>4, EndsAssumption DEF Users
<1>6. EndOK(Readers, v.r, a, fd, call)
  BY <1>3, <1>5, OtherOK
<1>7. \A u \in Users : call'[u] = IF u = t THEN d ELSE call[u]
  BY DEF Users
<1>8. Shuts(Readers, fd, call, fd', call') /\ Shuts(Writers, fd, call, fd', call')
  BY <1>7 DEF InCall, Shuts, Users
<1>9. EndOK(Writers, q, a, fd', call') /\ EndOK(Readers, v.r, a, fd', call')
  BY <1>4, <1>6, <1>8, ShutOK
<1>10. q \in Seq(Writers)
  BY <1>4 DEF EndOK
<1>11. PICK u : u = [v EXCEPT !.w = q, !.a = a]
  OBVIOUS
<1>12. u \in WaitsType /\ u.w = q /\ u.r = v.r /\ u.a = a
  BY <1>3, <1>5, <1>10, <1>11 DEF WaitsType
<1>13. EndsOK(u, fd', call')
  BY <1>9, <1>12 DEF EndsOK
<1>14. SetWaits(u)
  BY <1>2, <1>4, <1>11
<1>15. EndsOK(Waits, fd, call)' /\ asleep' = a
  BY <1>12, <1>13, <1>14, SetSound DEF SetWaits
<1>16. \A y \in a : call'[y].op # "none"
  BY <1>1, <1>3, <1>4, <1>5, <1>7 DEF InCall
<1>17. ASSUME NEW y \in Readers, y \in a PROVE Woken'
  <2>1. y \in v.a
    BY <1>4, <1>17, EndsAssumption
  <2>2. PICK x \in Readers : x \in asleep \ v.a
    BY <1>2, <2>1 DEF Fair
  <2>3. x # t /\ x \in Users /\ InCall(x)
    BY <1>1, <2>2, EndsAssumption
  <2> QED
    BY <1>4, <1>7, <1>15, <2>2, <2>3 DEF Woken, InCall
<1>18. NoLostWakeup'
  BY <1>15, <1>17 DEF NoLostWakeup, Sleeping, full
<1> QED
  BY <1>15, <1>16, <1>18 DEF ListsInv, InCall

\* read() goes to sleep: the ring is empty, and a writer has been notified.
LEMMA ReadSleeps ==
    ASSUME ListsInv, call \in [Users -> Call], NEW t \in Readers, t \notin asleep,
           t \in fd \/ InCall(t), fd' = fd,
           NEW d, call' = [call EXCEPT ![t] = d], d.op # "none", tail' = head',
           SetWaits([NotifyW(Waits) EXCEPT !.r = Append(@, t), !.a = @ \cup {t}])
    PROVE  ListsInv'
<1>1. EndsOK(Waits, fd, call) /\ Waits.a = asleep /\ \A u \in asleep : u \in Users /\ InCall(u)
  BY DEF ListsInv, Waits, EndsOK, WaitsType
<1>2. PICK v : v = NotifyW(Waits) /\ EndsOK(v, fd, call) /\ Fair(Writers, asleep, v.a)
  BY <1>1, NotifyWSound
<1>3. /\ v \in WaitsType /\ v.a \subseteq asleep
      /\ EndOK(Readers, v.r, v.a, fd, call) /\ EndOK(Writers, v.w, v.a, fd, call)
  BY <1>2 DEF EndsOK, Fair
<1>4. PICK q, a : q = Append(v.r, t) /\ a = v.a \cup {t} /\ EndOK(Readers, q, a, fd, call)
  <2>1. EndOK(Readers, Append(v.r, t), v.a \cup {t}, fd, call)
    BY <1>3, PushOK DEF InCall
  <2> QED
    BY <2>1, Zenon
<1>5. a \cap Writers = v.a \cap Writers /\ a \subseteq Users
  BY <1>1, <1>3, <1>4, EndsAssumption DEF Users
<1>6. EndOK(Writers, v.w, a, fd, call)
  BY <1>3, <1>5, OtherOK
<1>7. \A u \in Users : call'[u] = IF u = t THEN d ELSE call[u]
  BY DEF Users
<1>8. Shuts(Readers, fd, call, fd', call') /\ Shuts(Writers, fd, call, fd', call')
  BY <1>7 DEF InCall, Shuts, Users
<1>9. EndOK(Readers, q, a, fd', call') /\ EndOK(Writers, v.w, a, fd', call')
  BY <1>4, <1>6, <1>8, ShutOK
<1>10. q \in Seq(Readers)
  BY <1>4 DEF EndOK
<1>11. PICK u : u = [v EXCEPT !.r = q, !.a = a]
  OBVIOUS
<1>12. u \in WaitsType /\ u.r = q /\ u.w = v.w /\ u.a = a
  BY <1>3, <1>5, <1>10, <1>11 DEF WaitsType
<1>13. EndsOK(u, fd', call')
  BY <1>9, <1>12 DEF EndsOK
<1>14. SetWaits(u)
  BY <1>2, <1>4, <1>11
<1>15. EndsOK(Waits, fd, call)' /\ asleep' = a
  BY <1>12, <1>13, <1>14, SetSound DEF SetWaits
<1>16. \A y \in a : call'[y].op # "none"
  BY <1>1, <1>3, <1>4, <1>5, <1>7 DEF InCall
<1>17. ASSUME NEW y \in Writers, y \in a PROVE Woken'
  <2>1. y \in v.a
    BY <1>4, <1>17, EndsAssumption
  <2>2. PICK x \in Writers : x \in asleep \ v.a
    BY <1>2, <2>1 DEF Fair
  <2>3. x # t /\ x \in Users /\ InCall(x)
    BY <1>1, <2>2, EndsAssumption
  <2> QED
    BY <1>4, <1>7, <1>15, <2>2, <2>3 DEF Woken, InCall
<1>18. NoLostWakeup'
  BY <1>15, <1>17 DEF NoLostWakeup, Sleeping, empty
<1> QED
  BY <1>15, <1>16, <1>18 DEF ListsInv, InCall

\* Pipe::write.
LEMMA WriteLoopSound ==
    ASSUME RingInv, ListsInv, NEW t \in Writers, t \notin asleep, t \in fd \/ InCall(t), fd' = fd,
           NEW c \in Call, c.op = "write", c.off <= c.len, WriteLoop(t, c)
    PROVE  ListsInv'
<1>1. call \in [Users -> Call] /\ t \in Users /\ head' = head
  BY DEF RingInv, Users, WriteLoop
<1>2. call' = [call EXCEPT ![t] = NoCall] \/ tail' = head' + bufSize
  BY <1>1, WriteBytes
<1>3. CASE /\ call' = [call EXCEPT ![t] = NoCall]
           /\ SetWaits(Release(tryWakeup(Waits, head, tail'), t, fd, call'))
  BY <1>1, <1>3, DoneSound
<1>4. ASSUME NEW o, call' = [call EXCEPT ![t] = [c EXCEPT !.off = o]],
             SetWaits([NotifyR(Waits) EXCEPT !.w = Append(@, t), !.a = @ \cup {t}])
      PROVE  ListsInv'
  <2>1. PICK d : d = [c EXCEPT !.off = o]
    OBVIOUS
  <2>2. d.op # "none"
    BY <2>1 DEF Call
  <2>3. call'[t] = d /\ NoCall.op = "none"
    BY <1>1, <1>4, <2>1 DEF NoCall
  <2>4. tail' = head' + bufSize
    BY <1>1, <1>2, <2>2, <2>3
  <2> QED
    BY <1>1, <1>4, <2>1, <2>2, <2>4, WriteSleeps
<1> QED
  BY <1>3, <1>4 DEF WriteLoop

\* Pipe::read.
LEMMA ReadLoopSound ==
    ASSUME RingInv, ListsInv, NEW t \in Readers, t \notin asleep, t \in fd \/ InCall(t), fd' = fd,
           NEW c \in Call, c.op = "read", c.off <= c.len, ReadLoop(t, c)
    PROVE  ListsInv'
<1>1. call \in [Users -> Call] /\ t \in Users /\ tail' = tail
  BY DEF RingInv, Users, ReadLoop
<1>2. call' = [call EXCEPT ![t] = NoCall] \/ tail' = head'
  BY <1>1, ReadBytes
<1>3. CASE /\ call' = [call EXCEPT ![t] = NoCall]
           /\ SetWaits(Release(tryWakeup(Waits, head', tail), t, fd, call'))
  BY <1>1, <1>3, DoneSound
<1>4. ASSUME NEW o, call' = [call EXCEPT ![t] = [c EXCEPT !.off = o]],
             SetWaits([NotifyW(Waits) EXCEPT !.r = Append(@, t), !.a = @ \cup {t}])
      PROVE  ListsInv'
  <2>1. PICK d : d = [c EXCEPT !.off = o]
    OBVIOUS
  <2>2. d.op # "none"
    BY <2>1 DEF Call
  <2>3. call'[t] = d /\ NoCall.op = "none"
    BY <1>1, <1>4, <2>1 DEF NoCall
  <2>4. tail' = head'
    BY <1>1, <1>2, <2>2, <2>3
  <2> QED
    BY <1>1, <1>4, <2>1, <2>2, <2>4, ReadSleeps
<1> QED
  BY <1>3, <1>4 DEF ReadLoop

\* Where an action only wakes tasks, one that it woke is about to run.
LEMMA OnlyWakes ==
    ASSUME ListsInv, asleep' \subseteq asleep, UNCHANGED <<head, tail, call>>,
           EndsOK(Waits, fd, call)'
    PROVE  ListsInv'
<1>1. asleep \subseteq Users /\ \A u \in asleep : InCall(u)
  BY DEF ListsInv, Waits, EndsOK, WaitsType
<1>2. CASE asleep' = asleep
  BY <1>2 DEF ListsInv, NoLostWakeup, Sleeping, Woken, InCall, empty, full
<1>3. ASSUME NEW x \in asleep, x \notin asleep' PROVE Woken'
  BY <1>1, <1>3 DEF Woken, InCall
<1> QED
  BY <1>1, <1>2, <1>3 DEF ListsInv, NoLostWakeup, InCall

\* A descriptor is closed, or goes with its process.
LEMMA DropFdSound ==
    ASSUME ListsInv, NEW t, DropFd(t), UNCHANGED <<head, tail, call>>
    PROVE  ListsInv'
<1>1. EndsOK(Waits, fd, call) /\ Waits.a = asleep
  BY DEF ListsInv, Waits
<1>2. Shuts(Readers, fd, call, fd', call') /\ Shuts(Writers, fd, call, fd', call')
  BY DEF Shuts, DropFd
<1>3. EndsOK(Waits, fd', call')
  BY <1>1, <1>2, ShutOK DEF EndsOK
<1>4. PICK u : u = Release(Waits, t, fd', call') /\ EndsOK(u, fd', call') /\ u.a \subseteq asleep
  BY <1>1, <1>3, ReleaseSound
<1>5. SetWaits(u)
  BY <1>4 DEF DropFd
<1> QED
  BY <1>4, <1>5, SetSound, OnlyWakes DEF SetWaits

\* A child of t's process exits, and t uses its end alone.
LEMMA ChildExitSound ==
    ASSUME ~ParentsShare, ListsInv, NEW t \in Users, ChildExit(t)
    PROVE  ListsInv'
<1>1. /\ canr \in Seq(Readers) /\ canw \in Seq(Writers) /\ asleep \subseteq Users
      /\ EndOK(Readers, canr, asleep, fd, call) /\ EndOK(Writers, canw, asleep, fd, call)
      /\ \A u \in asleep : call[u].op # "none"
  BY DEF ListsInv, Waits, EndsOK, WaitsType, InCall
<1>2. t \in asleep /\ Alone(t) /\ asleep' = asleep \ {t} /\ UNCHANGED <<head, tail, canr, canw, fd, call>>
  BY DEF ChildExit
<1>3. CASE t \in Readers
  <2>1. EndOK(Readers, canr, asleep \ {t}, fd, call)
    BY <1>1, <1>2, <1>3, StaleOK DEF Alone
  <2>2. (asleep \ {t}) \cap Writers = asleep \cap Writers
    BY <1>3, EndsAssumption
  <2>3. EndOK(Writers, canw, asleep \ {t}, fd, call)
    BY <1>1, <2>2, OtherOK
  <2> QED
    BY <1>1, <1>2, <2>1, <2>3, OnlyWakes DEF EndsOK, Waits, WaitsType
<1>4. CASE t \in Writers
  <2>1. t \notin Readers
    BY <1>4, EndsAssumption
  <2>2. EndOK(Writers, canw, asleep \ {t}, fd, call)
    BY <1>1, <1>2, <1>4, <2>1, StaleOK DEF Alone
  <2>3. (asleep \ {t}) \cap Readers = asleep \cap Readers
    BY <2>1
  <2>4. EndOK(Readers, canr, asleep \ {t}, fd, call)
    BY <1>1, <2>3, OtherOK
  <2> QED
    BY <1>1, <1>2, <2>2, <2>4, OnlyWakes DEF EndsOK, Waits, WaitsType
<1> QED
  BY <1>3, <1>4 DEF Users

\* Every action keeps the lists sound.
LEMMA ListsSound ==
    ASSUME ~ParentsShare, RingInv, ListsInv, [Next]_vars
    PROVE  ListsInv'
<1>1. \A t \in asleep : InCall(t)
  BY DEF ListsInv
<1>2. ASSUME UNCHANGED <<head, tail, canr, canw, fd, asleep, call>> PROVE ListsInv'
  <2>1. EndsOK(Waits, fd, call)'
    BY <1>2 DEF ListsInv, Waits
  <2> QED
    BY <1>2, <2>1, OnlyWakes
<1>3. ASSUME NEW t \in Writers, NEW n \in Lens, Write(t, n) PROVE ListsInv'
  <2>1. PICK c \in Call : c = [op |-> "write", len |-> n, off |-> 0] /\ c.op = "write" /\ c.off <= c.len
    BY NewCall
  <2>2. t \notin asleep /\ t \in fd /\ fd' = fd /\ WriteLoop(t, c)
    BY <1>1, <1>3, <2>1 DEF Write, CanCall
  <2> QED
    BY <2>1, <2>2, WriteLoopSound
<1>4. ASSUME NEW t \in Readers, NEW n \in Lens, Read(t, n) PROVE ListsInv'
  <2>1. PICK c \in Call : c = [op |-> "read", len |-> n, off |-> 0] /\ c.op = "read" /\ c.off <= c.len
    BY NewCall
  <2>2. t \notin asleep /\ t \in fd /\ fd' = fd /\ ReadLoop(t, c)
    BY <1>1, <1>4, <2>1 DEF Read, CanCall
  <2> QED
    BY <2>1, <2>2, ReadLoopSound
<1>5. ASSUME NEW t \in Writers, WriteResume(t) PROVE ListsInv'
  <2>1. call[t] \in Call /\ call[t].off <= call[t].len
    BY DEF Users, RingInv
  <2>2. t \notin asleep /\ call[t].op = "write" /\ InCall(t) /\ fd' = fd /\ WriteLoop(t, call[t])
    BY <1>5 DEF WriteResume, InCall
  <2> QED
    BY <2>1, <2>2, WriteLoopSound
<1>6. ASSUME NEW t \in Readers, ReadResume(t) PROVE ListsInv'
  <2>1. call[t] \in Call /\ call[t].off <= call[t].len
    BY DEF Users, RingInv
  <2>2. t \notin asleep /\ call[t].op = "read" /\ InCall(t) /\ fd' = fd /\ ReadLoop(t, call[t])
    BY <1>6 DEF ReadResume, InCall
  <2> QED
    BY <2>1, <2>2, ReadLoopSound
<1>7. ASSUME NEW t \in Users, Close(t) \/ Reap(t) PROVE ListsInv'
  BY <1>7, DropFdSound DEF Close, Reap
<1> QED
  BY <1>2, <1>3, <1>4, <1>5, <1>6, <1>7, ChildExitSound DEF Next, vars, ExitProc

\* No reader sleeps while there are bytes and no writer while there is room,
\* unless a call is about to run that will notify: for any tasks, ring and
\* lengths, as long as a task whose children may exit has its end for itself.
THEOREM WakeupNeverLost == ASSUME ~ParentsShare PROVE Spec => []NoLostWakeup
<1>1. Init => ListsInv
  <2> SUFFICES ASSUME Init PROVE ListsInv
    OBVIOUS
  <2>1. <<>> \in Seq(Readers) /\ <<>> \in Seq(Writers) /\ IsInjective(<<>>) /\ Range(<<>>) = {}
    BY DEF IsInjective, Range
  <2>2. EndOK(Readers, <<>>, {}, fd, call) /\ EndOK(Writers, <<>>, {}, fd, call)
    BY <2>1 DEF EndOK, Exact
  <2>3. Waits \in WaitsType /\ Waits.r = <<>> /\ Waits.w = <<>> /\ Waits.a = {}
    BY <2>1 DEF Init, Waits, WaitsType
  <2>4. EndsOK(Waits, fd, call)
    BY <2>2, <2>3 DEF EndsOK
  <2> QED
    BY <2>4 DEF Init, ListsInv, NoLostWakeup, Sleeping
<1>2. RingInv /\ ListsInv /\ [Next]_vars => ListsInv'
  BY ListsSound
<1>3. ListsInv => NoLostWakeup
  BY DEF ListsInv
<1> QED
  BY <1>1, <1>2, <1>3, RingAlways, PTL DEF Spec
=============================================================================
