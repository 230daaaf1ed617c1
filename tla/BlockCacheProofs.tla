-------------------------- MODULE BlockCacheProofs ---------------------------
(***************************************************************************)
(* The block cache and the disk implement Blocks, for every number of      *)
(* sectors, pages and faults and every capacity, if no spin ends while the *)
(* device is at work.                                                      *)
(***************************************************************************)
EXTENDS BlockCache, SequenceTheorems, TLAPS

\* The page and the sector of the present request hold the same.
Same == sector[call.req.sec] = data[call.req.frame]

(***************************************************************************)
(* Driver and device.  At most one request is under way, it is the one the *)
(* call waits for, and an interrupt says that it is done.                  *)
(***************************************************************************)
CallInv ==
    /\ call.pc = "idle" => call = NoCall
    /\ call.pc # "idle" => call.req \in Request
    /\ call.pc = "done" => call.ready
    /\ call.pc = "spin" => free \cup call.chain = Descs /\ desc[call.head] = call.req
    /\ call.pc # "spin" => free = Descs /\ ~irq /\ handler = "off"

RingInv ==
    /\ \A i \in DOMAIN avail : avail[i] = call.head
    /\ \A i \in DOMAIN atwork : atwork[i].req = call.req /\ (atwork[i].moved => Same)
    /\ Len(avail) + Len(atwork) <= 1
    /\ (irq \/ handler = "ack" \/ call.ready \/ call.pc # "spin") => Len(avail) + Len(atwork) = 0
    /\ (used # <<>> \/ call.ready) => Same
    /\ irq => used # <<>> \/ handler = "ack"
    /\ call.ready => used = <<>> /\ (handler = "off" => ~irq)
    /\ call.pc # "spin" => used = <<>>

(***************************************************************************)
(* The cache: the page under transfer is nobody's block, and the block of  *)
(* the FAT has sunk in the list by no more than one place for each sector  *)
(* that was cleared.                                                       *)
(***************************************************************************)
LoadInv ==
    /\ call.pc # "idle" => \A s \in Sectors : active[s] # call.req.frame
    /\ call.req.kind = "flush" => active[call.req.sec] = None
    /\ call.req.kind = "reload" => want = call.req.sec
    /\ want # None => active[want] = None /\ call.pc # "idle" /\ Len(lru) <= capacity

HeldInv ==
    /\ ~fault
    /\ Len(held) <= 2 /\ cleared <= rSPC
    /\ want # None => \/ held = <<>>
                      \/ Len(held) = 1 /\ want # held[1] /\ cleared < rSPC
    /\ held # <<>> => \E p \in DOMAIN lru : lru[p] = held[1] /\ p <= cleared + 1
    /\ Len(held) = 2 => Listed(held[2])

IInv == TypeOK /\ CallInv /\ RingInv /\ LoadInv /\ HeldInv /\ CacheExact

-----------------------------------------------------------------------------
\* alloc3_desc finds three descriptors when all are free; the head is one of
\* them.
LEMMA ChainExists == Alloc3(Descs) \subseteq Descs /\ Least(Alloc3(Descs)) \in Alloc3(Descs)
<1>1. \A i \in 0 .. 2 : i \in Descs
  BY DiskAssumption DEF Descs
<1>2. ASSUME NEW S \in SUBSET Nat, NEW i \in S, \A j \in S : i <= j PROVE Least(S) = i
  <2>1. Least(S) \in S /\ \A j \in S : Least(S) <= j
    BY <1>2, Zenon DEF Least
  <2>2. Least(S) <= i /\ i <= Least(S) /\ Least(S) \in Nat /\ i \in Nat
    BY <1>2, <2>1, Zenon
  <2> QED
    BY <2>2
<1>3. Descs \subseteq Nat /\ Descs \ {0} \subseteq Nat /\ Descs \ {0, 1} \subseteq Nat
  BY DiskAssumption DEF Descs
<1>4. Least(Descs) = 0
  BY <1>1, <1>2, <1>3
<1>5. Least(Descs \ {0}) = 1
  BY <1>1, <1>2, <1>3
<1>6. Least(Descs \ {0, 1}) = 2
  BY <1>1, <1>2, <1>3
<1>7. Alloc3(Descs) = {0, 1, 2}
  BY <1>4, <1>5, <1>6, Zenon DEF Alloc3
<1>8. Least({0, 1, 2}) = 0
  BY <1>2
<1> QED
  BY <1>1, <1>7, <1>8

\* What a new request leaves behind.
LEMMA Published ==
    ASSUME NEW req \in Request, TypeOK, avail = <<>>, Publish(req, Descs)
    PROVE  /\ call'.pc = "spin" /\ call'.req = req /\ ~call'.ready
           /\ call' \in [pc : {"idle", "spin", "done"}, req : Request \cup {NoRequest},
                         chain : SUBSET Descs, head : Descs, ready : BOOLEAN]
           /\ free' \subseteq Descs /\ free' \cup call'.chain = Descs
           /\ desc' \in [Descs -> Request \cup {NoRequest}] /\ desc'[call'.head] = req
           /\ avail' = <<call'.head>> /\ avail' \in Seq(Descs)
<1> DEFINE chain == Alloc3(Descs)
           head == Least(chain)
<1>1. head \in Descs /\ chain \subseteq Descs
  BY ChainExists, Zenon
<1>2. /\ free' = Descs \ chain
      /\ desc' = [desc EXCEPT ![head] = req]
      /\ avail' = <<head>>
      /\ call' = [pc |-> "spin", req |-> req, chain |-> chain, head |-> head, ready |-> FALSE]
  BY DEF Publish
<1> HIDE DEF chain, head
<1>3. desc' \in [Descs -> Request \cup {NoRequest}] /\ desc'[head] = req
  BY <1>1, <1>2, Zenon DEF TypeOK
<1>4. avail' \in Seq(Descs)
  BY <1>1, <1>2
<1> QED
  BY <1>1, <1>2, <1>3, <1>4, Zenon

\* Taking an element out of a sequence of one leaves none.
LEMMA RemoveOnly ==
    ASSUME NEW S, NEW q \in Seq(S), Len(q) = 1, NEW i \in DOMAIN q
    PROVE  i = 1 /\ RemoveAt(q, i) = <<>>
<1>1. i = 1
  OBVIOUS
<1>2. SubSeq(q, 1, 0) = <<>> /\ SubSeq(q, 2, 1) = <<>>
  BY SubSeqEmpty
<1> QED
  BY <1>1, <1>2 DEF RemoveAt

(***************************************************************************)
(* Steps of the driver and the device.                                     *)
(***************************************************************************)
DiskInv == TypeOK /\ CallInv /\ RingInv
SameCall == call'.req = call.req /\ (call'.pc = "idle" <=> call.pc = "idle")

\* The types that a step of the disk cannot disturb.
LEMMA CacheTypes ==
    ASSUME TypeOK, UNCHANGED cache
    PROVE  /\ lru' \in Seq(Sectors) /\ active' \in [Sectors -> Frames \cup {None}]
           /\ held' \in Seq(Sectors) /\ cleared' \in Nat /\ want' \in Sectors \cup {None}
           /\ fault' \in BOOLEAN
  BY Zenon DEF TypeOK, cache

\* The call sees its flag, frees the chain and returns.
LEMMA ReturnSound ==
    ASSUME DiskInv, Return, UNCHANGED cache
    PROVE  DiskInv' /\ SameCall
<1> USE DEF DiskInv, Return, Spinning
<1>1. call.head \in Descs /\ NoRequest \in Request \cup {NoRequest}
  BY Zenon DEF TypeOK
<1>2. TypeOK'
  BY <1>1, CacheTypes, Zenon DEF TypeOK
<1>3. CallInv'
  BY <1>1, Zenon DEF TypeOK, CallInv, RingInv
<1>4. RingInv'
  BY Zenon DEF TypeOK, CallInv, RingInv, Same
<1> QED
  BY <1>2, <1>3, <1>4, Zenon DEF SameCall, TypeOK

\* A retry finds the device idle: it has answered, and its interrupt is lost.
LEMMA TimeoutSound ==
    ASSUME ~LateDevice, DiskInv, Timeout, UNCHANGED cache
    PROVE  DiskInv' /\ SameCall
<1> USE DEF DiskInv
<1>1. /\ Spinning /\ ~call.ready /\ Quiet /\ faults' = faults
      /\ Publish(call.req, Descs)
      /\ UNCHANGED <<sector, data, atwork, used, irq, handler>>
  BY Zenon DEF Timeout, CallInv, Spinning
<1>2. call.req \in Request
  BY <1>1, Zenon DEF CallInv, Spinning
<1>3. /\ call'.pc = "spin" /\ call'.req = call.req /\ ~call'.ready
      /\ call' \in [pc : {"idle", "spin", "done"}, req : Request \cup {NoRequest},
                    chain : SUBSET Descs, head : Descs, ready : BOOLEAN]
      /\ free' \subseteq Descs /\ free' \cup call'.chain = Descs
      /\ desc' \in [Descs -> Request \cup {NoRequest}] /\ desc'[call'.head] = call.req
      /\ avail' = <<call'.head>> /\ avail' \in Seq(Descs)
  BY <1>1, <1>2, Published, Zenon DEF Quiet
<1>4. TypeOK'
  BY <1>1, <1>3, CacheTypes, Zenon DEF TypeOK
<1>5. CallInv'
  BY <1>1, <1>2, <1>3, Zenon DEF CallInv
<1>6. RingInv'
  BY <1>1, <1>3 DEF RingInv, Same, Quiet, Spinning
<1> QED
  BY <1>1, <1>3, <1>4, <1>5, <1>6, Zenon DEF SameCall, Spinning

\* virtio_disk_intr sets the flags of the requests in the used ring.
LEMMA HandleSound ==
    ASSUME DiskInv, Handle, UNCHANGED cache
    PROVE  DiskInv' /\ SameCall
<1> USE DEF DiskInv, Handle
<1>1. call.pc = "spin"
  BY Zenon DEF CallInv
<1>2. call'.pc = "spin" /\ call'.req = call.req /\ call'.head = call.head
      /\ call'.chain = call.chain
  BY <1>1, Zenon DEF TypeOK
<1> DEFINE rdy == call.ready \/ \E i \in DOMAIN used : used[i] = call.head
<1>a. rdy \in BOOLEAN
  BY Zenon
<1>b. call' = [call EXCEPT !.ready = rdy]
  BY Zenon
<1> HIDE DEF rdy
<1>c. call' \in [pc : {"idle", "spin", "done"}, req : Request \cup {NoRequest},
                 chain : SUBSET Descs, head : Descs, ready : BOOLEAN]
  BY <1>a, <1>b, Zenon DEF TypeOK
<1>3. TypeOK'
  BY <1>c, CacheTypes DEF TypeOK
<1>4. CallInv'
  BY <1>1, <1>2, Zenon DEF CallInv
<1>5. Same' <=> Same
  BY <1>2, Zenon DEF Same
<1>6. RingInv'
  BY <1>2, <1>5, Zenon DEF RingInv
<1> QED
  BY <1>1, <1>2, <1>3, <1>4, <1>6, Zenon DEF SameCall

\* virtio_disk_intr acknowledges the interrupt.
LEMMA AckSound ==
    ASSUME DiskInv, Ack, UNCHANGED cache
    PROVE  DiskInv' /\ SameCall
<1> USE DEF DiskInv, Ack
<1>1. call.pc = "spin"
  BY Zenon DEF CallInv
<1>2. TypeOK'
  BY CacheTypes, Zenon DEF TypeOK
<1>3. CallInv'
  BY <1>1, Zenon DEF CallInv
<1>4. RingInv'
  BY Zenon DEF RingInv, Same
<1> QED
  BY <1>2, <1>3, <1>4, Zenon DEF SameCall

Work == [head : Descs, req : Request, moved : BOOLEAN]

\* What RingInv says of the number of requests.
LEMMA OneRequest ==
    ASSUME TypeOK, RingInv
    PROVE  /\ avail \in Seq(Descs) /\ atwork \in Seq(Work)
           /\ Len(avail) \in Nat /\ Len(atwork) \in Nat
           /\ Len(avail) # 0 => Len(avail) = 1 /\ Len(atwork) = 0
           /\ Len(atwork) # 0 => Len(atwork) = 1 /\ Len(avail) = 0
           /\ (Len(avail) # 0 \/ Len(atwork) # 0) =>
                 call.pc = "spin" /\ ~irq /\ handler # "ack" /\ ~call.ready
<1>1. avail \in Seq(Descs) /\ atwork \in Seq(Work)
  BY Zenon DEF TypeOK, Work
<1>2. Len(avail) \in Nat /\ Len(atwork) \in Nat
  BY <1>1
<1>3. Len(avail) + Len(atwork) <= 1
  BY Zenon DEF RingInv
<1>5. (irq \/ handler = "ack" \/ call.ready \/ call.pc # "spin") => Len(avail) + Len(atwork) = 0
  BY Zenon DEF RingInv
<1>4. /\ Len(avail) # 0 => Len(avail) = 1 /\ Len(atwork) = 0
      /\ Len(atwork) # 0 => Len(atwork) = 1 /\ Len(avail) = 0
      /\ Len(avail) + Len(atwork) = 0 => Len(avail) = 0 /\ Len(atwork) = 0
  <2>1. \A m, n \in Nat : m + n <= 1 => /\ m # 0 => m = 1 /\ n = 0
                                        /\ n # 0 => n = 1 /\ m = 0
                                        /\ m + n = 0 => m = 0 /\ n = 0
    OBVIOUS
  <2> QED
    BY <1>2, <1>3, <2>1, Zenon
<1> QED
  BY <1>1, <1>2, <1>4, <1>5, Zenon

\* An interrupt gets lost.
LEMMA LoseIrqSound ==
    ASSUME DiskInv, LoseIrq, UNCHANGED cache
    PROVE  DiskInv' /\ SameCall
<1> USE DEF DiskInv, LoseIrq
<1>0. faults' \in 0 .. MaxFaults
  BY DiskAssumption DEF TypeOK
<1>1. TypeOK'
  BY <1>0, CacheTypes, Zenon DEF TypeOK
<1>2. CallInv'
  BY Zenon DEF CallInv
<1>3. RingInv'
  BY Zenon DEF RingInv, Same
<1> QED
  BY <1>1, <1>2, <1>3, Zenon DEF SameCall

\* The device takes the only request there is.
LEMMA DevTakeSound ==
    ASSUME DiskInv, DevTake, UNCHANGED cache
    PROVE  DiskInv' /\ SameCall
<1> USE DEF DiskInv
<1> DEFINE w == [head |-> Head(avail), req |-> desc[Head(avail)], moved |-> FALSE]
<1>1. /\ avail \in Seq(Descs) /\ avail # <<>> /\ atwork \in Seq(Work)
      /\ atwork' = Append(atwork, w) /\ avail' = Tail(avail)
      /\ UNCHANGED <<sector, data, free, desc, used, irq, handler, call, faults>>
  BY OneRequest, Zenon DEF DevTake
<1>2. Len(avail) \in Nat \ {0} /\ Len(atwork) \in Nat /\ 1 \in DOMAIN avail /\ Head(avail) = avail[1]
  BY <1>1
<1>3a. \A i \in DOMAIN avail : avail[i] = call.head
  BY Zenon DEF RingInv
<1>3. Len(avail) = 1 /\ Len(atwork) = 0 /\ avail[1] = call.head
  BY <1>2, <1>3a, OneRequest, Zenon
<1>4. call.pc = "spin" /\ ~irq /\ handler # "ack" /\ ~call.ready
  BY <1>2, OneRequest, Zenon
<1>5. w.req = call.req /\ call.req \in Request /\ w.moved = FALSE /\ Head(avail) \in Descs
  BY <1>2, <1>3, <1>4, Zenon DEF CallInv, TypeOK
<1>6. w \in Work
  BY <1>5, Zenon DEF Work
<1> HIDE DEF w
<1>7. /\ atwork' \in Seq(Work) /\ Len(atwork') = 1 /\ DOMAIN atwork' = {1} /\ atwork'[1] = w
      /\ avail' \in Seq(Descs) /\ Len(avail') = 0 /\ DOMAIN avail' = {}
  BY <1>1, <1>3, <1>6, HeadTailProperties
<1>8. TypeOK'
  BY <1>1, <1>7, CacheTypes, Zenon DEF TypeOK, Work
<1>9. CallInv'
  BY <1>1, Zenon DEF CallInv
<1>10. RingInv'
  BY <1>1, <1>3, <1>4, <1>5, <1>7 DEF RingInv, Same
<1> QED
  BY <1>1, <1>8, <1>9, <1>10, Zenon DEF SameCall

\* It moves the data of the request the call waits for.
LEMMA DevMoveSound ==
    ASSUME DiskInv, NEW i \in DOMAIN atwork, DevMove(i), UNCHANGED cache
    PROVE  /\ DiskInv' /\ SameCall /\ call' = call /\ call.pc = "spin"
           /\ \/ /\ call.req.kind = "flush" /\ data' = data
                 /\ sector' = [sector EXCEPT ![call.req.sec] = data[call.req.frame]]
              \/ /\ call.req.kind = "reload" /\ sector' = sector
                 /\ data' = [data EXCEPT ![call.req.frame] = sector[call.req.sec]]
<1> USE DEF DiskInv
<1>1. /\ atwork \in Seq(Work) /\ i \in 1 .. Len(atwork) /\ Len(atwork) \in Nat
      /\ ~atwork[i].moved /\ atwork' = [atwork EXCEPT ![i].moved = TRUE]
      /\ UNCHANGED <<free, desc, avail, used, irq, handler, call, faults>>
  BY OneRequest DEF DevMove
<1>2. atwork[i].req = call.req
  BY Zenon DEF RingInv
<1>3. Len(atwork) = 1 /\ Len(avail) = 0 /\ i = 1
  BY <1>1, OneRequest
<1>4. call.pc = "spin" /\ ~irq /\ handler # "ack" /\ ~call.ready
  BY <1>3, OneRequest
<1>5. call.req \in Request
  BY <1>4, Zenon DEF CallInv
<1>6. \/ /\ call.req.kind = "flush" /\ data' = data
         /\ sector' = [sector EXCEPT ![call.req.sec] = data[call.req.frame]]
      \/ /\ call.req.kind = "reload" /\ sector' = sector
         /\ data' = [data EXCEPT ![call.req.frame] = sector[call.req.sec]]
  BY <1>2, Zenon DEF DevMove
<1>7. /\ sector' \in [Sectors -> Values \cup {Junk}]
      /\ data' \in [Frames -> Values \cup {Junk}]
      /\ sector'[call.req.sec] = data'[call.req.frame]
  BY <1>5, <1>6, ZenonT(40) DEF TypeOK, Request
<1>8. Same'
  BY <1>1, <1>7, Zenon DEF Same
<1>9. atwork[1] \in Work
  BY <1>1, <1>3, ElementOfSeq, Zenon
<1> DEFINE w == [atwork[1] EXCEPT !.moved = TRUE]
<1>10. w \in Work /\ w.req = atwork[1].req
  BY <1>9, Zenon DEF Work
<1>11. atwork' = [atwork EXCEPT ![1] = w]
  BY <1>1, <1>3, Zenon
<1> HIDE DEF w
<1>12. /\ [atwork EXCEPT ![1] = w] \in Seq(Work) /\ Len([atwork EXCEPT ![1] = w]) = 1
       /\ [atwork EXCEPT ![1] = w][1] = w
  <2>1. atwork \in Seq(Work) /\ 1 \in 1 .. Len(atwork) /\ w \in Work
    BY <1>1, <1>3, <1>10, Zenon
  <2>2. /\ [atwork EXCEPT ![1] = w] \in Seq(Work)
        /\ Len([atwork EXCEPT ![1] = w]) = Len(atwork)
        /\ \A j \in 1 .. Len(atwork) : [atwork EXCEPT ![1] = w][j] = IF j = 1 THEN w ELSE atwork[j]
    BY <2>1
  <2> QED
    BY <1>3, <2>1, <2>2, Zenon
<1>12a. atwork' \in Seq(Work) /\ Len(atwork') = 1 /\ DOMAIN atwork' = {1}
  BY <1>11, <1>12
<1>12b. atwork'[1].req = call.req
  BY <1>2, <1>3, <1>10, <1>11, <1>12, Zenon
<1>13. TypeOK'
  BY <1>1, <1>7, <1>12a, CacheTypes, Zenon DEF TypeOK, Work
<1>14. CallInv'
  BY <1>1, Zenon DEF CallInv
<1>15. RingInv'
  BY <1>1, <1>3, <1>4, <1>8, <1>12a, <1>12b, Zenon DEF RingInv
<1> QED
  BY <1>1, <1>4, <1>6, <1>13, <1>14, <1>15, Zenon DEF SameCall

\* It answers, and has nothing more to do.
LEMMA DevDoneSound ==
    ASSUME DiskInv, NEW i \in DOMAIN atwork, DevDone(i), UNCHANGED cache
    PROVE  DiskInv' /\ SameCall
<1> USE DEF DiskInv
<1>1. /\ atwork \in Seq(Work) /\ i \in 1 .. Len(atwork) /\ Len(atwork) \in Nat
      /\ atwork[i].moved /\ atwork' = RemoveAt(atwork, i)
      /\ used' = Append(used, atwork[i].head) /\ irq' = TRUE
      /\ UNCHANGED <<sector, data, free, desc, avail, handler, call, faults>>
  BY OneRequest DEF DevDone
<1>2. atwork[i].moved => Same
  BY Zenon DEF RingInv
<1>3. Len(atwork) = 1 /\ Len(avail) = 0 /\ i = 1
  BY <1>1, OneRequest
<1>4. call.pc = "spin" /\ handler # "ack" /\ ~call.ready /\ Same
  BY <1>1, <1>2, <1>3, OneRequest
<1>5. atwork' = <<>>
  BY <1>1, <1>3, RemoveOnly, Zenon
<1>6a. atwork[i] \in Work
  BY <1>1, ElementOfSeq, Zenon
<1>6. atwork[i].head \in Descs /\ used \in Seq(Descs)
  BY <1>6a, Zenon DEF TypeOK, Work
<1>7. used' \in Seq(Descs) /\ used' # <<>>
  BY <1>1, <1>6
<1>8. Same'
  BY <1>1, <1>4, Zenon DEF Same
<1>9. TypeOK'
  BY <1>1, <1>5, <1>7, CacheTypes, SMTT(30) DEF TypeOK
<1>10. CallInv'
  BY <1>1, <1>4, Zenon DEF CallInv
<1>11. RingInv'
  BY <1>1, <1>3, <1>4, <1>5, <1>7, <1>8 DEF RingInv
<1> QED
  BY <1>1, <1>9, <1>10, <1>11, Zenon DEF SameCall

\* Whatever driver and device do, no block changes for the file system.
LEMMA DiskStep ==
    ASSUME ~LateDevice, IInv, Driver \/ Device, UNCHANGED cache
    PROVE  IInv' /\ content' = content
<1>1. DiskInv
  BY Zenon DEF IInv, DiskInv
<1>2. DiskInv' /\ SameCall
  BY <1>1, ReturnSound, TimeoutSound, HandleSound, AckSound, LoseIrqSound, DevTakeSound,
     DevMoveSound, DevDoneSound, Zenon DEF Driver, Device
<1>3. LoadInv' /\ HeldInv' /\ CacheExact'
  BY <1>2, ZenonT(40) DEF IInv, LoadInv, HeldInv, CacheExact, Listed, cache, SameCall
<1>4. \A s \in Sectors : ContentOf(s)' = ContentOf(s)
  <2>1. CASE \E i \in DOMAIN atwork : DevMove(i)
    <3>1. PICK i \in DOMAIN atwork : DevMove(i)
      BY <2>1, Zenon
    <3>2. /\ call' = call /\ call.pc = "spin"
          /\ \/ /\ call.req.kind = "flush" /\ data' = data
                /\ sector' = [sector EXCEPT ![call.req.sec] = data[call.req.frame]]
             \/ /\ call.req.kind = "reload" /\ sector' = sector
                /\ data' = [data EXCEPT ![call.req.frame] = sector[call.req.sec]]
      BY <1>1, <3>1, DevMoveSound, Zenon
    <3>3. call.req \in Request /\ \A s \in Sectors : active[s] # call.req.frame
      BY <3>2, Zenon DEF IInv, CallInv, LoadInv
    <3> QED
      BY <3>2, <3>3, Zenon DEF ContentOf, IInv, TypeOK, Request, cache
  <2>2. CASE ~ \E i \in DOMAIN atwork : DevMove(i)
    <3>1. UNCHANGED <<sector, data>>
      BY <2>2, Zenon DEF Driver, Device, Return, Timeout, Handle, Ack, DevTake, DevDone, LoseIrq
    <3> QED
      BY <1>2, <3>1, Zenon DEF ContentOf, SameCall, cache
  <2> QED
    BY <2>1, <2>2, Zenon
<1> QED
  BY <1>2, <1>3, <1>4, Zenon DEF IInv, DiskInv, content

-----------------------------------------------------------------------------
(***************************************************************************)
(* The list: erase and push_front, push_front, pop_back.                   *)
(***************************************************************************)
Once(q) == \A i, j \in DOMAIN q : q[i] = q[j] => i = j
In(q, x) == \E i \in DOMAIN q : q[i] = x

\* push_front puts x first and moves the others by one place.
LEMMA PushFront ==
    ASSUME NEW S, NEW q \in Seq(S), NEW x \in S
    PROVE  /\ <<x>> \o q \in Seq(S) /\ Len(<<x>> \o q) = Len(q) + 1
           /\ DOMAIN (<<x>> \o q) = 1 .. Len(q) + 1
           /\ (<<x>> \o q)[1] = x
           /\ \A i \in DOMAIN q : (<<x>> \o q)[i + 1] = q[i]
           /\ \A k \in DOMAIN (<<x>> \o q) : k # 1 => k - 1 \in DOMAIN q /\ (<<x>> \o q)[k] = q[k - 1]
<1>1. <<x>> \in Seq(S) /\ Len(<<x>>) = 1 /\ <<x>>[1] = x
  OBVIOUS
<1>2. Len(q) \in Nat /\ DOMAIN q = 1 .. Len(q)
  BY LenProperties, Zenon
<1>3. /\ <<x>> \o q \in Seq(S) /\ Len(<<x>> \o q) = 1 + Len(q)
      /\ \A i \in 1 .. 1 + Len(q) : (<<x>> \o q)[i] = IF i <= 1 THEN <<x>>[i] ELSE q[i - 1]
  BY <1>1, ConcatProperties, ZenonT(40)
<1>4. DOMAIN (<<x>> \o q) = 1 .. Len(q) + 1
  BY <1>2, <1>3, LenProperties
<1> HIDE DEF In
<1> QED
  BY <1>1, <1>2, <1>3, <1>4

\* erase closes the gap.
LEMMA Erase ==
    ASSUME NEW S, NEW q \in Seq(S), NEW i \in DOMAIN q
    PROVE  /\ RemoveAt(q, i) \in Seq(S) /\ Len(RemoveAt(q, i)) = Len(q) - 1
           /\ \A k \in 1 .. Len(q) - 1 : RemoveAt(q, i)[k] = IF k < i THEN q[k] ELSE q[k + 1]
<1>1. Len(q) \in Nat /\ DOMAIN q = 1 .. Len(q) /\ i \in 1 .. Len(q)
  BY LenProperties, Zenon
<1> DEFINE a == SubSeq(q, 1, i - 1)
           b == SubSeq(q, i + 1, Len(q))
<1>2. \A k \in 1 .. Len(q) : q[k] \in S
  BY ElementOfSeq, Zenon
<1>3. a \in Seq(S) /\ Len(a) = i - 1 /\ \A k \in 1 .. i - 1 : a[k] = q[k]
  <2>1. \A k \in 1 .. i - 1 : q[k] \in S
    BY <1>1, <1>2
  <2>2. 1 \in Int /\ i - 1 \in Int
    BY <1>1
  <2>3. /\ a \in Seq(S) /\ Len(a) = IF 1 <= i - 1 THEN i - 1 - 1 + 1 ELSE 0
        /\ \A k \in 1 .. i - 1 - 1 + 1 : a[k] = q[1 + k - 1]
    BY <2>1, <2>2, SubSeqProperties
  <2> HIDE DEF a
  <2> QED
    BY <1>1, <2>3
<1>4. b \in Seq(S) /\ Len(b) = Len(q) - i /\ \A k \in 1 .. Len(q) - i : b[k] = q[i + k]
  <2>1. \A k \in i + 1 .. Len(q) : q[k] \in S
    BY <1>1, <1>2
  <2>2. i + 1 \in Int /\ Len(q) \in Int
    BY <1>1
  <2>3. /\ b \in Seq(S) /\ Len(b) = IF i + 1 <= Len(q) THEN Len(q) - (i + 1) + 1 ELSE 0
        /\ \A k \in 1 .. Len(q) - (i + 1) + 1 : b[k] = q[i + 1 + k - 1]
    BY <2>1, <2>2, SubSeqProperties
  <2> HIDE DEF b
  <2>4. Len(b) = Len(q) - i
    BY <1>1, <2>3
  <2>5. ASSUME NEW k \in 1 .. Len(q) - i PROVE b[k] = q[i + k]
    <3>1. k \in 1 .. Len(q) - (i + 1) + 1 /\ i + 1 + k - 1 = i + k
      BY <1>1
    <3> QED
      BY <2>3, <3>1, Zenon
  <2> QED
    BY <2>3, <2>4, <2>5, Zenon
<1> HIDE DEF a, b
<1>5. /\ a \o b \in Seq(S) /\ Len(a \o b) = Len(a) + Len(b)
      /\ \A k \in 1 .. Len(a) + Len(b) : (a \o b)[k] = IF k <= Len(a) THEN a[k] ELSE b[k - Len(a)]
  BY <1>3, <1>4, ConcatProperties, Zenon
<1>6. RemoveAt(q, i) = a \o b
  BY Zenon DEF RemoveAt, a, b
<1>7. Len(a \o b) = Len(q) - 1
  BY <1>1, <1>3, <1>4, <1>5
<1>8. ASSUME NEW k \in 1 .. Len(q) - 1 PROVE (a \o b)[k] = IF k < i THEN q[k] ELSE q[k + 1]
  <2>1. (a \o b)[k] = IF k <= i - 1 THEN a[k] ELSE b[k - (i - 1)]
    BY <1>1, <1>3, <1>4, <1>5, SMTT(20)
  <2>2. CASE k < i
    BY <1>1, <1>3, <2>1, <2>2
  <2>3. CASE ~(k < i)
    <3>1. k - (i - 1) \in 1 .. Len(q) - i /\ i + (k - (i - 1)) = k + 1 /\ ~(k <= i - 1)
      BY <1>1, <2>3
    <3> QED
      BY <1>4, <2>1, <2>3, <3>1, Zenon
  <2> QED
    BY <2>2, <2>3, Zenon
<1> QED
  BY <1>5, <1>6, <1>7, <1>8, Zenon

\* A new element at the front.
LEMMA PushNew ==
    ASSUME NEW S, NEW q \in Seq(S), Once(q), NEW x \in S, ~In(q, x)
    PROVE  /\ <<x>> \o q \in Seq(S) /\ Len(<<x>> \o q) = Len(q) + 1
           /\ Once(<<x>> \o q)
           /\ \A y : In(<<x>> \o q, y) <=> y = x \/ In(q, y)
           /\ \A p \in DOMAIN q : p + 1 \in DOMAIN (<<x>> \o q) /\ (<<x>> \o q)[p + 1] = q[p]
           /\ 1 \in DOMAIN (<<x>> \o q) /\ (<<x>> \o q)[1] = x
<1> DEFINE r == <<x>> \o q
<1>1. /\ r \in Seq(S) /\ Len(r) = Len(q) + 1 /\ DOMAIN r = 1 .. Len(q) + 1 /\ r[1] = x
      /\ \A i \in DOMAIN q : r[i + 1] = q[i]
      /\ \A k \in DOMAIN r : k # 1 => k - 1 \in DOMAIN q /\ r[k] = q[k - 1]
  BY PushFront
<1>2. Len(q) \in Nat /\ DOMAIN q = 1 .. Len(q)
  BY LenProperties, Zenon
<1> HIDE DEF r
<1>3. 1 \in DOMAIN r /\ \A p \in DOMAIN q : p + 1 \in DOMAIN r
  BY <1>1, <1>2
<1>4. Once(r)
  <2>1. SUFFICES ASSUME NEW i \in DOMAIN r, NEW j \in DOMAIN r, r[i] = r[j]
                 PROVE  i = j
    BY Zenon DEF Once
  <2>2. CASE i = 1 \/ j = 1
    BY <1>1, <2>1, <2>2 DEF In
  <2>3. CASE i # 1 /\ j # 1
    <3>1. i - 1 \in DOMAIN q /\ j - 1 \in DOMAIN q /\ q[i - 1] = q[j - 1]
      BY <1>1, <2>1, <2>3, Zenon
    <3>2. i - 1 = j - 1
      BY <3>1, Zenon DEF Once
    <3> QED
      BY <1>1, <1>2, <3>2
  <2> QED
    BY <2>2, <2>3, Zenon
<1>5. ASSUME NEW y PROVE In(r, y) <=> y = x \/ In(q, y)
  <2>1. ASSUME In(r, y) PROVE y = x \/ In(q, y)
    BY <1>1, <2>1 DEF In
  <2>2. ASSUME y = x \/ In(q, y) PROVE In(r, y)
    BY <1>1, <1>3, <2>2, Zenon DEF In
  <2> QED
    BY <2>1, <2>2, Zenon
<1> QED
  BY <1>1, <1>3, <1>4, <1>5, Zenon DEF r

\* An element taken out of the middle.
LEMMA EraseOnce ==
    ASSUME NEW S, NEW q \in Seq(S), Once(q), NEW i \in DOMAIN q
    PROVE  /\ RemoveAt(q, i) \in Seq(S) /\ Len(RemoveAt(q, i)) = Len(q) - 1
           /\ Once(RemoveAt(q, i))
           /\ \A y : In(RemoveAt(q, i), y) <=> In(q, y) /\ y # q[i]
           /\ \A p \in DOMAIN q : p # i =>
                 \E k \in DOMAIN RemoveAt(q, i) : RemoveAt(q, i)[k] = q[p] /\ k <= p
<1> DEFINE r == RemoveAt(q, i)
           Old(k) == IF k < i THEN k ELSE k + 1
           New(p) == IF p < i THEN p ELSE p - 1
<1>1. Len(q) \in Nat /\ DOMAIN q = 1 .. Len(q)
  BY LenProperties, Zenon
<1>2. r \in Seq(S) /\ Len(r) = Len(q) - 1 /\ \A k \in 1 .. Len(q) - 1 : r[k] = q[Old(k)]
  BY Erase, Zenon
<1> HIDE DEF r
<1>3. DOMAIN r = 1 .. Len(q) - 1
  BY <1>2, LenProperties, Zenon
<1>4. \A k \in DOMAIN r : Old(k) \in DOMAIN q /\ Old(k) # i /\ r[k] = q[Old(k)]
  BY <1>1, <1>2, <1>3
<1>5. \A p \in DOMAIN q : p # i => New(p) \in DOMAIN r /\ Old(New(p)) = p /\ New(p) <= p
  BY <1>1, <1>3
<1>6. \A j, k \in DOMAIN r : Old(j) = Old(k) => j = k
  BY <1>1, <1>3
<1> HIDE DEF Old, New
<1>7. Once(r)
  BY <1>4, <1>6, Zenon DEF Once
<1>8. ASSUME NEW y PROVE In(r, y) <=> In(q, y) /\ y # q[i]
  <2>1. ASSUME In(r, y) PROVE In(q, y) /\ y # q[i]
    BY <1>4, <2>1, Zenon DEF In, Once
  <2>2. ASSUME In(q, y), y # q[i] PROVE In(r, y)
    BY <1>4, <1>5, <2>2 DEF In
  <2> QED
    BY <2>1, <2>2, Zenon
<1>9. \A p \in DOMAIN q : p # i => \E k \in DOMAIN r : r[k] = q[p] /\ k <= p
  BY <1>4, <1>5, Zenon
<1> QED
  BY <1>2, <1>7, <1>8, <1>9, Zenon DEF r

\* pop_back.
LEMMA PopBack ==
    ASSUME NEW S, NEW q \in Seq(S), Once(q), q # <<>>
    PROVE  /\ Front(q) \in Seq(S) /\ Len(Front(q)) = Len(q) - 1
           /\ Once(Front(q))
           /\ Last(q) \in S /\ In(q, Last(q))
           /\ \A y : In(Front(q), y) <=> In(q, y) /\ y # Last(q)
           /\ \A p \in DOMAIN q : p < Len(q) => p \in DOMAIN Front(q) /\ Front(q)[p] = q[p]
<1>1. Len(q) \in Nat \ {0} /\ DOMAIN q = 1 .. Len(q)
  BY LenProperties, EmptySeq, Zenon
<1>2. \A k \in 1 .. Len(q) - 1 : q[k] \in S
  BY <1>1, ElementOfSeq
<1> DEFINE r == Front(q)
<1>3. 1 \in Int /\ Len(q) - 1 \in Int
  BY <1>1
<1>4. /\ r \in Seq(S) /\ Len(r) = IF 1 <= Len(q) - 1 THEN Len(q) - 1 - 1 + 1 ELSE 0
      /\ \A k \in 1 .. Len(q) - 1 - 1 + 1 : r[k] = q[1 + k - 1]
  BY <1>2, <1>3, SubSeqProperties DEF Front
<1> HIDE DEF r
<1>5a. Len(r) = Len(q) - 1
  <2>1. \A n \in Nat \ {0} : (IF 1 <= n - 1 THEN n - 1 - 1 + 1 ELSE 0) = n - 1
    OBVIOUS
  <2> QED
    BY <1>1, <1>4, <2>1, Zenon
<1>5. Len(r) = Len(q) - 1 /\ DOMAIN r = 1 .. Len(q) - 1
  BY <1>4, <1>5a, LenProperties, Zenon
<1>6. ASSUME NEW k \in DOMAIN r PROVE k \in DOMAIN q /\ k # Len(q) /\ r[k] = q[k]
  <2>1. k \in 1 .. Len(q) /\ k # Len(q) /\ k \in 1 .. Len(q) - 1 - 1 + 1 /\ 1 + k - 1 = k
    BY <1>1, <1>5
  <2> QED
    BY <1>1, <1>4, <2>1, Zenon
<1>7. \A k \in DOMAIN q : k # Len(q) => k \in DOMAIN r
  BY <1>1, <1>5
<1>8. Len(q) \in DOMAIN q /\ Last(q) = q[Len(q)] /\ Last(q) \in S
  BY <1>1, ElementOfSeq DEF Last
<1>9. Once(r)
  BY <1>6, Zenon DEF Once
<1>10. ASSUME NEW y PROVE In(r, y) <=> In(q, y) /\ y # Last(q)
  BY <1>6, <1>7, <1>8, Zenon DEF In, Once
<1>11. \A p \in DOMAIN q : p < Len(q) => p \in DOMAIN r /\ r[p] = q[p]
  BY <1>1, <1>6, <1>7
<1> QED
  BY <1>4, <1>5, <1>8, <1>9, <1>10, <1>11, Zenon DEF In, r

-----------------------------------------------------------------------------
(***************************************************************************)
(* Steps of the cache and of the file system.                              *)
(***************************************************************************)
DiskType ==
    /\ sector \in [Sectors -> Values \cup {Junk}]
    /\ data \in [Frames -> Values \cup {Junk}]
    /\ free \subseteq Descs
    /\ desc \in [Descs -> Request \cup {NoRequest}]
    /\ avail \in Seq(Descs) /\ used \in Seq(Descs)
    /\ atwork \in Seq(Work)
    /\ irq \in BOOLEAN /\ handler \in {"off", "ack"}
    /\ call \in [pc : {"idle", "spin", "done"}, req : Request \cup {NoRequest},
                 chain : SUBSET Descs, head : Descs, ready : BOOLEAN]
    /\ faults \in 0 .. MaxFaults

CacheType ==
    /\ lru \in Seq(Sectors)
    /\ active \in [Sectors -> Frames \cup {None}]
    /\ held \in Seq(Sectors)
    /\ cleared \in Nat /\ want \in Sectors \cup {None}
    /\ fault \in BOOLEAN

\* The type invariant, in its two halves.
LEMMA TypeSplit == (TypeOK <=> DiskType /\ CacheType) /\ (TypeOK' <=> DiskType' /\ CacheType')
  BY Zenon DEF TypeOK, DiskType, CacheType, Work

\* CacheExact, in the terms of the invariant.
LEMMA ExactSplit ==
    /\ CacheExact => Once(lru)
    /\ \A s : Listed(s) <=> In(lru, s)
  BY Zenon DEF CacheExact, Once, Listed, In

\* A request is handed to a driver that has none.
LEMMA SubmitSound ==
    ASSUME DiskInv, call.pc # "spin", NEW req \in Request, Submit(req)
    PROVE  /\ DiskType' /\ CallInv' /\ RingInv'
           /\ call'.req = req /\ call'.pc = "spin" /\ UNCHANGED <<sector, data>>
<1>0. TypeOK /\ CallInv /\ RingInv
  BY Zenon DEF DiskInv
<1>1. /\ Publish(req, free)
      /\ UNCHANGED <<sector, data, atwork, used, irq, handler, faults>>
  BY Zenon DEF Submit
<1>2. free = Descs /\ ~irq /\ handler = "off"
  BY <1>0, Zenon DEF CallInv
<1>3. used = <<>> /\ Len(avail) = 0 /\ Len(atwork) = 0
  BY <1>0, OneRequest, Zenon DEF RingInv
<1>4. avail = <<>> /\ atwork = <<>>
  BY <1>0, <1>3, OneRequest, EmptySeq, Zenon
<1>5. /\ call'.pc = "spin" /\ call'.req = req /\ ~call'.ready
      /\ call' \in [pc : {"idle", "spin", "done"}, req : Request \cup {NoRequest},
                    chain : SUBSET Descs, head : Descs, ready : BOOLEAN]
      /\ free' \subseteq Descs /\ free' \cup call'.chain = Descs
      /\ desc' \in [Descs -> Request \cup {NoRequest}] /\ desc'[call'.head] = req
      /\ avail' = <<call'.head>> /\ avail' \in Seq(Descs)
  BY <1>0, <1>1, <1>2, <1>4, Published, Zenon
<1>6. DiskType'
  BY <1>0, <1>1, <1>5, TypeSplit, Zenon DEF DiskType
<1>7. CallInv'
  BY <1>1, <1>5, Zenon DEF CallInv
<1>8. RingInv'
  BY <1>1, <1>2, <1>3, <1>4, <1>5 DEF RingInv
<1> QED
  BY <1>1, <1>5, <1>6, <1>7, <1>8, Zenon

\* The driver is at rest and the call is over.
LEMMA RestSound ==
    ASSUME DiskInv, call.pc # "spin", call' = NoCall,
           UNCHANGED <<sector, data, free, desc, avail, atwork, used, irq, handler, faults>>
    PROVE  DiskType' /\ CallInv' /\ RingInv'
<1>0. TypeOK /\ CallInv /\ RingInv
  BY Zenon DEF DiskInv
<1>2. free = Descs /\ ~irq /\ handler = "off"
  BY <1>0, Zenon DEF CallInv
<1>3. used = <<>> /\ Len(avail) = 0 /\ Len(atwork) = 0
  BY <1>0, OneRequest, Zenon DEF RingInv
<1>4. avail = <<>> /\ atwork = <<>>
  BY <1>0, <1>3, OneRequest, EmptySeq, Zenon
<1>5. 0 \in Descs
  BY DiskAssumption DEF Descs
<1>6. DiskType'
  BY <1>0, <1>5, TypeSplit, Zenon DEF DiskType, NoCall
<1>7. CallInv'
  BY <1>2, Zenon DEF CallInv, NoCall
<1>8. RingInv'
  BY <1>2, <1>3, <1>4 DEF RingInv, NoCall
<1> QED
  BY <1>6, <1>7, <1>8, Zenon

\* Nothing happens to the disk.
LEMMA DiskRest ==
    ASSUME DiskInv, UNCHANGED disk
    PROVE  DiskType' /\ CallInv' /\ RingInv'
<1>1. DiskType'
  BY TypeSplit, Zenon DEF DiskInv, DiskType, disk
<1>2. CallInv' /\ RingInv'
  BY ZenonT(40) DEF DiskInv, CallInv, RingInv, Same, disk
<1> QED
  BY <1>1, <1>2, Zenon

\* A block s is put before the list q and handed to the file system.
LEMMA TakeSound ==
    ASSUME CacheType, NEW s \in Sectors, NEW q \in Seq(Sectors), Once(q), ~In(q, s),
           held # <<>> => \E p \in DOMAIN q : q[p] = held[1] /\ p <= cleared + 1,
           held = <<>> \/ (Len(held) = 1 /\ s # held[1] /\ cleared < rSPC),
           lru' = <<s>> \o q, held' = Append(held, s),
           cleared' = IF held = <<>> THEN 0 ELSE cleared + 1,
           want' = None, fault' = FALSE
    PROVE  /\ HeldInv' /\ Once(lru') /\ lru' \in Seq(Sectors) /\ held' \in Seq(Sectors)
           /\ Len(lru') = Len(q) + 1 /\ cleared' \in Nat
           /\ \A y : Listed(y)' <=> y = s \/ In(q, y)
<1>1. /\ lru' \in Seq(Sectors) /\ Len(lru') = Len(q) + 1
      /\ Once(lru')
      /\ \A y : In(lru', y) <=> y = s \/ In(q, y)
      /\ \A p \in DOMAIN q : p + 1 \in DOMAIN lru' /\ lru'[p + 1] = q[p]
      /\ 1 \in DOMAIN lru' /\ lru'[1] = s
  BY PushNew
<1>2. /\ held \in Seq(Sectors) /\ cleared \in Nat /\ Len(held) \in Nat
      /\ held = <<>> <=> Len(held) = 0
  BY EmptySeq DEF CacheType
<1>3. /\ held' \in Seq(Sectors) /\ Len(held') = Len(held) + 1 /\ held' # <<>>
      /\ \A i \in 1 .. Len(held) : held'[i] = held[i]
      /\ held'[Len(held) + 1] = s
  BY <1>2, SMTT(30)
<1>4. \A y : Listed(y)' <=> In(lru', y)
  BY Zenon DEF Listed, In
<1>5. Len(held') <= 2 /\ cleared' <= rSPC /\ cleared' \in Nat
  <2>1. CASE held = <<>>
    BY <1>2, <1>3, <2>1, CacheAssumption
  <2>2. CASE held # <<>>
    <3>1. Len(held) = 1 /\ cleared < rSPC /\ cleared' = cleared + 1
      BY <2>2, Zenon
    <3> QED
      BY <1>2, <1>3, <3>1, CacheAssumption
  <2> QED
    BY <2>1, <2>2, Zenon
<1>6. \E p \in DOMAIN lru' : lru'[p] = held'[1] /\ p <= cleared' + 1
  <2>1. CASE held = <<>>
    BY <1>1, <1>2, <1>3, <2>1
  <2>2. CASE held # <<>>
    <3>1. PICK p \in DOMAIN q : q[p] = held[1] /\ p <= cleared + 1
      BY <2>2, Zenon
    <3>2. held'[1] = held[1] /\ cleared' = cleared + 1
      BY <1>2, <1>3, <2>2
    <3>3. p \in Nat /\ p + 1 \in DOMAIN lru' /\ lru'[p + 1] = held'[1]
      BY <1>1, <3>1, <3>2, LenProperties
    <3>4. p + 1 <= cleared' + 1
      BY <1>2, <3>1, <3>2, <3>3
    <3> QED
      BY <3>3, <3>4, Zenon
  <2> QED
    BY <2>1, <2>2, Zenon
<1>7. Len(held') = 2 => Listed(held[2])'
  <2> SUFFICES ASSUME Len(held') = 2 PROVE In(lru', held'[2])
    BY <1>4, Zenon
  <2>1. held'[2] = s
    BY <1>2, <1>3, Zenon
  <2> QED
    BY <1>1, <2>1, Zenon
<1>8. HeldInv'
  BY <1>5, <1>6, <1>7, Zenon DEF HeldInv
<1> QED
  BY <1>1, <1>3, <1>4, <1>5, <1>8, Zenon

\* What holds whenever the file system runs.
LEMMA AtRest ==
    ASSUME IInv, Ready
    PROVE  /\ DiskInv /\ CacheType /\ call = NoCall /\ want = None /\ fault = FALSE
           /\ Once(lru) /\ \A s \in Sectors : In(lru, s) <=> active[s] # None
           /\ Len(lru) \in Nat /\ Len(lru) <= capacity + 1
           /\ held # <<>> => \E p \in DOMAIN lru : lru[p] = held[1] /\ p <= cleared + 1
<1>1. DiskInv /\ CacheType /\ Once(lru)
  BY TypeSplit, ExactSplit, Zenon DEF IInv, DiskInv
<1>2. call = NoCall /\ want = None
  BY Zenon DEF IInv, CallInv, Ready
<1>3. fault = FALSE
  BY <1>1, Zenon DEF IInv, HeldInv, CacheType
<1>4. \A s \in Sectors : In(lru, s) <=> active[s] # None
  BY ExactSplit, Zenon DEF IInv, CacheExact
<1>5. Len(lru) \in Nat /\ Len(lru) <= capacity + 1
  BY <1>1 DEF IInv, CacheExact, CacheType
<1> QED
  BY <1>1, <1>2, <1>3, <1>4, <1>5, Zenon DEF IInv, HeldInv

\* getOrSet of a block that is active.
LEMMA HitSound ==
    ASSUME IInv, NEW s \in Sectors, Hit(s)
    PROVE  IInv' /\ content' = content /\ answer' = answer
<1>1. /\ May(s) /\ active[s] # None /\ Ready
      /\ held' = Append(held, s)
      /\ cleared' = IF held = <<>> THEN 0 ELSE cleared + 1
      /\ UNCHANGED <<active, want, answer>> /\ UNCHANGED disk
  BY Zenon DEF Hit, May
<1>2. /\ DiskInv /\ CacheType /\ call = NoCall /\ want = None /\ fault = FALSE
      /\ Once(lru) /\ \A x \in Sectors : In(lru, x) <=> active[x] # None
      /\ Len(lru) \in Nat /\ Len(lru) <= capacity + 1
      /\ held # <<>> => \E p \in DOMAIN lru : lru[p] = held[1] /\ p <= cleared + 1
  BY <1>1, AtRest, Zenon
<1>3. In(lru, s) /\ Listed(s)
  BY <1>1, <1>2, ExactSplit, Zenon
<1> DEFINE i == Place(s)
           q == RemoveAt(lru, i)
<1>4. i \in DOMAIN lru /\ lru[i] = s
  BY <1>3, Zenon DEF Place, In
<1>5. lru' = <<s>> \o q /\ fault' = FALSE
  BY <1>3, Zenon DEF Hit
<1> HIDE DEF i
<1>6. /\ q \in Seq(Sectors) /\ Len(q) = Len(lru) - 1
      /\ Once(q)
      /\ \A y : In(q, y) <=> In(lru, y) /\ y # s
      /\ \A p \in DOMAIN lru : p # i => \E k \in DOMAIN q : q[k] = lru[p] /\ k <= p
  <2>1. lru \in Seq(Sectors) /\ Once(lru)
    BY <1>2, Zenon DEF CacheType
  <2>2. /\ RemoveAt(lru, i) \in Seq(Sectors) /\ Len(RemoveAt(lru, i)) = Len(lru) - 1
        /\ Once(RemoveAt(lru, i))
        /\ \A y : In(RemoveAt(lru, i), y) <=> In(lru, y) /\ y # lru[i]
        /\ \A p \in DOMAIN lru : p # i =>
              \E k \in DOMAIN RemoveAt(lru, i) : RemoveAt(lru, i)[k] = lru[p] /\ k <= p
    BY <2>1, <1>4, EraseOnce, ZenonT(40)
  <2> QED
    BY <2>2, <1>4, Zenon
<1> HIDE DEF q
<1>7. held = <<>> \/ (Len(held) = 1 /\ s # held[1] /\ cleared < rSPC)
  BY <1>1, Zenon DEF May
<1>8. held # <<>> => \E p \in DOMAIN q : q[p] = held[1] /\ p <= cleared + 1
  <2> SUFFICES ASSUME held # <<>> PROVE \E p \in DOMAIN q : q[p] = held[1] /\ p <= cleared + 1
    BY Zenon
  <2>1. PICK p \in DOMAIN lru : lru[p] = held[1] /\ p <= cleared + 1
    BY <1>2, Zenon
  <2>2. p # i
    BY <1>4, <1>7, <2>1, Zenon
  <2>3. PICK k \in DOMAIN q : q[k] = lru[p] /\ k <= p
    BY <1>6, <2>2, Zenon
  <2>4. k \in Nat /\ p \in Nat /\ cleared \in Nat
    BY <1>2, <1>6, LenProperties DEF CacheType
  <2>5. k <= cleared + 1
    BY <2>1, <2>3, <2>4
  <2> QED
    BY <2>1, <2>3, <2>5, Zenon
<1>9. want' = None /\ ~In(q, s)
  BY <1>1, <1>2, <1>6, Zenon
<1>10. /\ HeldInv' /\ Once(lru') /\ lru' \in Seq(Sectors) /\ held' \in Seq(Sectors)
       /\ Len(lru') = Len(q) + 1 /\ cleared' \in Nat
       /\ \A y : Listed(y)' <=> y = s \/ In(q, y)
  BY <1>1, <1>2, <1>5, <1>6, <1>7, <1>8, <1>9, TakeSound, Zenon
<1>11. CacheType'
  BY <1>1, <1>2, <1>5, <1>10, Zenon DEF CacheType
<1>12. DiskType' /\ CallInv' /\ RingInv'
  BY <1>1, <1>2, DiskRest, Zenon
<1>13. LoadInv'
  BY <1>1, <1>2, <1>9, Zenon DEF LoadInv, NoCall, NoRequest, disk
<1>14. CacheExact'
  <2>1. \A x \in Sectors : Listed(x)' <=> active'[x] # None
    BY <1>1, <1>2, <1>3, <1>6, <1>10, ZenonT(40)
  <2>2. Len(lru') <= capacity + 1
    BY <1>2, <1>6, <1>10
  <2> QED
    BY <1>1, <1>10, <2>1, <2>2, Zenon DEF CacheExact, IInv, Once
<1>15. content' = content
  BY <1>1, Zenon DEF content, ContentOf, disk
<1> QED
  BY <1>1, <1>10, <1>11, <1>12, <1>13, <1>14, <1>15, TypeSplit, Zenon DEF IInv

\* A block is given up: it is not one the file system holds.
LEMMA EvictSound ==
    ASSUME IInv, NEW s \in Sectors, Miss(s), MustEvict
    PROVE  IInv' /\ content' = content /\ answer' = answer
<1>1. /\ May(s) /\ active[s] = None /\ Ready /\ want' = s /\ lru' = Front(lru)
      /\ UNCHANGED <<held, cleared, answer, fault>>
      /\ ~Held(Last(lru)) => Die(Last(lru))
  BY Zenon DEF Miss, May
<1>2. /\ DiskInv /\ CacheType /\ call = NoCall /\ want = None /\ fault = FALSE
      /\ Once(lru) /\ \A x \in Sectors : In(lru, x) <=> active[x] # None
      /\ Len(lru) \in Nat /\ Len(lru) <= capacity + 1
      /\ held # <<>> => \E p \in DOMAIN lru : lru[p] = held[1] /\ p <= cleared + 1
  BY <1>1, AtRest, Zenon
<1>3. Len(lru) = capacity + 1 /\ lru # <<>> /\ lru \in Seq(Sectors)
  BY <1>2, CacheAssumption, EmptySeq DEF MustEvict, CacheType
<1> DEFINE x == Last(lru)
           q == Front(lru)
<1>4. /\ q \in Seq(Sectors) /\ Len(q) = Len(lru) - 1
      /\ Once(q)
      /\ x \in Sectors /\ In(lru, x)
      /\ \A y : In(q, y) <=> In(lru, y) /\ y # x
      /\ \A p \in DOMAIN lru : p < Len(lru) => p \in DOMAIN q /\ q[p] = lru[p]
  BY <1>2, <1>3, PopBack, ZenonT(40)
<1>5. Len(lru) \in DOMAIN lru /\ lru[Len(lru)] = x
  BY <1>2, <1>3, CacheAssumption, LenProperties DEF Last
<1>6. held = <<>> \/ (Len(held) = 1 /\ s # held[1] /\ cleared < rSPC)
  BY <1>1, Zenon DEF May
<1> HIDE DEF q, x
<1>7. held # <<>> => \E p \in DOMAIN q : q[p] = held[1] /\ p <= cleared + 1 /\ lru[p] = held[1]
                                         /\ p \in DOMAIN lru /\ p # Len(lru)
  <2> SUFFICES ASSUME held # <<>>
               PROVE  \E p \in DOMAIN q : q[p] = held[1] /\ p <= cleared + 1 /\ lru[p] = held[1]
                                          /\ p \in DOMAIN lru /\ p # Len(lru)
    BY Zenon
  <2>1. PICK p \in DOMAIN lru : lru[p] = held[1] /\ p <= cleared + 1
    BY <1>2, Zenon
  <2>2. p \in Nat /\ cleared \in Nat /\ cleared < rSPC
    BY <1>2, <1>3, <1>6, LenProperties DEF CacheType
  <2>3. p < Len(lru) /\ p # Len(lru)
    BY <1>3, <2>1, <2>2, CacheAssumption
  <2> QED
    BY <1>4, <2>1, <2>3, Zenon
<1>8. ~Held(x)
  <2> SUFFICES ASSUME NEW i \in DOMAIN held, held[i] = x PROVE FALSE
    BY Zenon DEF Held
  <2>0. held \in Seq(Sectors)
    BY <1>2, Zenon DEF CacheType
  <2>1. held # <<>> /\ Len(held) = 1 /\ i = 1
    <3>1. i \in 1 .. Len(held) /\ Len(held) \in Nat
      BY <2>0, LenProperties, Zenon
    <3>2. held # <<>>
      BY <2>0, <3>1, EmptySeq
    <3> QED
      BY <1>6, <3>1, <3>2
  <2>2. PICK p \in DOMAIN lru : lru[p] = held[1] /\ p # Len(lru)
    BY <1>7, <2>1, Zenon
  <2> QED
    BY <1>2, <1>5, <2>1, <2>2, Zenon DEF Once
<1>9. active[x] \in Frames /\ active \in [Sectors -> Frames \cup {None}]
  BY <1>2, <1>4, Zenon DEF CacheType
<1> DEFINE req == [kind |-> "flush", sec |-> x, frame |-> active[x]]
<1>10. active' = [active EXCEPT ![x] = None] /\ Submit(req) /\ req \in Request
  BY <1>1, <1>4, <1>8, <1>9, Zenon DEF Die, Request, x
<1>11. /\ DiskType' /\ CallInv' /\ RingInv'
       /\ call'.req = req /\ call'.pc = "spin" /\ UNCHANGED <<sector, data>>
  BY <1>2, <1>10, SubmitSound, Zenon DEF NoCall
<1>11a. /\ call'.req.kind = "flush" /\ call'.req.sec = x /\ call'.req.frame = active[x]
        /\ call'.pc = "spin"
  <2>1. call'.req = req /\ call'.pc = "spin"
    BY <1>11, Zenon
  <2> QED
    BY <2>1
<1>11b. call.req.kind = "none" /\ sector' = sector /\ data' = data
  <2>1. call = NoCall
    BY <1>2, Zenon
  <2>2. sector' = sector /\ data' = data
    BY <1>11, Zenon
  <2> QED
    BY <2>1, <2>2, Zenon DEF NoCall, NoRequest
<1> HIDE DEF req
<1>12. lru' = q
  BY <1>1, Zenon DEF q
<1>13. CacheType'
  BY <1>1, <1>2, <1>4, <1>9, <1>10, <1>12, Zenon DEF CacheType
<1>14. \A t, u \in Sectors : active[t] = active[u] /\ active[t] # None => t = u
  BY Zenon DEF IInv, CacheExact
<1>15. LoadInv'
  <2>1. \A t \in Sectors : active'[t] # active[x]
    BY <1>4, <1>9, <1>10, <1>14, DiskAssumption, Zenon
  <2>2. active'[x] = None /\ active'[s] = None
    BY <1>1, <1>4, <1>9, <1>10, ZenonT(40)
  <2>3. Len(lru') <= capacity
    BY <1>2, <1>3, <1>4, <1>12, CacheAssumption
  <2> QED
    BY <1>1, <1>11a, <2>1, <2>2, <2>3, Zenon DEF LoadInv
<1>16. HeldInv'
  <2>1. Len(held) <= 2 /\ Len(held) # 2 /\ cleared <= rSPC
    BY <1>6 DEF IInv, HeldInv
  <2> QED
    BY <1>1, <1>2, <1>6, <1>7, <1>12, <2>1, Zenon DEF HeldInv
<1>17. CacheExact'
  <2>1. \A t \in Sectors : Listed(t)' <=> In(q, t)
    BY <1>12, Zenon DEF Listed, In
  <2>2. \A t \in Sectors : Listed(t)' <=> active'[t] # None
    BY <1>2, <1>4, <1>9, <1>10, <2>1, Zenon
  <2>3. \A t, u \in Sectors : active'[t] = active'[u] /\ active'[t] # None => t = u
    BY <1>9, <1>10, <1>14, Zenon
  <2>4. Len(lru') <= capacity + 1
    <3>1. Len(q) = Len(lru) - 1 /\ Len(lru) = capacity + 1
      BY <1>3, <1>4, Zenon
    <3> QED
      BY <1>12, <3>1, CacheAssumption
  <2> QED
    BY <1>4, <1>12, <2>2, <2>3, <2>4, Zenon DEF CacheExact, Once
<1>18. ASSUME NEW t \in Sectors PROVE ContentOf(t)' = ContentOf(t)
  <2>1. CASE t = x
    <3>1. active'[t] = None /\ active[t] # None
      BY <1>9, <1>10, <2>1, DiskAssumption, Zenon
    <3> QED
      BY <1>11a, <1>11b, <2>1, <3>1, Zenon DEF ContentOf
  <2>2. CASE t # x
    <3>1. active'[t] = active[t]
      BY <1>9, <1>10, <2>2, Zenon
    <3> QED
      BY <1>11a, <1>11b, <2>2, <3>1, Zenon DEF ContentOf
  <2> QED
    BY <2>1, <2>2, Zenon
<1> QED
  BY <1>1, <1>11, <1>13, <1>15, <1>16, <1>17, <1>18, TypeSplit, Zenon DEF IInv, content

\* A request for a page that is nobody's; the list has room.
LEMMA RefillSound ==
    ASSUME IInv, call.pc # "spin", NEW s \in Sectors, active[s] = None, Len(lru) <= capacity,
           NEW f \in FreeFrames, Refill(s, f), want' = s,
           call.req.kind = "flush" => Same,
           held = <<>> \/ (Len(held) = 1 /\ s # held[1] /\ cleared < rSPC),
           UNCHANGED <<lru, active, held, cleared, fault>>
    PROVE  IInv' /\ content' = content
<1>1. DiskInv /\ CacheType
  BY TypeSplit, Zenon DEF IInv, DiskInv
<1> DEFINE req == [kind |-> "reload", sec |-> s, frame |-> f]
<1>2. req \in Request /\ f \in Frames /\ \A t \in Sectors : active[t] # f
  BY Zenon DEF Request, FreeFrames
<1>3. /\ DiskType' /\ CallInv' /\ RingInv'
      /\ call'.req = req /\ call'.pc = "spin" /\ UNCHANGED <<sector, data>>
  BY <1>1, <1>2, SubmitSound, Zenon DEF Refill
<1>4. CacheType'
  BY <1>1, Zenon DEF CacheType
<1>3a. /\ call'.req.kind = "reload" /\ call'.req.sec = s /\ call'.req.frame = f
       /\ call'.pc = "spin" /\ UNCHANGED <<sector, data>>
  <2>1. call'.req = req /\ call'.pc = "spin" /\ sector' = sector /\ data' = data
    BY <1>3, Zenon
  <2>2. req.kind = "reload" /\ req.sec = s /\ req.frame = f
    BY Zenon
  <2> HIDE DEF req
  <2> QED
    BY <2>1, <2>2, Zenon
<1>5. LoadInv'
  BY <1>2, <1>3a, Zenon DEF LoadInv
<1>6. HeldInv'
  BY Zenon DEF IInv, HeldInv, Listed
<1>7. CacheExact'
  BY Zenon DEF IInv, CacheExact, Listed
<1>8. ASSUME NEW t \in Sectors PROVE ContentOf(t)' = ContentOf(t)
  <2>1. call.req.kind = "flush" /\ call.req.sec = t => sector[t] = data[call.req.frame]
    BY Zenon DEF Same
  <2> QED
    BY <1>3a, <2>1, Zenon DEF ContentOf
<1> QED
  BY <1>3, <1>4, <1>5, <1>6, <1>7, <1>8, TypeSplit, Zenon DEF IInv, content

\* getOrSet of another block, with or without an eviction.
LEMMA MissSound ==
    ASSUME IInv, NEW s \in Sectors, Miss(s)
    PROVE  IInv' /\ content' = content /\ answer' = answer
<1>1. CASE MustEvict
  BY <1>1, EvictSound, Zenon
<1>2. CASE ~MustEvict
  <2>1. /\ May(s) /\ active[s] = None /\ Ready /\ want' = s
        /\ UNCHANGED <<lru, active, held, cleared, answer, fault>>
        /\ \E f \in FreeFrames : Refill(s, f)
    BY <1>2, Zenon DEF Miss, May
  <2>2. call = NoCall /\ Len(lru) \in Nat
    BY <2>1, AtRest, Zenon
  <2>3. Len(lru) <= capacity /\ call.pc # "spin" /\ call.req.kind # "flush"
    BY <1>2, <2>2, CacheAssumption DEF MustEvict, NoCall, NoRequest
  <2>4. held = <<>> \/ (Len(held) = 1 /\ s # held[1] /\ cleared < rSPC)
    BY <2>1, Zenon DEF May
  <2> QED
    BY <2>1, <2>3, <2>4, RefillSound, Zenon
<1> QED
  BY <1>1, <1>2, Zenon

\* The block that was given up is on the disk.
LEMMA FlushedSound ==
    ASSUME IInv, Flushed
    PROVE  IInv' /\ content' = content /\ answer' = answer
<1>1. call.pc = "done" /\ call.req.kind = "flush" /\ UNCHANGED cache
  BY Zenon DEF Flushed
<1>2. Same /\ call.pc # "spin"
  BY <1>1, Zenon DEF IInv, CallInv, RingInv
<1>3. CASE want # None
  <2>1. \E f \in FreeFrames : Refill(want, f)
    BY <1>3, Zenon DEF Flushed
  <2>2. /\ want \in Sectors /\ active[want] = None /\ Len(lru) <= capacity
        /\ held = <<>> \/ (Len(held) = 1 /\ want # held[1] /\ cleared < rSPC)
    BY <1>3, Zenon DEF IInv, TypeOK, LoadInv, HeldInv
  <2> QED
    BY <1>1, <1>2, <2>1, <2>2, RefillSound, Zenon DEF cache
<1>4. CASE want = None
  <2>1. /\ call' = NoCall
        /\ UNCHANGED <<sector, data, free, desc, avail, atwork, used, irq, handler, faults>>
    BY <1>4, Zenon DEF Flushed
  <2>2. DiskInv /\ CacheType
    BY TypeSplit, Zenon DEF IInv, DiskInv
  <2>3. DiskType' /\ CallInv' /\ RingInv'
    BY <1>2, <2>1, <2>2, RestSound, Zenon
  <2>4. CacheType'
    BY <1>1, <2>2, ZenonT(40) DEF CacheType, cache
  <2>5. LoadInv' /\ HeldInv' /\ CacheExact'
    BY <1>1, <1>4, <2>1 DEF IInv, LoadInv, HeldInv, CacheExact, Listed, cache, NoCall, NoRequest
  <2>6. \A t \in Sectors : ContentOf(t)' = ContentOf(t)
    BY <1>1, <1>2, <2>1, Zenon DEF ContentOf, Same, cache, NoCall, NoRequest
  <2> QED
    BY <1>1, <2>3, <2>4, <2>5, <2>6, TypeSplit, Zenon DEF IInv, content, cache
<1> QED
  BY <1>3, <1>4, Zenon

\* The new block holds what the disk holds.
LEMMA LoadedSound ==
    ASSUME IInv, Loaded
    PROVE  IInv' /\ content' = content /\ answer' = answer
<1>1. /\ call.pc = "done" /\ call.req.kind = "reload"
      /\ lru' = <<want>> \o lru
      /\ active' = [active EXCEPT ![want] = call.req.frame]
      /\ held' = Append(held, want)
      /\ cleared' = IF held = <<>> THEN 0 ELSE cleared + 1
      /\ want' = None
      /\ call' = NoCall
      /\ UNCHANGED <<sector, data, free, desc, avail, atwork, used, irq, handler, faults>>
      /\ UNCHANGED <<answer, fault>>
  BY Zenon DEF Loaded
<1>2. DiskInv /\ CacheType /\ Once(lru)
  BY TypeSplit, ExactSplit, Zenon DEF IInv, DiskInv
<1>3. call.req \in Request /\ want = call.req.sec /\ Same
  BY <1>1, Zenon DEF IInv, CallInv, RingInv, LoadInv
<1>4. want \in Sectors /\ want # None /\ call.req.frame \in Frames
  BY <1>3, DiskAssumption, Zenon DEF Request
<1>5. /\ active[want] = None /\ Len(lru) <= capacity
      /\ \A t \in Sectors : active[t] # call.req.frame
  BY <1>1, <1>4, Zenon DEF IInv, LoadInv
<1>6. ~In(lru, want)
  BY <1>4, <1>5, ExactSplit, Zenon DEF IInv, CacheExact
<1>7. /\ held # <<>> => \E p \in DOMAIN lru : lru[p] = held[1] /\ p <= cleared + 1
      /\ held = <<>> \/ (Len(held) = 1 /\ want # held[1] /\ cleared < rSPC)
      /\ fault = FALSE
  BY <1>2, <1>4, Zenon DEF IInv, HeldInv, CacheType
<1>8. lru \in Seq(Sectors) /\ Len(lru) \in Nat
  BY <1>2 DEF CacheType
<1>9. /\ HeldInv' /\ Once(lru') /\ lru' \in Seq(Sectors) /\ held' \in Seq(Sectors)
      /\ Len(lru') = Len(lru) + 1 /\ cleared' \in Nat
      /\ \A y : Listed(y)' <=> y = want \/ In(lru, y)
  BY <1>1, <1>2, <1>4, <1>6, <1>7, <1>8, TakeSound, Zenon
<1>10. CacheType'
  BY <1>1, <1>2, <1>4, <1>9, Zenon DEF CacheType
<1>11. DiskType' /\ CallInv' /\ RingInv'
  BY <1>1, <1>2, RestSound, Zenon
<1>12. LoadInv'
  BY <1>1, Zenon DEF LoadInv, NoCall, NoRequest
<1>13. active \in [Sectors -> Frames \cup {None}]
  BY <1>2, Zenon DEF CacheType
<1>14. CacheExact'
  <2>1. \A t \in Sectors : Listed(t)' <=> active'[t] # None
    <3>1. \A t \in Sectors : In(lru, t) <=> active[t] # None
      BY ExactSplit, Zenon DEF IInv, CacheExact
    <3> QED
      BY <1>1, <1>4, <1>9, <1>13, <3>1, DiskAssumption, Zenon
  <2>2. \A t, u \in Sectors : active'[t] = active'[u] /\ active'[t] # None => t = u
    <3>1. \A t, u \in Sectors : active[t] = active[u] /\ active[t] # None => t = u
      BY Zenon DEF IInv, CacheExact
    <3> QED
      BY <1>1, <1>4, <1>5, <1>13, <3>1, Zenon
  <2>3. Len(lru') <= capacity + 1
    <3>1. Len(lru') = Len(lru) + 1 /\ Len(lru) <= capacity /\ Len(lru) \in Nat
      BY <1>5, <1>8, <1>9, Zenon
    <3> QED
      BY <3>1, CacheAssumption
  <2> QED
    BY <1>9, <2>1, <2>2, <2>3, Zenon DEF CacheExact, Once
<1>15. ASSUME NEW t \in Sectors PROVE ContentOf(t)' = ContentOf(t)
  <2>1. CASE t = want
    BY <1>1, <1>3, <1>4, <1>5, <1>13, <2>1, DiskAssumption, Zenon DEF ContentOf, Same
  <2>2. CASE t # want
    BY <1>1, <1>4, <1>13, <2>2, Zenon DEF ContentOf, NoCall, NoRequest
  <2> QED
    BY <2>1, <2>2, Zenon
<1> QED
  BY <1>1, <1>9, <1>10, <1>11, <1>12, <1>14, <1>15, TypeSplit, Zenon DEF IInv, content

\* The block the file system took last lives and is in the list.
LEMMA LastHeld ==
    ASSUME IInv, Ready, held # <<>>
    PROVE  /\ Last(held) \in Sectors /\ Listed(Last(held))
           /\ active[Last(held)] \in Frames
           /\ ContentOf(Last(held)) = data[active[Last(held)]]
<1>1. /\ CacheType /\ \A s \in Sectors : In(lru, s) <=> active[s] # None
      /\ \E p \in DOMAIN lru : lru[p] = held[1]
  BY AtRest, Zenon
<1>2. /\ held \in Seq(Sectors) /\ Len(held) \in Nat \ {0} /\ Len(held) <= 2
      /\ Len(held) = 2 => Listed(held[2])
  BY <1>1, EmptySeq, Zenon DEF CacheType, IInv, HeldInv
<1>3. Last(held) \in Sectors
  BY <1>2, ElementOfSeq DEF Last
<1>4. Listed(Last(held))
  <2> \A n \in Nat \ {0} : n <= 2 => n = 1 \/ n = 2
    OBVIOUS
  <2>1. Len(held) = 1 \/ Len(held) = 2
    BY <1>2, Zenon
  <2>2. Listed(held[1])
    BY <1>1, Zenon DEF Listed
  <2> QED
    BY <1>2, <2>1, <2>2, Zenon DEF Last
<1>5. active[Last(held)] # None
  BY <1>1, <1>3, <1>4, ExactSplit, Zenon
<1> QED
  BY <1>1, <1>3, <1>4, <1>5, Zenon DEF CacheType, ContentOf

\* The file system reads the block it took last.
LEMMA ReadSound ==
    ASSUME IInv, Read
    PROVE  IInv' /\ \E s \in Sectors : B!Read(s)
<1>1. /\ Ready /\ held # <<>>
      /\ answer' = <<Last(held), data[active[Last(held)]]>>
      /\ UNCHANGED <<lru, active, held, cleared, want, fault>> /\ UNCHANGED disk
  BY Zenon DEF Read
<1>2. DiskInv /\ CacheType
  BY TypeSplit, Zenon DEF IInv, DiskInv
<1>3. DiskType' /\ CallInv' /\ RingInv' /\ CacheType'
  BY <1>1, <1>2, DiskRest, Zenon DEF CacheType
<1>4. LoadInv' /\ HeldInv' /\ CacheExact'
  BY <1>1, ZenonT(40) DEF IInv, LoadInv, HeldInv, CacheExact, Listed, disk
<1>5. content' = content
  BY <1>1, Zenon DEF content, ContentOf, disk
<1>6. Last(held) \in Sectors /\ content[Last(held)] = data[active[Last(held)]]
  BY <1>1, LastHeld, Zenon DEF content
<1>7. B!Read(Last(held))
  BY <1>1, <1>5, <1>6, Zenon DEF B!Read
<1> QED
  BY <1>3, <1>4, <1>6, <1>7, TypeSplit, Zenon DEF IInv

\* The file system writes it.
LEMMA WriteSound ==
    ASSUME IInv, NEW v \in Values, Write(v)
    PROVE  IInv' /\ \E s \in Sectors : B!Write(s, v)
<1>1. /\ Ready /\ held # <<>>
      /\ data' = [data EXCEPT ![active[Last(held)]] = v]
      /\ answer' = NoAnswer
      /\ UNCHANGED <<lru, active, held, cleared, want, fault>>
      /\ UNCHANGED <<sector, free, desc, avail, atwork, used, irq, handler, call, faults>>
  BY Zenon DEF Write
<1> DEFINE x == Last(held)
<1>2. /\ DiskInv /\ CacheType /\ call = NoCall
  BY <1>1, AtRest, Zenon
<1>3. x \in Sectors /\ active[x] \in Frames
  BY <1>1, LastHeld, Zenon
<1> HIDE DEF x
<1>4. data \in [Frames -> Values \cup {Junk}] /\ active \in [Sectors -> Frames \cup {None}]
  BY <1>2, TypeSplit, Zenon DEF DiskInv, DiskType, CacheType
<1>5. DiskType' /\ CacheType'
  BY <1>1, <1>2, <1>3, <1>4, TypeSplit, Zenon DEF DiskInv, DiskType, CacheType, x
<1>6. CallInv'
  BY <1>1, <1>2, Zenon DEF DiskInv, CallInv
<1>7. used = <<>> /\ Len(avail) = 0 /\ Len(atwork) = 0 /\ ~irq
  BY <1>2, OneRequest, Zenon DEF DiskInv, RingInv, CallInv, NoCall
<1>8. RingInv'
  <2>1. avail = <<>> /\ atwork = <<>>
    BY <1>2, <1>7, OneRequest, EmptySeq, Zenon DEF DiskInv
  <2>2. handler = "off" /\ call.pc = "idle" /\ ~call.ready
    BY <1>2, Zenon DEF DiskInv, CallInv, NoCall
  <2>3. /\ avail' = <<>> /\ atwork' = <<>> /\ used' = <<>> /\ ~irq'
        /\ handler' = "off" /\ call'.pc = "idle" /\ ~call'.ready
    BY <1>1, <1>7, <2>1, <2>2, Zenon
  <2>4. DOMAIN avail' = {} /\ DOMAIN atwork' = {} /\ Len(avail') = 0 /\ Len(atwork') = 0
    BY <2>3
  <2>5. used' = <<>> /\ ~irq' /\ handler' = "off" /\ call'.pc = "idle" /\ ~call'.ready
    BY <2>3, Zenon
  <2> QED
    BY <2>4, <2>5 DEF RingInv
<1>9. LoadInv' /\ HeldInv' /\ CacheExact'
  BY <1>1, ZenonT(40) DEF IInv, LoadInv, HeldInv, CacheExact, Listed
<1>10. content' = [content EXCEPT ![x] = v]
  <2>1. \A t, u \in Sectors : active[t] = active[u] /\ active[t] # None => t = u
    BY Zenon DEF IInv, CacheExact
  <2>2. ASSUME NEW t \in Sectors PROVE ContentOf(t)' = IF t = x THEN v ELSE ContentOf(t)
    <3>1. CASE active[t] = None
      BY <1>1, <1>2, <1>3, <3>1, DiskAssumption, Zenon DEF ContentOf, NoCall, NoRequest
    <3>2. CASE active[t] # None
      BY <1>1, <1>3, <1>4, <2>1, <3>2, Zenon DEF ContentOf, x
    <3> QED
      BY <3>1, <3>2, Zenon
  <2> QED
    BY <1>3, <2>2, Zenon DEF content
<1>11. B!Write(x, v)
  BY <1>1, <1>10, Zenon DEF B!Write
<1> QED
  BY <1>3, <1>5, <1>6, <1>8, <1>9, <1>11, TypeSplit, Zenon DEF IInv

\* The file system drops it.
LEMMA DropSound ==
    ASSUME IInv, Drop
    PROVE  IInv' /\ B!Forget
<1>1. Ready /\ held # <<>> /\ Listed(Last(held))
  BY LastHeld, Zenon DEF Drop
<1>2. /\ held' = Front(held) /\ answer' = NoAnswer
      /\ UNCHANGED active /\ UNCHANGED disk /\ UNCHANGED <<lru, cleared, want, fault>>
  BY <1>1, Zenon DEF Drop
<1>3. DiskInv /\ CacheType /\ want = None
  BY <1>1, AtRest, Zenon
<1>4. held \in Seq(Sectors) /\ Len(held) \in Nat \ {0} /\ Len(held) <= 2
  BY <1>1, <1>3, EmptySeq, Zenon DEF CacheType, IInv, HeldInv
<1>5. held' \in Seq(Sectors) /\ Len(held') = Len(held) - 1 /\ \A i \in 1 .. Len(held) - 1 : held'[i] = held[i]
  <2>1. \A k \in 1 .. Len(held) - 1 : held[k] \in Sectors
    BY <1>4, ElementOfSeq
  <2>2. 1 \in Int /\ Len(held) - 1 \in Int
    BY <1>4
  <2>3. /\ held' \in Seq(Sectors)
        /\ Len(held') = IF 1 <= Len(held) - 1 THEN Len(held) - 1 - 1 + 1 ELSE 0
        /\ \A k \in 1 .. Len(held) - 1 - 1 + 1 : held'[k] = held[1 + k - 1]
    BY <1>2, <2>1, <2>2, SubSeqProperties DEF Front
  <2>4. \A n \in Nat \ {0} : /\ (IF 1 <= n - 1 THEN n - 1 - 1 + 1 ELSE 0) = n - 1
                             /\ n - 1 - 1 + 1 = n - 1
    OBVIOUS
  <2>5. \A k \in 1 .. Len(held) - 1 : 1 + k - 1 = k
    BY <1>4
  <2> QED
    BY <1>4, <2>3, <2>4, <2>5, Zenon
<1>6. Len(held') <= 1 /\ (held' # <<>> => held'[1] = held[1])
  <2>1. held' # <<>> => Len(held') # 0
    BY <1>5, EmptySeq, Zenon
  <2> QED
    BY <1>4, <1>5, <2>1
<1>7. DiskType' /\ CallInv' /\ RingInv'
  BY <1>2, <1>3, DiskRest, Zenon
<1>8. CacheType'
  BY <1>2, <1>3, <1>5, Zenon DEF CacheType
<1>9. LoadInv' /\ CacheExact'
  BY <1>2, Zenon DEF IInv, LoadInv, CacheExact, Listed, disk
<1>10. HeldInv'
  <2>1. Len(held') \in Nat /\ Len(held') <= 2 /\ Len(held') # 2
    BY <1>4, <1>5, <1>6
  <2> QED
    BY <1>1, <1>2, <1>3, <1>6, <2>1, Zenon DEF IInv, HeldInv
<1>11. content' = content
  BY <1>2, Zenon DEF content, ContentOf, disk
<1> QED
  BY <1>2, <1>7, <1>8, <1>9, <1>10, <1>11, TypeSplit, Zenon DEF IInv, B!Forget

-----------------------------------------------------------------------------
\* The invariant holds at the start, and the start of Blocks is implemented.
LEMMA InitSound == Init => IInv /\ B!Init
<1> SUFFICES ASSUME Init PROVE IInv /\ B!Init
  BY Zenon
<1> USE DEF Init, DiskInit
<1>1. 0 \in Descs
  BY DiskAssumption DEF Descs
<1>2. DiskType
  <2>2. call \in [pc : {"idle", "spin", "done"}, req : Request \cup {NoRequest},
                  chain : SUBSET Descs, head : Descs, ready : BOOLEAN]
    BY <1>1, Zenon DEF NoCall
  <2>3. avail \in Seq(Descs) /\ used \in Seq(Descs) /\ atwork \in Seq(Work)
    BY EmptySeq, Zenon
  <2>4. faults \in 0 .. MaxFaults
    BY DiskAssumption
  <2>5. /\ sector \in [Sectors -> Values \cup {Junk}] /\ data \in [Frames -> Values \cup {Junk}]
        /\ free \subseteq Descs /\ desc \in [Descs -> Request \cup {NoRequest}]
    BY Zenon
  <2>6. irq \in BOOLEAN /\ handler \in {"off", "ack"}
    BY Zenon
  <2> QED
    BY <2>2, <2>3, <2>4, <2>5, <2>6, Zenon DEF DiskType
<1>8. CacheType
  BY EmptySeq, Zenon DEF CacheType
<1>3. CallInv /\ RingInv
  <2>1. call.pc = "idle" /\ ~call.ready
    BY Zenon DEF NoCall
  <2>2. CallInv
    BY <2>1, Zenon DEF CallInv
  <2>3. /\ DOMAIN avail = {} /\ DOMAIN atwork = {} /\ Len(avail) = 0 /\ Len(atwork) = 0
        /\ used = <<>> /\ ~irq /\ handler = "off"
    OBVIOUS
  <2> HIDE DEF Init, DiskInit
  <2>4. RingInv
    BY <2>1, <2>3 DEF RingInv
  <2> QED
    BY <2>2, <2>4, Zenon
<1>4. LoadInv /\ HeldInv
  <2>1. call.pc = "idle" /\ call.req.kind = "none"
    BY Zenon DEF NoCall, NoRequest
  <2>2. LoadInv
    BY <2>1, Zenon DEF LoadInv
  <2>3. Len(held) = 0
    BY Zenon
  <2>4. HeldInv
    BY <2>3, CacheAssumption DEF HeldInv
  <2> QED
    BY <2>2, <2>4, Zenon
<1>5. CacheExact
  BY CacheAssumption DEF CacheExact, Listed
<1>6. content = sector
  BY Zenon DEF content, ContentOf, NoCall, NoRequest
<1> QED
  BY <1>2, <1>3, <1>4, <1>5, <1>6, <1>8, TypeSplit, Zenon DEF IInv, B!Init

\* Every step keeps the invariant and is a step of Blocks or none.
LEMMA StepSound ==
    ASSUME ~LateDevice, IInv, [Next]_vars
    PROVE  IInv' /\ [B!Next]_B!blocks
<1>1. CASE FileSystem
  <2>1. ASSUME NEW s \in Sectors, Hit(s) \/ Miss(s)
        PROVE  IInv' /\ content' = content /\ answer' = answer
    BY <2>1, HitSound, MissSound, Zenon
  <2>2. CASE Read
    BY <2>2, ReadSound, Zenon DEF B!Next
  <2>3. CASE Drop
    BY <2>3, DropSound, Zenon DEF B!Next
  <2>4. ASSUME NEW v \in Values, Write(v) PROVE IInv' /\ B!Next
    BY <2>4, WriteSound, Zenon DEF B!Next
  <2> QED
    BY <1>1, <2>1, <2>2, <2>3, <2>4, Zenon DEF FileSystem, B!blocks
<1>2. CASE Flushed \/ Loaded
  BY <1>2, FlushedSound, LoadedSound, Zenon DEF B!blocks
<1>3. CASE (Driver \/ Device) /\ UNCHANGED cache
  BY <1>3, DiskStep, Zenon DEF B!blocks, cache
<1>4. CASE UNCHANGED vars
  <2>1. DiskInv /\ CacheType /\ UNCHANGED disk /\ UNCHANGED cache
    BY <1>4, TypeSplit, Zenon DEF IInv, DiskInv, vars, disk, cache
  <2>2. DiskType' /\ CallInv' /\ RingInv' /\ CacheType'
    BY <2>1, DiskRest, Zenon DEF CacheType, cache
  <2>3. LoadInv' /\ HeldInv' /\ CacheExact'
    BY <2>1, ZenonT(40) DEF IInv, LoadInv, HeldInv, CacheExact, Listed, disk, cache
  <2>4. content' = content /\ answer' = answer
    BY <2>1, Zenon DEF content, ContentOf, disk, cache
  <2> QED
    BY <2>2, <2>3, <2>4, TypeSplit, Zenon DEF IInv, B!blocks
<1> QED
  BY <1>1, <1>2, <1>3, <1>4, Zenon DEF Next

(***************************************************************************)
(* The inductive invariant: one request at a time, answered before the     *)
(* flag is set; a page under transfer is nobody's block; a block that is   *)
(* held is not at the end of the list.                                     *)
(***************************************************************************)
LEMMA Invariance == ASSUME ~LateDevice PROVE Spec => []IInv
<1>1. Init => IInv
  BY InitSound, Zenon
<1>2. IInv /\ [Next]_vars => IInv'
  BY StepSound, Zenon
<1> QED
  BY <1>1, <1>2, PTL DEF Spec

(***************************************************************************)
(* The file system sees an array of sectors: no read gives anything but    *)
(* what was written last, for any capacity, any number of sectors and      *)
(* pages and any number of lost interrupts, if the device answers before a *)
(* spin ends.                                                              *)
(***************************************************************************)
THEOREM CacheImplementsBlocks == ASSUME ~LateDevice PROVE Spec => ImplementsBlocks
<1>1. Init => B!Init
  BY InitSound, Zenon
<1>2. IInv /\ [Next]_vars => [B!Next]_B!blocks
  BY StepSound, Zenon
<1> QED
  BY <1>1, <1>2, Invariance, PTL DEF Spec, ImplementsBlocks, B!Spec

\* The device is done with a page before virtio_disk_rw returns.
THEOREM DiskAlwaysDone == ASSUME ~LateDevice PROVE Spec => []DiskDone
<1>1. IInv => DiskDone
  <2> SUFFICES ASSUME IInv, call.pc # "spin" \/ call.ready
               PROVE  avail = <<>> /\ atwork = <<>>
    BY Zenon DEF DiskDone
  <2>1. Len(avail) = 0 /\ Len(atwork) = 0 /\ avail \in Seq(Descs) /\ atwork \in Seq(Work)
    BY OneRequest, Zenon DEF IInv
  <2> QED
    BY <2>1, EmptySeq, Zenon
<1> QED
  BY <1>1, Invariance, PTL

(***************************************************************************)
(* No block that the file system refers to is evicted, as long as a        *)
(* cluster has no more sectors than the cache has capacity.                *)
(***************************************************************************)
THEOREM HeldAlwaysListed == ASSUME ~LateDevice PROVE Spec => []HeldListed
<1>1. IInv => HeldListed
  <2> SUFFICES ASSUME IInv, NEW i \in DOMAIN held
               PROVE  Listed(held[i]) /\ active[held[i]] # None
    BY Zenon DEF HeldListed, IInv, HeldInv
  <2>1. CacheType
    BY TypeSplit, Zenon DEF IInv
  <2>2. held \in Seq(Sectors) /\ i \in 1 .. Len(held) /\ Len(held) \in Nat /\ Len(held) <= 2
    BY <2>1, LenProperties, Zenon DEF CacheType, IInv, HeldInv
  <2>3. held # <<>> /\ held[i] \in Sectors
    BY <2>2, EmptySeq, ElementOfSeq
  <2>4. Listed(held[1]) /\ (Len(held) = 2 => Listed(held[2]))
    BY <2>3, Zenon DEF IInv, HeldInv, Listed
  <2> \A n \in Nat : n <= 2 => \A k \in 1 .. n : k = 1 \/ (k = 2 /\ n = 2)
    OBVIOUS
  <2>5. i = 1 \/ (i = 2 /\ Len(held) = 2)
    BY <2>2, Zenon
  <2>6. Listed(held[i])
    BY <2>4, <2>5, Zenon
  <2> QED
    BY <2>3, <2>6, Zenon DEF IInv, CacheExact
<1> QED
  BY <1>1, Invariance, PTL

\* List and index of the cache agree.
THEOREM CacheAlwaysExact == ASSUME ~LateDevice PROVE Spec => []CacheExact
<1>1. IInv => CacheExact
  BY Zenon DEF IInv
<1> QED
  BY <1>1, Invariance, PTL
=============================================================================
