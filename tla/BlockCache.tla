----------------------------- MODULE BlockCache ------------------------------
(***************************************************************************)
(* The block cache (include/bio.hh, kernel/fs/bio.cc) above the disk       *)
(* driver, used the way the FAT code uses it: it takes a block, reads or   *)
(* writes it and drops it; allocClus alone keeps the block of the FAT while*)
(* clearClus goes through the sectors of the new cluster.                  *)
(*                                                                         *)
(* A block lives as long as the list lru or the file system refers to it,  *)
(* and is written to the disk when it dies.  bcache[key] finds the blocks  *)
(* that live through active, which holds a weak reference and the place in *)
(* the list; the list may grow to one more than the capacity.              *)
(***************************************************************************)
EXTENDS VirtioDisk

CONSTANTS
    capacity,   \* BCacheMgr::defaultSize
    rSPC        \* sectors of a cluster

ASSUME CacheAssumption == capacity \in Nat /\ rSPC \in Nat /\ rSPC <= capacity

VARIABLES
    lru,        \* sectors, the one used last first
    active,     \* the page of each living block, or None
    held,       \* the blocks the file system refers to
    cleared,    \* sectors taken while another is held
    want,       \* the sector getOrSet is about to load, or None
    answer,     \* what the file system has just read
    fault       \* an iterator at the end of the list was erased

cache == <<lru, active, held, cleared, want, answer, fault>>
vars == <<sector, data, free, desc, avail, atwork, used, irq, handler, call, faults,
          lru, active, held, cleared, want, answer, fault>>

NoAnswer == <<>>

Init ==
    /\ DiskInit
    /\ lru = <<>>
    /\ active = [s \in Sectors |-> None]
    /\ held = <<>> /\ cleared = 0
    /\ want = None
    /\ answer = NoAnswer
    /\ fault = FALSE

Listed(s) == \E i \in DOMAIN lru : lru[i] = s
Held(s) == \E i \in DOMAIN held : held[i] = s
Place(s) == CHOOSE i \in DOMAIN lru : lru[i] = s

\* The file system runs: it is not inside a call of the cache.
Ready == ~fault /\ call.pc = "idle" /\ want = None

FreeFrames == {f \in Frames : \A s \in Sectors : active[s] # f}

\* Variant of MustEvict: the list holds as many blocks as the capacity says.
MustEvictEarly == Len(lru) >= capacity

\* reserve(): lru.size() > capacity.
MustEvict == Len(lru) > capacity

\* Variant of Die: a block that dies is only forgotten.
DieUnwritten(s) ==
    /\ active' = [active EXCEPT ![s] = None]
    /\ call' = [NoCall EXCEPT !.pc = "done", !.req.kind = "flush"]
    /\ UNCHANGED <<sector, data, free, desc, avail, atwork, used, irq, handler, faults>>

\* The last reference to the block is gone: the deleter takes it out of
\* active, ~BlockBuf flushes it.
Die(s) ==
    /\ active' = [active EXCEPT ![s] = None]
    /\ Submit([kind |-> "flush", sec |-> s, frame |-> active[s]])

\* refill(): a new BlockBuf, which reloads.
Refill(s, f) == Submit([kind |-> "reload", sec |-> s, frame |-> f])

May(s) ==
    /\ Ready
    /\ \/ held = <<>>
       \/ Len(held) = 1 /\ s # held[1] /\ cleared < rSPC

\* Variant of Hit: the block is not taken from its old place.
HitTwice(s) ==
    /\ May(s) /\ active[s] # None
    /\ lru' = <<s>> \o lru
    /\ fault' = ~Listed(s)
    /\ held' = Append(held, s)
    /\ cleared' = IF held = <<>> THEN 0 ELSE cleared + 1
    /\ UNCHANGED <<active, want, answer>> /\ UNCHANGED disk

\* getOrSet of a living block: it goes to the front of the list.
Hit(s) ==
    /\ May(s) /\ active[s] # None
    /\ lru' = <<s>> \o (IF Listed(s) THEN RemoveAt(lru, Place(s)) ELSE lru)
    /\ fault' = ~Listed(s)
    /\ held' = Append(held, s)
    /\ cleared' = IF held = <<>> THEN 0 ELSE cleared + 1
    /\ UNCHANGED <<active, want, answer>> /\ UNCHANGED disk

\* getOrSet of another: reserve() gives up the last of the list, which dies
\* unless the file system holds it; then refill().
Miss(s) ==
    /\ May(s) /\ active[s] = None
    /\ want' = s
    /\ \/ /\ MustEvict
          /\ lru' = Front(lru)
          /\ IF Held(Last(lru))
             THEN UNCHANGED active /\ \E f \in FreeFrames : Refill(s, f)
             ELSE Die(Last(lru))
       \/ /\ ~MustEvict
          /\ \E f \in FreeFrames : Refill(s, f)
          /\ UNCHANGED <<lru, active>>
    /\ UNCHANGED <<held, cleared, answer, fault>>

\* The block given up is on the disk, its page free: refill(), or back to
\* the file system if that had dropped it.
Flushed ==
    /\ call.pc = "done" /\ call.req.kind = "flush"
    /\ \/ want # None /\ \E f \in FreeFrames : Refill(want, f)
       \/ want = None /\ call' = NoCall
          /\ UNCHANGED <<sector, data, free, desc, avail, atwork, used, irq, handler, faults>>
    /\ UNCHANGED cache

\* The new block is loaded: into the list and into active.
Loaded ==
    /\ call.pc = "done" /\ call.req.kind = "reload"
    /\ lru' = <<want>> \o lru
    /\ active' = [active EXCEPT ![want] = call.req.frame]
    /\ held' = Append(held, want)
    /\ cleared' = IF held = <<>> THEN 0 ELSE cleared + 1
    /\ want' = None
    /\ call' = NoCall
    /\ UNCHANGED <<sector, data, free, desc, avail, atwork, used, irq, handler, faults>>
    /\ UNCHANGED <<answer, fault>>

\* The file system reads or writes the block it took last.
Read ==
    /\ Ready /\ held # <<>>
    /\ answer' = <<Last(held), data[active[Last(held)]]>>
    /\ UNCHANGED <<lru, active, held, cleared, want, fault>> /\ UNCHANGED disk

Write(v) ==
    /\ Ready /\ held # <<>>
    /\ data' = [data EXCEPT ![active[Last(held)]] = v]
    /\ answer' = NoAnswer
    /\ UNCHANGED <<lru, active, held, cleared, want, fault>>
    /\ UNCHANGED <<sector, free, desc, avail, atwork, used, irq, handler, call, faults>>

\* It drops it.
Drop ==
    /\ Ready /\ held # <<>>
    /\ held' = Front(held)
    /\ answer' = NoAnswer
    /\ IF Listed(Last(held)) THEN UNCHANGED active /\ UNCHANGED disk ELSE Die(Last(held))
    /\ UNCHANGED <<lru, cleared, want, fault>>

FileSystem ==
    \/ \E s \in Sectors : Hit(s) \/ Miss(s)
    \/ Read \/ Drop \/ \E v \in Values : Write(v)

Next ==
    \/ FileSystem \/ Flushed \/ Loaded
    \/ (Driver \/ Device) /\ UNCHANGED cache

Spec == Init /\ [][Next]_vars

(***************************************************************************)
(* The hart goes on, the device works on what it is given, and an          *)
(* interrupt that is not lost is taken.  Nothing is asked of the device's  *)
(* speed.                                                                  *)
(***************************************************************************)
FairSpec ==
    /\ Spec
    /\ WF_vars(Flushed) /\ WF_vars(Loaded)
    /\ WF_vars(Driver /\ UNCHANGED cache)
    /\ WF_vars((DevTake \/ \E i \in DOMAIN atwork : DevMove(i) \/ DevDone(i)) /\ UNCHANGED cache)

-----------------------------------------------------------------------------
\* The types.
TypeOK ==
    /\ sector \in [Sectors -> Values \cup {Junk}]
    /\ data \in [Frames -> Values \cup {Junk}]
    /\ free \subseteq Descs
    /\ desc \in [Descs -> Request \cup {NoRequest}]
    /\ avail \in Seq(Descs) /\ used \in Seq(Descs)
    /\ atwork \in Seq([head : Descs, req : Request, moved : BOOLEAN])
    /\ irq \in BOOLEAN /\ handler \in {"off", "ack"}
    /\ call \in [pc : {"idle", "spin", "done"}, req : Request \cup {NoRequest},
                 chain : SUBSET Descs, head : Descs, ready : BOOLEAN]
    /\ faults \in 0 .. MaxFaults
    /\ lru \in Seq(Sectors)
    /\ active \in [Sectors -> Frames \cup {None}]
    /\ held \in Seq(Sectors)
    /\ cleared \in Nat /\ want \in Sectors \cup {None}
    /\ fault \in BOOLEAN

(***************************************************************************)
(* What a sector holds for the file system: its block in memory, the block *)
(* on its way to the disk, or the disk.                                    *)
(***************************************************************************)
ContentOf(s) ==
    IF active[s] # None THEN data[active[s]]
    ELSE IF call.req.kind = "flush" /\ call.req.sec = s THEN data[call.req.frame]
    ELSE sector[s]

content == [s \in Sectors |-> ContentOf(s)]

B == INSTANCE Blocks WITH content <- content, answer <- answer

(***************************************************************************)
(* Cache, driver and device together are the array of sectors that Blocks  *)
(* describes: no read gives anything but what was written last, through    *)
(* eviction, reload, lost interrupts and retried requests.                 *)
(***************************************************************************)
ImplementsBlocks == B!Spec

(***************************************************************************)
(* "disk is done with buf", says virtio_disk_intr where it sets ready:     *)
(* once a call has seen the flag, no request is left with the device.      *)
(***************************************************************************)
DiskDone == (call.pc # "spin" \/ call.ready) => avail = <<>> /\ atwork = <<>>

(***************************************************************************)
(* A block the file system refers to is not evicted: it is in the list, so *)
(* that its iterator in active may be erased and no second block is loaded *)
(* for its sector.  A cluster of 0x80 sectors is the largest for which     *)
(* this holds.                                                             *)
(***************************************************************************)
HeldListed == ~fault /\ \A i \in DOMAIN held : Listed(held[i]) /\ active[held[i]] # None

(***************************************************************************)
(* list and index agree: every sector is listed at most once, exactly the  *)
(* living blocks are listed, and each has a page of its own.               *)
(***************************************************************************)
CacheExact ==
    /\ \A i, j \in DOMAIN lru : lru[i] = lru[j] => i = j
    /\ \A s \in Sectors : Listed(s) <=> active[s] # None
    /\ \A s, t \in Sectors : active[s] = active[t] /\ active[s] # None => s = t
    /\ Len(lru) <= capacity + 1

(***************************************************************************)
(* Every call of the disk ends: a lost interrupt is made good by a retry.  *)
(***************************************************************************)
CallReturns == (call.pc = "spin") ~> (call.pc = "done")
=============================================================================
