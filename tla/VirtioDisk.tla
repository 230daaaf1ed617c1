----------------------------- MODULE VirtioDisk ------------------------------
(***************************************************************************)
(* The disk driver (kernel/virtio_disk.cc) and the device it drives.       *)
(*                                                                         *)
(* virtio_disk_rw publishes a chain of three descriptors, spins until the  *)
(* interrupt handler sets its flag ready, and publishes the request again  *)
(* when it has spun long enough.  The device runs beside the hart: it      *)
(* takes a chain from the avail ring, moves the data, puts the chain's     *)
(* head into the used ring and raises its interrupt.  Interrupts may get   *)
(* lost: that is what the retry is for.                                    *)
(***************************************************************************)
EXTENDS Naturals, Sequences

CONSTANTS
    Sectors,    \* of the disk
    Frames,     \* pages for buffers
    Values,     \* what a sector may hold
    Junk,       \* what a page holds that nobody has filled
    NUM,        \* descriptors
    MaxFaults,  \* bound: lost interrupts and early timeouts
    LateDevice  \* whether a spin may end while the device is at work

None == 0

ASSUME DiskAssumption ==
    /\ None \notin Sectors /\ None \notin Frames /\ Junk \notin Values
    /\ NUM \in Nat /\ NUM >= 3
    /\ MaxFaults \in Nat /\ LateDevice \in BOOLEAN

VARIABLES
    sector,     \* the contents of the disk
    data,       \* the contents of the pages
    free,       \* the free descriptors
    desc,       \* the request a chain describes, by its head
    avail,      \* heads published and not yet taken by the device
    atwork,     \* requests the device has taken
    used,       \* heads the device has put into the used ring, not looked at
    irq,        \* the interrupt is raised
    handler,    \* "off", or "ack": the rings are read, the interrupt not acknowledged
    call,       \* the call of virtio_disk_rw
    faults      \* lost interrupts and early timeouts so far

disk == <<sector, data, free, desc, avail, atwork, used, irq, handler, call, faults>>

Descs == 0 .. NUM - 1
Request == [kind : {"flush", "reload"}, sec : Sectors, frame : Frames]
NoRequest == [kind |-> "none", sec |-> None, frame |-> None]
NoCall == [pc |-> "idle", req |-> NoRequest, chain |-> {}, head |-> 0, ready |-> FALSE]

DiskInit ==
    /\ sector \in [Sectors -> Values]
    /\ data = [f \in Frames |-> Junk]
    /\ free = Descs
    /\ desc = [i \in Descs |-> NoRequest]
    /\ avail = <<>> /\ atwork = <<>> /\ used = <<>>
    /\ irq = FALSE /\ handler = "off"
    /\ call = NoCall
    /\ faults = 0

-----------------------------------------------------------------------------
\* Defined here, and not taken from a library, so that the proofs are about
\* few definitions.
Least(S) == CHOOSE x \in S : \A y \in S : x <= y
RemoveAt(q, i) == SubSeq(q, 1, i - 1) \o SubSeq(q, i + 1, Len(q))
Front(q) == SubSeq(q, 1, Len(q) - 1)
Last(q) == q[Len(q)]

\* alloc3_desc takes the first free one three times; a chain is free again before the
\* next call, so that there always are three.
Alloc3(S) ==
    LET first  == Least(S)
        second == Least(S \ {first})
        third  == Least(S \ {first, second})
    IN  {first, second, third}

\* Variant of Publish: ready keeps its value.
PublishReady(req, from) ==
    LET chain == Alloc3(from)
        head  == Least(chain)
    IN  /\ free' = from \ chain
        /\ desc' = [desc EXCEPT ![head] = req]
        /\ avail' = Append(avail, head)
        /\ call' = [call EXCEPT !.pc = "spin", !.req = req, !.chain = chain, !.head = head]

\* One round of the loop of virtio_disk_rw, up to the spinning.
Publish(req, from) ==
    LET chain == Alloc3(from)
        head  == Least(chain)
    IN  /\ free' = from \ chain
        /\ desc' = [desc EXCEPT ![head] = req]
        /\ avail' = Append(avail, head)
        /\ call' = [pc |-> "spin", req |-> req, chain |-> chain, head |-> head, ready |-> FALSE]

\* A call of virtio_disk_rw begins.
Submit(req) ==
    /\ Publish(req, free)
    /\ UNCHANGED <<sector, data, atwork, used, irq, handler, faults>>

Spinning == call.pc = "spin" /\ handler = "off"

\* ready is set: free_chain, and the call is over.
Return ==
    /\ Spinning /\ call.ready
    /\ free' = free \cup call.chain
    /\ desc' = [desc EXCEPT ![call.head] = NoRequest]
    /\ call' = [call EXCEPT !.pc = "done"]
    /\ UNCHANGED <<sector, data, avail, atwork, used, irq, handler, faults>>

\* The device has answered everything and no interrupt will come.
Quiet == avail = <<>> /\ atwork = <<>> /\ ~irq

\* Variant of Timeout: the chain is set up again, the device not told.
TimeoutUntold ==
    /\ Spinning /\ ~call.ready
    /\ Quiet
    /\ UNCHANGED disk

\* retry has counted down to zero: free_chain, and the request once more.
Timeout ==
    /\ Spinning /\ ~call.ready
    /\ ~Quiet => LateDevice /\ faults < MaxFaults
    /\ faults' = IF Quiet THEN faults ELSE faults + 1
    /\ Publish(call.req, free \cup call.chain)
    /\ UNCHANGED <<sector, data, atwork, used, irq, handler>>

-----------------------------------------------------------------------------
\* virtio_disk_intr: every entry of the used ring sets the flag its head's
\* info points to, that of the present call if there is one.
Handle ==
    /\ irq /\ handler = "off"
    /\ call' = [call EXCEPT !.ready = @ \/ \E i \in DOMAIN used : used[i] = call.head]
    /\ used' = <<>>
    /\ handler' = "ack"
    /\ UNCHANGED <<sector, data, free, desc, avail, atwork, irq, faults>>

\* intr.ack = intr.status, and the handler returns.
Ack ==
    /\ handler = "ack"
    /\ irq' = FALSE
    /\ handler' = "off"
    /\ UNCHANGED <<sector, data, free, desc, avail, atwork, used, call, faults>>

-----------------------------------------------------------------------------
\* The device reads the descriptors of a chain.
DevTake ==
    /\ avail # <<>> /\ desc[Head(avail)] # NoRequest
    /\ atwork' = Append(atwork, [head |-> Head(avail), req |-> desc[Head(avail)], moved |-> FALSE])
    /\ avail' = Tail(avail)
    /\ UNCHANGED <<sector, data, free, desc, used, irq, handler, call, faults>>

\* It moves the data.
DevMove(i) ==
    LET w == atwork[i].req
    IN  /\ ~atwork[i].moved
        /\ atwork' = [atwork EXCEPT ![i].moved = TRUE]
        /\ \/ /\ w.kind = "flush"
              /\ sector' = [sector EXCEPT ![w.sec] = data[w.frame]]
              /\ UNCHANGED data
           \/ /\ w.kind = "reload"
              /\ data' = [data EXCEPT ![w.frame] = sector[w.sec]]
              /\ UNCHANGED sector
        /\ UNCHANGED <<free, desc, avail, used, irq, handler, call, faults>>

\* It says so.
DevDone(i) ==
    /\ atwork[i].moved
    /\ atwork' = RemoveAt(atwork, i)
    /\ used' = Append(used, atwork[i].head)
    /\ irq' = TRUE
    /\ UNCHANGED <<sector, data, free, desc, avail, handler, call, faults>>

\* The interrupt gets lost.
LoseIrq ==
    /\ irq /\ handler = "off" /\ faults < MaxFaults
    /\ irq' = FALSE
    /\ faults' = faults + 1
    /\ UNCHANGED <<sector, data, free, desc, avail, atwork, used, handler, call>>

Device ==
    \/ DevTake \/ LoseIrq
    \/ \E i \in DOMAIN atwork : DevMove(i) \/ DevDone(i)

Driver == Return \/ Timeout \/ Handle \/ Ack
=============================================================================
