-------------------------------- MODULE Vmar ---------------------------------
(***************************************************************************)
(* User address spaces (include/vm.hh, kernel/vm/vm.cc, vm/vmo.hh,         *)
(* vm/pager.hh) and the calls that change them (kernel/syscall/mm.cc,      *)
(* Process::brk, fork, the reset of execve).                               *)
(*                                                                         *)
(* A VMAR is a set of PageMappings ordered by vpn, so that inserting one   *)
(* whose vpn is taken does nothing, and the page table the hardware uses,  *)
(* here a function from page to frame and permission.  A frame is a page   *)
(* of a VMO.  Mappings are private and anonymous; every page of a VMO is   *)
(* loaded when it is mapped, and one of a clone that is not mapped at the  *)
(* time is absent.  Addresses are in half pages.                           *)
(***************************************************************************)
EXTENDS Integers

CONSTANTS
    Procs, First,   \* processes, and the one that exists at the start
    MaxPage,        \* bound: user pages are 1 .. MaxPage
    MaxVmos,        \* bound: VMOs alive at a time
    Lens,           \* lengths of mmap, in pages
    UnmapRegions, ProtectRegions,  \* what regions programs pass to munmap and mprotect
    HeapUse,        \* the heap grows by whole pages, or by bytes
    ForkedMap       \* forked children call mmap and brk before execve

ASSUME FirstAssumption == First \in Procs
ASSUME UseAssumption ==
    /\ {UnmapRegions, ProtectRegions} \subseteq {"whole", "prefix", "any"}
    /\ HeapUse \in {"pages", "bytes"} /\ ForkedMap \in BOOLEAN
\* mmap refuses a length of no pages.
ASSUME SizeAssumption == MaxPage \in Nat /\ MaxVmos \in Nat /\ Lens \subseteq Nat \ {0}

VARIABLES
    vmar,       \* [mappings, pagetable] of each process
    vmos,       \* the contents of each VMO
    heapTop,
    alive, forked,  \* processes; those that have not called execve since fork
    view        \* what each process has mapped, and last wrote there

vars == <<vmar, vmos, heapTop, alive, forked, view>>

Pages == 1 .. MaxPage
VmoIds == 1 .. MaxVmos
Perms == {"r", "rw"}
heapBottom == 2
absent == -1
gone == -2
None == [val |-> gone, perm |-> "none"]
Invalid == [vmo |-> 0, off |-> 0, perm |-> "none"]

addr2pn(addr) == addr \div 2
pn2addr(vpn) == vpn * 2
bytes2pages(addr) == (addr + 1) \div 2

-----------------------------------------------------------------------------
(***************************************************************************)
(* PageMapping and PageTable.                                              *)
(***************************************************************************)
vend(m) == m.vpn + m.len - 1
vsegment(m) == m.vpn .. vend(m)

splitChild(m, l, r, perm) ==
    [vpn |-> l, len |-> r - l + 1, offset |-> m.offset + l - m.vpn, vmo |-> m.vmo, perm |-> perm]

Frame(m, x) == [vmo |-> m.vmo, off |-> m.offset + x - m.vpn, perm |-> m.perm]

createMapping(pt, m) == [x \in Pages |-> IF x \in vsegment(m) THEN Frame(m, x) ELSE pt[x]]

removeMapping(pt, m) == [x \in Pages |-> IF x \in vsegment(m) THEN Invalid ELSE pt[x]]

(***************************************************************************)
(* VMAR.  find: the last mapping that begins at or before the page, if it  *)
(* contains the page.                                                      *)
(***************************************************************************)
NoMapping == [vpn |-> 0, len |-> 0, offset |-> 0, vmo |-> 0, perm |-> "none"]

find(S, x) ==
    LET before == {m \in S : m.vpn <= x}
        last == {m \in before : \A o \in before : o.vpn <= m.vpn}
        found == {m \in last : x \in vsegment(m)}
    IN  IF found = {} THEN NoMapping ELSE CHOOSE m \in found : TRUE

contains(S, x) == \E m \in S : x \in vsegment(m)

insert(S, m) == IF \E o \in S : o.vpn = m.vpn THEN S ELSE S \cup {m}

map(a, m) == [mappings |-> insert(a.mappings, m), pagetable |-> createMapping(a.pagetable, m)]

larger(i, j) == IF i < j THEN j ELSE i
smaller(i, j) == IF i < j THEN i ELSE j

\* Segment's operator &, where it is not empty.
Overlaps(m, l, r) == larger(m.vpn, l) <= smaller(vend(m), r)

\* Variant of MapSides: the right part begins one page early.
MapSidesEarly(a, m, l, r) ==
    LET left == IF m.vpn < l THEN map(a, splitChild(m, m.vpn, l - 1, m.perm)) ELSE a
    IN  IF r < vend(m) THEN map(left, splitChild(m, r, vend(m), m.perm)) ELSE left

\* The parts of m on both sides of l .. r, mapped on their own.
MapSides(a, m, l, r) ==
    LET left == IF m.vpn < l THEN map(a, splitChild(m, m.vpn, l - 1, m.perm)) ELSE a
    IN  IF r < vend(m) THEN map(left, splitChild(m, r + 1, vend(m), m.perm)) ELSE left

UnmapOne(a, m, l, r) ==
    LET sides == MapSides(a, m, l, r)
    IN  [mappings |-> sides.mappings \ {m}, pagetable |-> removeMapping(sides.pagetable, m)]

ProtectOne(a, m, l, r, perm) ==
    LET sides == MapSides([a EXCEPT !.pagetable = removeMapping(@, m)], m, l, r)
        new == splitChild(m, larger(m.vpn, l), smaller(vend(m), r), perm)
    IN  map([sides EXCEPT !.mappings = @ \ {m}], new)

(***************************************************************************)
(* The loop of unmap (perm is "none") and of protect, over the mappings in *)
(* the order of vpn: step[k] is the result once those that begin in 1 .. k *)
(* have been seen.  A right part that was inserted is met again and does   *)
(* not overlap.                                                            *)
(***************************************************************************)
AtVpn(S, k, l, r) == {m \in S : m.vpn = k /\ Overlaps(m, l, r)}

StepAt(a, k, l, r, perm) ==
    LET m == CHOOSE o \in AtVpn(a.mappings, k, l, r) : TRUE
    IN  IF AtVpn(a.mappings, k, l, r) = {} THEN a
        ELSE IF perm = "none" THEN UnmapOne(a, m, l, r)
        ELSE ProtectOne(a, m, l, r, perm)

Cut(a, l, r, perm) ==
    LET step[k \in 0 .. MaxPage] == IF k = 0 THEN a ELSE StepAt(step[k - 1], k, l, r, perm)
    IN  step[MaxPage]

unmap(a, l, r) == Cut(a, l, r, "none")

protect(a, l, r, perm) == Cut(a, l, r, perm)

-----------------------------------------------------------------------------
(***************************************************************************)
(* VMOs.  A VMO lives as long as a mapping refers to it.                   *)
(***************************************************************************)
InUse(as) == {m.vmo : m \in UNION {as[p].mappings : p \in Procs}}

FreeVmos == VmoIds \ InUse(vmar)

\* The contents after a step, those of dead VMOs forgotten.
Kept(contents, as) == [v \in VmoIds |-> IF v \in InUse(as) THEN contents[v] ELSE <<>>]

Fresh(len) == [i \in 1 .. len |-> 0]

Empty == [mappings |-> {}, pagetable |-> [x \in Pages |-> Invalid]]

Init ==
    /\ vmar = [p \in Procs |-> Empty]
    /\ vmos = [v \in VmoIds |-> <<>>]
    /\ heapTop = [p \in Procs |-> heapBottom]
    /\ alive = {First}
    /\ forked = {}
    /\ view = [p \in Procs |-> [x \in Pages |-> None]]

(***************************************************************************)
(* What the process p now has mapped at l .. r.                            *)
(***************************************************************************)
See(p, l, r, new) ==
    view' = [view EXCEPT ![p] = [x \in Pages |-> IF x \in l .. r THEN new ELSE @[x]]]

MapNew(p, vpn, len, perm) ==
    LET v == CHOOSE u \in FreeVmos : TRUE
        m == [vpn |-> vpn, len |-> len, offset |-> 0, vmo |-> v, perm |-> perm]
        as == [vmar EXCEPT ![p] = map(@, m)]
    IN  /\ FreeVmos # {} /\ vpn + len - 1 <= MaxPage
        /\ vmar' = as
        /\ vmos' = Kept([vmos EXCEPT ![v] = Fresh(len)], as)
        /\ See(p, vpn, vpn + len - 1, [val |-> 0, perm |-> perm])

MayMap(p) == p \in alive /\ (p \in forked => ForkedMap)

\* mmap without an address: the pages at heapTop.
mmap(p, len, perm) ==
    LET top == pn2addr(bytes2pages(heapTop[p]))
    IN  /\ MayMap(p)
        /\ MapNew(p, addr2pn(top), len, perm)
        /\ heapTop' = [heapTop EXCEPT ![p] = top + pn2addr(len)]
        /\ UNCHANGED <<alive, forked>>

\* The region begins and ends with a mapping, begins with one, or neither.
Suits(use, p, l, r) ==
    \A m \in vmar[p].mappings :
        /\ use \in {"whole", "prefix"} => ~(m.vpn < l /\ l <= vend(m))
        /\ use = "whole" => ~(m.vpn <= r /\ r < vend(m))

Unmap(p, l, r) ==
    LET as == [vmar EXCEPT ![p] = unmap(@, l, r)]
    IN  /\ vmar' = as
        /\ vmos' = Kept(vmos, as)
        /\ See(p, l, r, None)
        /\ UNCHANGED <<heapTop, alive, forked>>

munmap(p, l, r) ==
    /\ p \in alive /\ Suits(UnmapRegions, p, l, r)
    /\ contains(vmar[p].mappings, l)
    /\ Unmap(p, l, r)

\* In place, and only to a smaller size.
mremap(p, vpn, oldpages, newpages) ==
    /\ p \in alive /\ newpages < oldpages
    /\ Suits(UnmapRegions, p, vpn + newpages, vpn + oldpages - 1)
    /\ \E m \in vmar[p].mappings : m.vpn = vpn /\ m.len = oldpages
    /\ Unmap(p, vpn + newpages, vpn + oldpages - 1)

mprotect(p, l, r, perm) ==
    LET as == [vmar EXCEPT ![p] = protect(@, l, r, perm)]
    IN  /\ p \in alive /\ Suits(ProtectRegions, p, l, r)
        /\ \A x \in l .. r : view[p][x] # None
        /\ vmar' = as
        /\ vmos' = Kept(vmos, as)
        /\ view' = [view EXCEPT ![p] = [x \in Pages |->
                        IF x \in l .. r THEN [@[x] EXCEPT !.perm = perm] ELSE @[x]]]
        /\ UNCHANGED <<heapTop, alive, forked>>

(***************************************************************************)
(* Process::brk, of an address above heapBottom.                           *)
(***************************************************************************)
BrkFrom(p) == bytes2pages(heapTop[p])

brk(p, addr) ==
    /\ MayMap(p)
    /\ heapBottom < addr
    /\ heapTop[p] < addr
    /\ HeapUse = "pages" => addr % 2 = 0
    /\ heapTop' = [heapTop EXCEPT ![p] = addr]
    /\ IF contains(vmar[p].mappings, addr2pn(addr))
       THEN UNCHANGED <<vmar, vmos, view>>
       ELSE /\ BrkFrom(p) <= bytes2pages(addr)
            /\ MapNew(p, BrkFrom(p), bytes2pages(addr) - BrkFrom(p), "rw")
    /\ UNCHANGED <<alive, forked>>

(***************************************************************************)
(* fork: every mapping is cloned, VMO and all; a page is copied when it is *)
(* mapped.  The child's heapTop is the parent's heapBottom.                *)
(***************************************************************************)
CloneOf(m, v) == [m EXCEPT !.vmo = v]

\* Variant of CopyOf: the offset is forgotten.
CopyFromZero(m) ==
    [i \in DOMAIN vmos[m.vmo] |->
        IF i - 1 \in 0 .. m.len - 1 THEN vmos[m.vmo][i] ELSE absent]

CopyOf(m) ==
    [i \in DOMAIN vmos[m.vmo] |->
        IF i - 1 \in m.offset .. m.offset + m.len - 1 THEN vmos[m.vmo][i] ELSE absent]

\* VMAR's copy constructor maps the clones S of another's mappings in the
\* order of vpn: where they overlap the last one has the page table's entry.
mapAll(S) ==
    LET On(x) == {m \in S : x \in vsegment(m)}
    IN  [mappings  |-> S,
         pagetable |-> [x \in Pages |->
             IF On(x) = {} THEN Invalid
             ELSE Frame(CHOOSE m \in On(x) : \A o \in On(x) : o.vpn <= m.vpn, x)]]

\* Which VMO the clone of each mapping gets: a different one for each.
Choices(S) == {f \in [S -> FreeVmos] : \A m, n \in S : f[m] = f[n] => m = n}

fork(p, c) ==
    LET ms == vmar[p].mappings
        new == CHOOSE f \in Choices(ms) : TRUE
        as == [vmar EXCEPT ![c] = mapAll({CloneOf(m, new[m]) : m \in ms})]
        copied == [v \in VmoIds |-> IF \E m \in ms : new[m] = v
                                    THEN CopyOf(CHOOSE m \in ms : new[m] = v)
                                    ELSE vmos[v]]
    IN  /\ p \in alive /\ c \notin alive
        /\ Choices(ms) # {}
        /\ vmar' = as
        /\ vmos' = Kept(copied, as)
        /\ heapTop' = [heapTop EXCEPT ![c] = heapBottom]
        /\ alive' = alive \cup {c}
        /\ forked' = forked \cup {c}
        /\ view' = [view EXCEPT ![c] = view[p]]

\* VMAR::reset takes every mapping out of the page table and erases it.
reset(a) ==
    [mappings  |-> {},
     pagetable |-> [x \in Pages |-> IF contains(a.mappings, x) THEN Invalid ELSE a.pagetable[x]]]

\* execve: the reset, and a heap that begins behind the new program.
execve(p) ==
    LET as == [vmar EXCEPT ![p] = reset(@)]
    IN  /\ p \in alive
        /\ vmar' = as
        /\ vmos' = Kept(vmos, as)
        /\ heapTop' = [heapTop EXCEPT ![p] = heapBottom]
        /\ forked' = forked \ {p}
        /\ view' = [view EXCEPT ![p] = [x \in Pages |-> None]]
        /\ UNCHANGED alive

-----------------------------------------------------------------------------
(***************************************************************************)
(* Accesses of programs to pages they have mapped: pfhandler, a store,     *)
(* and copyout, by which a system call writes to the user's memory.        *)
(***************************************************************************)
Mapped(p, x) == p \in alive /\ view[p][x] # None

pfhandler(p, x) ==
    LET m == find(vmar[p].mappings, x)
    IN  /\ Mapped(p, x) /\ vmar[p].pagetable[x] = Invalid /\ m # NoMapping
        /\ vmar' = [vmar EXCEPT ![p].pagetable[x] = Frame(m, x)]
        /\ UNCHANGED <<vmos, heapTop, alive, forked, view>>

Put(f, val) == vmos' = [vmos EXCEPT ![f.vmo][f.off + 1] = val]

Saw(p, x, val) == view' = [view EXCEPT ![p][x].val = val]

Store(p, x, val) ==
    LET f == vmar[p].pagetable[x]
    IN  /\ Mapped(p, x) /\ f.perm = "rw" /\ f.vmo \in InUse(vmar)
        /\ Put(f, val) /\ Saw(p, x, val)
        /\ UNCHANGED <<vmar, heapTop, alive, forked>>

copyout(p, x, val) ==
    LET m == find(vmar[p].mappings, x)
    IN  /\ Mapped(p, x) /\ m # NoMapping
        /\ Put(Frame(m, x), val) /\ Saw(p, x, val)
        /\ UNCHANGED <<vmar, heapTop, alive, forked>>

Next ==
    \/ \E p \in Procs, len \in Lens : mmap(p, len, "rw")
    \/ \E p \in Procs, l, r \in Pages : l <= r /\ munmap(p, l, r)
    \/ \E p \in Procs, x, o \in Pages, n \in 0 .. MaxPage : mremap(p, x, o, n)
    \/ \E p \in Procs, l, r \in Pages, perm \in Perms : l <= r /\ mprotect(p, l, r, perm)
    \/ \E p \in Procs, addr \in 1 .. pn2addr(MaxPage) : brk(p, addr)
    \/ \E p, c \in Procs : fork(p, c)
    \/ \E p \in Procs : execve(p)
    \/ \E p \in Procs, x \in Pages : pfhandler(p, x)
    \/ \E p \in Procs, x \in Pages : Store(p, x, 1) \/ copyout(p, x, 1)

Spec == Init /\ [][Next]_vars

-----------------------------------------------------------------------------
Mapping == [vpn : Pages \cup {MaxPage + 1}, len : 0 .. MaxPage, offset : 0 .. MaxPage,
            vmo : VmoIds, perm : Perms]

\* The types; every mapping has a VMO.
TypeOK ==
    /\ \A p \in Procs :
        /\ vmar[p].mappings \subseteq Mapping
        /\ vmar[p].pagetable \in [Pages -> [vmo : 0 .. MaxVmos, off : 0 .. MaxPage,
                                            perm : Perms \cup {"none"}]]
        /\ view[p] \in [Pages -> [val : gone .. 1, perm : Perms \cup {"none"}]]
    /\ vmos \in [VmoIds -> UNION {[1 .. n -> absent .. 1] : n \in 0 .. MaxPage}]
    /\ heapTop \in [Procs -> Nat]
    /\ alive \subseteq Procs /\ forked \subseteq alive

\* Where an access to page x ends, after a page fault if there is one.
Reached(p, x) ==
    IF vmar[p].pagetable[x] # Invalid THEN vmar[p].pagetable[x]
    ELSE Frame(find(vmar[p].mappings, x), x)

Holds(f) == IF f.vmo = 0 \/ f.off + 1 \notin DOMAIN vmos[f.vmo] THEN gone
            ELSE vmos[f.vmo][f.off + 1]

(***************************************************************************)
(* Memory is memory.  Whatever a process has mapped and not unmapped it    *)
(* reaches, with the permission it last asked for, and finds there what it *)
(* last wrote or inherited by fork, and no write of another process.       *)
(* docs/重构内存管理.md:110: unmap and protect get new mappings "that do   *)
(* not change the data below" for the parts they do not touch.             *)
(***************************************************************************)
MemoryExact ==
    \A p \in alive, x \in Pages :
        view[p][x] # None =>
            /\ Holds(Reached(p, x)) = view[p][x].val
            /\ Reached(p, x).perm = view[p][x].perm

(***************************************************************************)
(* include/vm.hh:227, of VMAR::map: "overlap should has been unmapped".    *)
(***************************************************************************)
NoOverlap ==
    \A p \in alive : \A m, n \in vmar[p].mappings :
        m # n => vsegment(m) \cap vsegment(n) = {}

(***************************************************************************)
(* docs/重构内存管理.md:26: the page table is kept in step with mappings,  *)
(* for the hardware to use.  Every entry is the one pfhandler would make,  *)
(* from the one mapping that has the page; what munmap, mremap or execve   *)
(* took away is gone.                                                      *)
(***************************************************************************)
InSync ==
    /\ NoOverlap
    /\ \A p \in alive, x \in Pages :
         LET f == vmar[p].pagetable[x]
             m == find(vmar[p].mappings, x)
         IN  f # Invalid => m # NoMapping /\ f = Frame(m, x) /\ view[p][x] # None

(***************************************************************************)
(* copyin and copyinstr translate by the page table alone, which asserts   *)
(* that the entry is valid: every page the program has mapped is in it.    *)
(* docs/重构内存管理.md:111: unmap takes the overlapping part out of the   *)
(* page table.                                                             *)
(***************************************************************************)
CopyinFinds ==
    \A p \in alive, x \in Pages : view[p][x] # None => vmar[p].pagetable[x] # Invalid
=============================================================================
