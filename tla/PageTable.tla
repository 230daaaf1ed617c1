------------------------------ MODULE PageTable ------------------------------
(***************************************************************************)
(* A page table (kernel/vm/pagetable.cc, class PageTable of include/vm.hh) *)
(* whose nodes, like the frames it maps, are pages of the page allocator.  *)
(*                                                                         *)
(* VMAR maps a block of frames at a time where nothing is mapped, and      *)
(* removes regions that hold whole mappings, holes included: a page that   *)
(* was never faulted in, or of PROT_NONE, whose entry is not valid.        *)
(***************************************************************************)
EXTENDS Buddy, TLC

CONSTANTS
    Fan,        \* entries of a node: pageEntriesPerPage
    Top,        \* the level of the root: 2
    MaxVpn,     \* bound: the last page that is mapped
    MaxBlocks   \* bound: blocks of frames in use

ASSUME FanAssumption ==
    /\ Fan \in Nat /\ Fan >= 2 /\ Top \in Nat
    /\ MaxVpn \in 0 .. Fan ^ (Top + 1) - 1

VARIABLES
    nodes,      \* page -> its entries, of the pages that are nodes
    root,
    maps        \* what was mapped and not removed: [vpn, block, perm]

ptvars == <<nodes, root, maps>>

Vpns == 0 .. MaxVpn
BigPage(level) == Fan ^ level
Index(vpn, level) == (vpn \div BigPage(level)) % Fan

Nil == [kind |-> "invalid", ppn |-> 0]
Leaf(ppn) == [kind |-> "leaf", ppn |-> ppn]
Node(ppn) == [kind |-> "node", ppn |-> ppn]

\* raw.perm without v, that of PROT_NONE, leaves an entry that is not valid.
Perms == {"rw", "none"}
WithPerm(perm, ppn) == IF perm = "none" THEN Nil ELSE Leaf(ppn)

-----------------------------------------------------------------------------
(***************************************************************************)
(* M: the allocator and the nodes, the node made last, and ok, which ends  *)
(* with a failed assertion, or with the panic of alloc.                    *)
(***************************************************************************)
Now == [b |-> buddyNodes, nodes |-> nodes, new |-> root, ok |-> "yes"]

Taken(M, at) ==
    IF ~Found(at, 1) THEN [M EXCEPT !.ok = "assert"]
    ELSE [M EXCEPT !.b = Take(at, 1), !.new = PpnOf(at.nd, 1),
                   !.nodes = (PpnOf(at.nd, 1) :> [i \in 0 .. Fan - 1 |-> Nil]) @@ @]

createPTNode(M) ==
    IF M.b[0] = 0 THEN [M EXCEPT !.ok = "panic"] ELSE Taken(M, Search(M.b, 1))

Empty(M, t) == \A i \in 0 .. Fan - 1 : M.nodes[t][i] = Nil

\* Variant of freePTNode: the entry is cleared, the page is not given back.
freePTNodeKept(M, t, i) ==
    LET sub == M.nodes[t][i].ppn
    IN  IF ~Empty(M, sub) THEN M ELSE [M EXCEPT !.nodes[t][i] = Nil]

\* if(freePTNode(subTable))entry.setInvalid(), of the entry i of t.
freePTNode(M, t, i) ==
    LET sub == M.nodes[t][i].ppn
    IN  IF M.ok # "yes" \/ ~Empty(M, sub) THEN M
        ELSE IF ~MayFree(M.b, sub, 0) THEN [M EXCEPT !.ok = "assert"]
        ELSE [M EXCEPT !.b = Free(M.b, sub, 0),
                       !.nodes = [n \in DOMAIN @ \ {sub} |->
                                    IF n = t THEN [@[n] EXCEPT ![i] = Nil] ELSE @[n]]]

-----------------------------------------------------------------------------
RECURSIVE createMapping(_, _, _, _, _, _, _)

\* A big page becomes a node; one side of what it mapped is pushed down.
PushDown(M, t, i, old, vpn, skip, pages, level) ==
    IF M.ok # "yes" THEN M
    ELSE IF old.kind # "leaf" THEN [M EXCEPT !.nodes[t][i] = Node(M.new)]
    ELSE createMapping([M EXCEPT !.nodes[t][i] = Node(M.new)],
                       M.new, vpn, old.ppn + skip, pages, "rw", level - 1)

\* The entry i of t leads to a node; vpn, skip and pages say what to keep of
\* a big page.
SubTable(M, t, i, vpn, skip, pages, level) ==
    IF M.nodes[t][i].kind = "node" THEN M
    ELSE PushDown(createPTNode(M), t, i, M.nodes[t][i], vpn, skip, pages, level)

\* Part of the range is below the entry i of t.
Below(M, t, i, vpn, ppn, pages, perm, level) ==
    IF M.ok # "yes" THEN M
    ELSE createMapping(M, M.nodes[t][i].ppn, vpn, ppn, pages, perm, level - 1)

\* "align vpn to boundary"
CreateFirst(M, t, vpn, ppn, pages, perm, level) ==
    IF pages = 0 THEN M
    ELSE LET i == Index(vpn, level)
             un == vpn % BigPage(level)
         IN  Below(SubTable(M, t, i, vpn - un, 0, un, level), t, i, vpn, ppn, pages, perm, level)

\* "map aligned whole pages"
CreateWhole(M, t, vpn, ppn, n, perm, level) ==
    LET i == Index(vpn, level)
    IN  IF M.ok # "yes" THEN M
        ELSE [M EXCEPT !.nodes[t] = [j \in 0 .. Fan - 1 |->
                IF j \in i .. i + n - 1 THEN WithPerm(perm, ppn + (j - i) * BigPage(level))
                ELSE @[j]]]

\* "map rest pages"
CreateRest(M, t, vpn, ppn, pages, perm, level) ==
    IF pages = 0 \/ M.ok # "yes" THEN M
    ELSE LET i == Index(vpn, level)
             size == BigPage(level)
         IN  Below(SubTable(M, t, i, vpn + pages, pages, size - pages, level),
                   t, i, vpn, ppn, pages, perm, level)

\* The pages of a range below the first entry, when it is not aligned.
FirstPages(vpn, pages, level) ==
    IF vpn % BigPage(level) = 0 THEN 0
    ELSE smaller(BigPage(level) - (vpn % BigPage(level)), pages)

\* The three parts; rest is the frame of the page behind the first.
CreateParts(M, t, vpn, ppn, rest, pages, perm, level) ==
    LET k == FirstPages(vpn, pages, level)
        n == (pages - k) \div BigPage(level)
        w == n * BigPage(level)
    IN  CreateRest(
            CreateWhole(
                CreateFirst(M, t, vpn, ppn, k, perm, level),
                t, vpn + k, rest, n, perm, level),
            t, vpn + k + w, rest + w, pages - k - w, perm, level)

\* Variant of createMapping: ppn is not advanced with vpn.
createMappingStuck(M, t, vpn, ppn, pages, perm, level) ==
    CreateParts(M, t, vpn, ppn, ppn, pages, perm, level)

createMapping(M, t, vpn, ppn, pages, perm, level) ==
    CreateParts(M, t, vpn, ppn, ppn + FirstPages(vpn, pages, level), pages, perm, level)

-----------------------------------------------------------------------------
RECURSIVE removeMapping(_, _, _, _, _)

\* Part of the range is below the entry i of t: assert(!entry.isLeaf())
RemoveBelow(M, t, vpn, pages, level) ==
    LET i == Index(vpn, level)
    IN  IF pages = 0 \/ M.ok # "yes" \/ M.nodes[t][i] = Nil THEN M
        ELSE IF M.nodes[t][i].kind = "leaf" THEN [M EXCEPT !.ok = "assert"]
        ELSE freePTNode(removeMapping(M, M.nodes[t][i].ppn, vpn, pages, level - 1), t, i)

\* A node whose pages are all removed: assert(freePTNode(entry.child()))
Asserted(M, t, i) ==
    IF M.ok = "yes" /\ M.nodes[t][i] # Nil THEN [M EXCEPT !.ok = "assert"] ELSE M

\* "unmap aligned whole pages"
RECURSIVE RemoveWhole(_, _, _, _, _)
RemoveWhole(M, t, vpn, n, level) ==
    LET i == Index(vpn, level)
        next == IF M.nodes[t][i] = Nil THEN M
                ELSE IF M.nodes[t][i].kind = "leaf" THEN [M EXCEPT !.nodes[t][i] = Nil]
                ELSE Asserted(RemoveBelow(M, t, vpn, BigPage(level), level), t, i)
    IN  IF n = 0 \/ M.ok # "yes" THEN M
        ELSE RemoveWhole(next, t, vpn + BigPage(level), n - 1, level)

removeMapping(M, t, vpn, pages, level) ==
    LET k == FirstPages(vpn, pages, level)
        n == (pages - k) \div BigPage(level)
        w == n * BigPage(level)
    IN  RemoveBelow(
            RemoveWhole(
                RemoveBelow(M, t, vpn, k, level),
                t, vpn + k, n, level),
            t, vpn + k + w, pages - k - w, level)

-----------------------------------------------------------------------------
(***************************************************************************)
(* What VMAR does: frames come and go, blocks of them are mapped, regions  *)
(* are removed.  With too little memory for a node the kernel panics.      *)
(***************************************************************************)
Blocks(ns) == {[ppn |-> n, pages |-> 1] : n \in ns}
Frames == held \ Blocks(DOMAIN nodes)

vseg(m) == m.vpn .. m.vpn + m.block.pages - 1

PTInit ==
    LET at == Search(FreeUnaligned([nd \in Nodes |-> 0], 0, Pages).nodes, 1)
    IN  /\ root = PpnOf(at.nd, 1)
        /\ nodes = (root :> [i \in 0 .. Fan - 1 |-> Nil])
        /\ buddyNodes = Take(at, 1)
        /\ held = Blocks({root})
        /\ maps = {}
        /\ fault = "none"

\* The state after the call; frames stay.
Becomes(M) ==
    /\ M.ok # "panic"
    /\ nodes' = M.nodes
    /\ buddyNodes' = M.b
    /\ held' = Frames \cup Blocks(DOMAIN M.nodes)
    /\ fault' = IF M.ok = "assert" THEN "table" ELSE fault
    /\ UNCHANGED root

AllocFrames(n) == Cardinality(Frames) < MaxBlocks /\ Alloc(n) /\ UNCHANGED ptvars

FreeFrames(h) ==
    /\ h \in Frames /\ \A m \in maps : m.block # h
    /\ Release(h) /\ UNCHANGED ptvars

Map(h, vpn, perm) ==
    LET new == [vpn |-> vpn, block |-> h, perm |-> perm]
    IN  /\ fault = "none"
        /\ h \in Frames /\ \A m \in maps : m.block # h
        /\ vseg(new) \subseteq Vpns /\ \A m \in maps : vseg(m) \cap vseg(new) = {}
        /\ Becomes(createMapping(Now, root, vpn, h.ppn, h.pages, perm, Top))
        /\ maps' = maps \cup {new}

\* Bound: a region has holes on one side at most.
Unmap(l, r) ==
    /\ fault = "none" /\ l <= r
    /\ \E m \in maps : m.vpn = l \/ m.vpn + m.block.pages - 1 = r
    /\ \A m \in maps : vseg(m) \subseteq l .. r \/ vseg(m) \cap (l .. r) = {}
    /\ Becomes(removeMapping(Now, root, l, r - l + 1, Top))
    /\ maps' = {m \in maps : vseg(m) \cap (l .. r) = {}}

PTNext ==
    \/ \E n \in Sizes : AllocFrames(n)
    \/ \E h \in Frames : FreeFrames(h)
    \/ \E h \in Frames, vpn \in Vpns, perm \in Perms : Map(h, vpn, perm)
    \/ \E l, r \in Vpns : Unmap(l, r)

PTSpec == PTInit /\ [][PTNext]_<<vars, ptvars>>

-----------------------------------------------------------------------------
\* PageTable::trans, and what the hardware finds.
RECURSIVE trans(_, _, _)
trans(t, vpn, level) ==
    LET entry == nodes[t][Index(vpn, level)]
    IN  CASE entry.kind = "invalid" -> -1
          [] entry.kind = "leaf" -> entry.ppn + (vpn % BigPage(level))
          [] entry.kind = "node" -> trans(entry.ppn, vpn, level - 1)

(***************************************************************************)
(* The table is the function VMAR takes it for: a page that is mapped      *)
(* leads to its frame, big pages included, and every other page nowhere.   *)
(***************************************************************************)
TransExact ==
    fault = "none" =>
        \A vpn \in Vpns :
            LET here == {m \in maps : vpn \in vseg(m) /\ m.perm # "none"}
            IN  trans(root, vpn, Top) =
                    IF here = {} THEN -1
                    ELSE LET m == CHOOSE m \in here : TRUE IN m.block.ppn + vpn - m.vpn

\* The nodes below t, with the pages they are for.
RECURSIVE Tables(_, _, _)
Tables(t, base, level) ==
    {[page |-> t, vpns |-> base .. base + BigPage(level + 1) - 1]} \cup
    UNION {Tables(nodes[t][i].ppn, base + i * BigPage(level), level - 1) :
            i \in {j \in 0 .. Fan - 1 : nodes[t][j].kind = "node"}}

(***************************************************************************)
(* Every node but the root is reached by one entry, and something is       *)
(* mapped below it: none is lost, shared, or kept for nothing.             *)
(***************************************************************************)
NodesExact ==
    fault = "none" =>
        LET all == Tables(root, 0, Top)
        IN  /\ {x.page : x \in all} = DOMAIN nodes
            /\ Cardinality(all) = Cardinality(DOMAIN nodes)
            /\ \A x \in all : x.page = root \/ \E m \in maps : vseg(m) \cap x.vpns # {}
=============================================================================
