------------------------------- MODULE Buddy ---------------------------------
(***************************************************************************)
(* The page allocator PageMgr (kernel/alloc.cc, include/alloc.hh): a       *)
(* binary tree in an array.  buddyNodes[nd] is one more than the order of  *)
(* the largest free block under nd ("biased"), 0 if there is none.         *)
(*                                                                         *)
(* Pages are counted from PageMgr::start.  The tree has room for the next  *)
(* power of two; PageMgr never merges at the root, so that a page count    *)
(* that is itself a power of two leaves nothing to allocate: the constant  *)
(* is not one.                                                             *)
(***************************************************************************)
EXTENDS Integers, FiniteSetsExt

CONSTANTS
    Pages,      \* end - start
    Sizes       \* the page counts the kernel asks for

\* klib::log2up: the least i with a <= 2^i.
log2up(a) == CHOOSE i \in 0 .. a : a <= 2 ^ i /\ \A j \in 0 .. i - 1 : 2 ^ j < a

rootOrder == log2up(Pages)

ASSUME PagesAssumption == Pages \in Nat \ {0} /\ 2 ^ rootOrder # Pages
ASSUME SizesAssumption == Sizes \subseteq 1 .. Pages

VARIABLES
    buddyNodes,
    held,       \* the blocks given out: [ppn, pages]
    fault       \* an assertion failed

vars == <<buddyNodes, held, fault>>

Nodes == 0 .. 2 * 2 ^ rootOrder - 2

lsub(x) == 2 * (x + 1) - 1
rsub(x) == 2 * (x + 1)
prnt(x) == ((x + 1) \div 2) - 1

Bit(n, i) == (n \div 2 ^ i) % 2

\* The node of the block of 2^order pages at pos.
pos2node(pos, order) ==
    LET walk[size \in order .. rootOrder] ==
            IF size = rootOrder THEN 0
            ELSE IF Bit(pos, size) = 1 THEN rsub(walk[size + 1]) ELSE lsub(walk[size + 1])
    IN  walk[order]

larger(a, b) == IF a > b THEN a ELSE b
smaller(a, b) == IF a < b THEN a ELSE b

-----------------------------------------------------------------------------
\* Variant of Join: only the left buddy is looked at.
JoinLeft(b, nd, order) ==
    IF b[lsub(nd)] = order THEN b[lsub(nd)] + 1 ELSE larger(b[lsub(nd)], b[rsub(nd)])

(***************************************************************************)
(* free(ppn, order): mark the node, then go up, joining two buddies that   *)
(* are both wholly free; the root only takes the larger of its children.   *)
(***************************************************************************)
Join(b, nd, order) ==
    IF b[lsub(nd)] = b[rsub(nd)] /\ b[lsub(nd)] = order
    THEN b[lsub(nd)] + 1
    ELSE larger(b[lsub(nd)], b[rsub(nd)])

AsRoot(b) == [b EXCEPT ![0] = larger(b[lsub(0)], b[rsub(0)])]

Free(b, ppn, order) ==
    LET idx == pos2node(ppn, order)
        up[k \in order .. rootOrder] ==
            IF k = order THEN [nd |-> idx, nodes |-> [b EXCEPT ![idx] = order + 1]]
            ELSE LET below == up[k - 1]
                     nd == prnt(below.nd)
                 IN  [nd |-> nd,
                      nodes |-> IF nd > 0
                                THEN [below.nodes EXCEPT ![nd] = Join(below.nodes, nd, k)]
                                ELSE below.nodes]
    IN  AsRoot(up[rootOrder].nodes)

\* assert(buddyNodes[idx]==0)
MayFree(b, ppn, order) == b[pos2node(ppn, order)] = 0

\* freeUnaligned: the binary digits of pages, the highest first.
FreeUnaligned(b, ppn, pages) ==
    LET step[i \in 0 .. rootOrder + 1] ==
            IF i = rootOrder + 1 THEN [nodes |-> b, ppn |-> ppn, ok |-> TRUE]
            ELSE LET s == step[i + 1]
                 IN  IF Bit(pages, i) = 0 THEN s
                     ELSE [nodes |-> Free(s.nodes, s.ppn, i), ppn |-> s.ppn + 2 ^ i,
                           ok |-> s.ok /\ MayFree(s.nodes, s.ppn, i)]
    IN  step[0]

(***************************************************************************)
(* alloc(pages): go down to a free block of the rounded size, splitting    *)
(* larger ones on the way, then correct the nodes above it.                *)
(***************************************************************************)
\* Variant of Descend: always to the child with the smaller block.
DescendSmallest(b, nd, rounded) ==
    IF b[lsub(nd)] < b[rsub(nd)] THEN lsub(nd) ELSE rsub(nd)

Descend(b, nd, rounded) ==
    IF smaller(b[lsub(nd)], b[rsub(nd)]) >= rounded
    THEN IF b[lsub(nd)] < b[rsub(nd)] THEN lsub(nd) ELSE rsub(nd)
    ELSE IF b[lsub(nd)] > b[rsub(nd)] THEN lsub(nd) ELSE rsub(nd)

\* Variant of Search: a split marks the left half only.
SearchHalf(b, rounded) ==
    LET down[size \in rounded .. rootOrder + 1] ==
            IF size = rootOrder + 1 THEN [nd |-> 0, nodes |-> b]
            ELSE LET above == down[size + 1]
                     n == above.nodes
                     nd == above.nd
                 IN  IF n[nd] = size + 1
                     THEN [nd |-> lsub(nd), nodes |-> [n EXCEPT ![lsub(nd)] = size]]
                     ELSE [nd |-> Descend(n, nd, rounded), nodes |-> n]
    IN  down[rounded]

\* The node where the loop of alloc ends, and the nodes split on the way.
Search(b, rounded) ==
    LET down[size \in rounded .. rootOrder + 1] ==
            IF size = rootOrder + 1 THEN [nd |-> 0, nodes |-> b]
            ELSE LET above == down[size + 1]
                     n == above.nodes
                     nd == above.nd
                 IN  IF n[nd] = size + 1
                     THEN [nd |-> lsub(nd),
                           nodes |-> [n EXCEPT ![lsub(nd)] = size, ![rsub(nd)] = size]]
                     ELSE [nd |-> Descend(n, nd, rounded), nodes |-> n]
    IN  down[rounded]

\* assert(node>0)
Found(at, rounded) == at.nodes[at.nd] = rounded /\ at.nd > 0

Take(at, rounded) ==
    LET up[k \in rounded .. rootOrder + 1] ==
            IF k = rounded THEN [nd |-> at.nd, nodes |-> [at.nodes EXCEPT ![at.nd] = 0]]
            ELSE LET below == up[k - 1]
                     nd == prnt(below.nd)
                     n == below.nodes
                 IN  [nd |-> nd, nodes |-> [n EXCEPT ![nd] = larger(n[lsub(nd)], n[rsub(nd)])]]
    IN  up[rootOrder + 1].nodes

PpnOf(node, rounded) ==
    (node + 1 - 2 ^ (rootOrder + 1 - rounded)) * 2 ^ (rounded - 1)

-----------------------------------------------------------------------------
\* The constructor; the uninitialised root is written before it is read.
Init ==
    /\ buddyNodes = FreeUnaligned([nd \in Nodes |-> 0], 0, Pages).nodes
    /\ held = {}
    /\ fault = "none"

\* alloc; with too little memory it panics, and the kernel stops.
Alloc(pages) ==
    LET rounded == log2up(pages) + 1
        at == Search(buddyNodes, rounded)
        ppn == PpnOf(at.nd, rounded)
        ok == Found(at, rounded) /\ ppn < Pages
    IN  /\ fault = "none"
        /\ buddyNodes[0] >= rounded
        /\ buddyNodes' = IF ok THEN Take(at, rounded) ELSE buddyNodes
        /\ held' = IF ok THEN held \cup {[ppn |-> ppn, pages |-> pages]} ELSE held
        /\ fault' = IF ok THEN fault ELSE "alloc"

\* The owner gives a block back: PageBuf, BlockBuf and page tables one page
\* with free, VMOContiguous any number with freeUnaligned.
Release(h) ==
    LET r == FreeUnaligned(buddyNodes, h.ppn, h.pages)
    IN  /\ fault = "none" /\ h \in held
        /\ held' = held \ {h}
        /\ buddyNodes' = IF r.ok THEN r.nodes ELSE buddyNodes
        /\ fault' = IF r.ok THEN fault ELSE "free"

Next == (\E n \in Sizes : Alloc(n)) \/ (\E h \in held : Release(h))

Spec == Init /\ [][Next]_vars

-----------------------------------------------------------------------------
\* The types; no node offers more than the whole of memory.
TypeOK ==
    /\ buddyNodes \in [Nodes -> 0 .. rootOrder + 1]
    /\ held \subseteq [ppn : 0 .. Pages - 1, pages : Sizes]
    /\ fault \in {"none", "alloc", "free"}

\* The pages of a block, those added by rounding included.
PagesOf(h) == h.ppn .. h.ppn + 2 ^ log2up(h.pages) - 1

\* The pages the tree offers: below a node with a free block of its own
\* size all of them, below a used node none.
Offered ==
    LET free[nd \in Nodes, order \in 0 .. rootOrder] ==
            IF buddyNodes[nd] = 0 THEN {}
            ELSE IF buddyNodes[nd] = order + 1
                 THEN LET first == PpnOf(nd, order + 1) IN first .. first + 2 ^ order - 1
                 ELSE free[lsub(nd), order - 1] \cup free[rsub(nd), order - 1]
    IN  free[0, rootOrder]

(***************************************************************************)
(* No page is given out twice, no page is on offer that somebody holds,    *)
(* and all of them lie between start and end.                              *)
(***************************************************************************)
BlocksDisjoint ==
    fault = "none" =>
        /\ \A h \in held : PagesOf(h) \subseteq 0 .. Pages - 1 /\ PagesOf(h) \cap Offered = {}
        /\ \A g, h \in held : g # h => PagesOf(g) \cap PagesOf(h) = {}

\* Every page is held or on offer, after any sequence of alloc and free.
NoPageLost ==
    fault = "none" => Offered \cup UNION {PagesOf(h) : h \in held} = 0 .. Pages - 1

(***************************************************************************)
(* assert(buddyNodes[idx]==0) of free, assert(node>0) and assert(ppn<end)  *)
(* of alloc.                                                               *)
(***************************************************************************)
AssertionsHold == fault = "none"
=============================================================================
