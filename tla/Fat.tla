-------------------------------- MODULE Fat ----------------------------------
(***************************************************************************)
(* The FAT file system (kernel/fs/fat.cc, include/fat.hh): the table of    *)
(* clusters, directories, and the cache of directory entries.  Every       *)
(* operator takes the state of the file system and gives the state after   *)
(* the call; nothing here is interrupted by another task.                  *)
(*                                                                         *)
(* A cluster holds BPC units: bytes of a file, or entries of a directory,  *)
(* where an entry with its long names is one unit.  Blocks below are those *)
(* of module Blocks: a read gives what was written last.                   *)
(***************************************************************************)
EXTENDS Integers, SequencesExt, FiniteSetsExt

CONSTANTS
    Names, Values,
    Slots,          \* ENTRY_CACHE_NUM, without the head of the list
    Clusters,       \* the last cluster
    BPC             \* units of a cluster

ASSUME FatAssumption ==
    /\ Slots \in Nat \ {0} /\ Clusters \in Nat /\ Clusters >= 2
    /\ BPC \in Nat /\ BPC >= 2

Data == 2 .. Clusters
EOC == Clusters + 1
Slot == 1 .. Slots
Root == Slots       \* the first that eCacheAlloc gives

Zero == [k |-> "zero", name |-> "", first |-> 0, size |-> 0]
Deleted == [Zero EXCEPT !.k = "deleted"]
Dots == [Zero EXCEPT !.k = "dots"]
Byte(v) == [Zero EXCEPT !.k = "byte", !.name = v]
Cleared == [i \in 0 .. BPC - 1 |-> Zero]

\* A slot nobody can find: eCacheAlloc sets what it does not keep.
Blank == [name |-> "", dir |-> FALSE, first |-> 0, size |-> 0, cur |-> 0, cnt |-> 0,
          dirty |-> FALSE, valid |-> 0, ref |-> 0, off |-> 0, parent |-> 0]

-----------------------------------------------------------------------------
(***************************************************************************)
(* Clusters.                                                               *)
(***************************************************************************)
\* The clusters from c on, each once.
RECURSIVE ChainIn(_, _, _)
ChainIn(fat, c, left) ==
    IF c \notin left THEN <<>> ELSE <<c>> \o ChainIn(fat, fat[c], left \ {c})

Chain(fat, c) == ChainIn(fat, c, Data)

Full(S) == \A c \in Data : S.fat[c] # 0
NewClus(S) == IF Full(S) THEN 2 ELSE Min({c \in Data : S.fat[c] = 0})

\* Variant of allocClus: the cluster is not cleared.
allocClusDirty(S) == [S EXCEPT !.fat[NewClus(S)] = EOC]

\* The first free cluster, cleared.  panic("no clusters")
allocClus(S) ==
    IF Full(S) THEN [S EXCEPT !.panic = TRUE]
    ELSE [S EXCEPT !.fat[NewClus(S)] = EOC, !.data[NewClus(S)] = Cleared]

Rewind(S, e) == [S EXCEPT !.ent[e].cur = S.ent[e].first, !.ent[e].cnt = 0]

\* relocClus: from the cluster last used forward, or from the first.
Forward(S, e) ==
    LET next == S.fat[S.ent[e].cur]
    IN  [S EXCEPT !.ent[e].cur = next, !.ent[e].cnt = @ + 1]

Extend(S, e) ==
    LET c == NewClus(S)
    IN  [allocClus(S) EXCEPT !.fat[S.ent[e].cur] = c, !.ent[e].cur = c, !.ent[e].cnt = @ + 1]

RECURSIVE Reach(_, _, _, _)
Reach(S, e, num, alloc) ==
    IF num <= S.ent[e].cnt THEN [s |-> S, ok |-> TRUE]
    ELSE IF S.fat[S.ent[e].cur] # EOC THEN Reach(Forward(S, e), e, num, alloc)
    ELSE IF alloc THEN Reach(Extend(S, e), e, num, alloc)
    ELSE [s |-> Rewind(S, e), ok |-> FALSE]

relocClus(S, e, off, alloc) ==
    LET num == off \div BPC
    IN  Reach(IF num < S.ent[e].cnt THEN Rewind(S, e) ELSE S, e, num, alloc)

At(S, e, off) == relocClus(S, e, off, FALSE).s

\* rwClus, of one unit at the place relocClus found.
Put(S, e, off, unit) == [S EXCEPT !.data[S.ent[e].cur][off % BPC] = unit]

\* The units of a chain.
Units(S, first) ==
    LET c == Chain(S.fat, first)
    IN  [i \in 1 .. BPC * Len(c) |-> S.data[c[(i - 1) \div BPC + 1]][(i - 1) % BPC]]

-----------------------------------------------------------------------------
(***************************************************************************)
(* Directories.  A scan goes on to the first unit that was never used, or  *)
(* to the end of the chain.                                                *)
(***************************************************************************)
IsEntry(u) == u.k \in {"file", "dir"}

End(us) == Min({i \in 1 .. Len(us) : us[i].k = "zero"} \cup {Len(us) + 1}) - 1

\* The places, from off on, of what a scan finds when it skips a kind of unit.
Found(us, off, skipped) == {i \in off .. End(us) - 1 : us[i + 1].k # skipped}

\* Where entNext stops: at the first unit from off on that is not deleted.
Stop(us, off) == Min(Found(us, off, "deleted") \cup {End(us)})

\* Where the next entry goes: behind the last that is in use.
FreePlace(us) == Max({i + 1 : i \in Found(us, 0, "deleted")} \cup {0})

\* Variant of Ref: the parent is not told.
RefAlone(S, e) == [S EXCEPT !.ent[e].ref = @ + 1]

\* entDup; the root is never given up, its count is left out.
entDup(S, e) == IF e = Root THEN S ELSE [S EXCEPT !.ent[e].ref = @ + 1]

\* A cached entry is taken: the first reference holds the parent.
Ref(S, e) ==
    LET t == IF S.ent[e].ref = 0 THEN entDup(S, S.ent[e].parent) ELSE S
    IN  entDup(t, e)

\* The cached entries of d, in the order of the list.
Hits(S, d) == SelectSeq(S.lru, LAMBDA e : S.ent[e].valid = 1 /\ S.ent[e].parent = d)

Spare(S) == SelectSeq(S.lru, LAMBDA e : S.ent[e].ref = 0)

\* eCacheAlloc: from the end of the list.  panic("entHit: insufficient ecache")
eCacheAlloc(S) ==
    IF Spare(S) = <<>> THEN [s |-> [S EXCEPT !.panic = TRUE], e |-> 0]
    ELSE [s |-> [S EXCEPT !.ent[Last(Spare(S))] = [Blank EXCEPT !.ref = 1]], e |-> Last(Spare(S))]

\* What entNext and entSearch put into a slot.
Fill(S, e, d, off, u) ==
    LET t == entDup(S, d)
    IN  [t EXCEPT !.ent[e] = [Blank EXCEPT !.name = u.name, !.dir = (u.k = "dir"),
                              !.first = u.first, !.cur = u.first, !.size = u.size,
                              !.valid = 1, !.ref = 1, !.off = off, !.parent = d]]

Forget(S, e) == [S EXCEPT !.ent[e] = Blank]

None(S) == [s |-> S, e |-> 0]

\* The scan of the directory d into the slot a.e, and what it finds at off, or
\* behind the end; stop is where it has come.
Scanned(a, d, us, off, stop) ==
    IF a.e = 0 THEN a
    ELSE IF off < End(us)
    THEN [a EXCEPT !.s = Fill(At(a.s, d, stop), a.e, d, off, us[off + 1])]
    ELSE None(Forget(At(a.s, d, End(us)), a.e))

\* entSearch, by name.
Named(us, name) ==
    Min({i \in Found(us, 0, "deleted") : IsEntry(us[i + 1]) /\ us[i + 1].name = name} \cup {End(us)})

SearchDisk(S, d, us, name) ==
    Scanned(eCacheAlloc(S), d, us, Named(us, name), Named(us, name))

SearchCache(S, d, hits, name) ==
    IF hits # <<>> THEN [s |-> Ref(S, hits[1]), e |-> hits[1]]
    ELSE SearchDisk(S, d, Units(S, S.ent[d].first), name)

entSearch(S, d, name) ==
    IF S.ent[d].valid # 1 THEN None(S)
    ELSE SearchCache(S, d, SelectSeq(Hits(S, d), LAMBDA e : S.ent[e].name = name), name)

(***************************************************************************)
(* entSearch without a name, of readDir: any cached entry at off or behind *)
(* it, in the order of the list, or the next one of the directory, where a *)
(* row of deleted ones counts as an entry.  The reference is never given   *)
(* back.                                                                   *)
(***************************************************************************)
ReadDisk(S, d, us, next) ==
    Scanned(eCacheAlloc(S), d, us, IF Stop(us, next) < End(us) THEN next ELSE End(us),
            Stop(us, next)).s

ReadCache(S, d, us, hits, off) ==
    IF hits # <<>> THEN At(Ref(S, hits[1]), d, Stop(us, S.ent[hits[1]].off))
    ELSE ReadDisk(S, d, us, Min(Found(us, off, "dots") \cup {End(us)}))

readDir(S, d, off) ==
    IF S.ent[d].valid # 1 THEN S
    ELSE ReadCache(S, d, Units(S, S.ent[d].first),
                   SelectSeq(Hits(S, d), LAMBDA e : S.ent[e].off >= off), off)

\* entNext(2 * 32) == -1, and where the scan leaves the directory.
isEmpty(S, d) ==
    LET us == Units(S, S.ent[d].first)
    IN  S.ent[d].valid # 1 \/ \A i \in Found(us, 2, "deleted") : ~IsEntry(us[i + 1])
LookedInto(S, d) ==
    IF S.ent[d].valid # 1 THEN S ELSE At(S, d, Stop(Units(S, S.ent[d].first), 2))

-----------------------------------------------------------------------------
(***************************************************************************)
(* Files and entries.                                                      *)
(***************************************************************************)
EntryOf(x) == [k |-> IF x.dir THEN "dir" ELSE "file", name |-> x.name,
               first |-> x.first, size |-> x.size]

NewEntry(S, e, d, name, dir, off) ==
    [entDup(S, d) EXCEPT !.ent[e] = [Blank EXCEPT !.name = name, !.dir = dir, !.off = off,
                                                  !.parent = d, !.ref = 1]]

\* The first cluster of a directory, with "." and "..".
MakeDots(S, e, c) ==
    [allocClus(S) EXCEPT !.ent[e].first = c, !.ent[e].cur = c,
                         !.data[c][0] = Dots, !.data[c][1] = Dots]

\* entCreateOnDisk: the directory grows when the place is behind its end.
entCreateOnDisk(S, e, d, off) ==
    [Put(relocClus(S, d, off, TRUE).s, d, off, EntryOf(S.ent[e])) EXCEPT !.ent[e].valid = 1]

Made(S, e, dir) == IF dir THEN MakeDots(S, e, NewClus(S)) ELSE S

CreateAt(a, d, name, dir, off) ==
    IF a.e = 0 THEN a
    ELSE [a EXCEPT !.s =
            entCreateOnDisk(Made(NewEntry(a.s, a.e, d, name, dir, off), a.e, dir), a.e, d, off)]

CreateUnlessFound(f, d, name, dir) ==
    IF f.e # 0 THEN [f EXCEPT !.s = At(f.s, d, f.s.ent[f.e].off)]
    ELSE IF f.s.panic THEN f
    ELSE CreateAt(eCacheAlloc(f.s), d, name, dir, FreePlace(Units(f.s, f.s.ent[d].first)))

entCreate(S, d, name, dir) ==
    IF S.ent[d].valid # 1 THEN None(S)
    ELSE CreateUnlessFound(entSearch(S, d, name), d, name, dir)

\* Variant of entTrunc: the first cluster stays in use.
entTruncTail(S, e) ==
    LET c == Chain(S.fat, S.ent[e].first)
    IN  [S EXCEPT !.fat = [x \in Data |-> IF \E i \in 2 .. Len(c) : c[i] = x THEN 0 ELSE @[x]],
                  !.ent[e].first = 0, !.ent[e].size = 0, !.ent[e].dirty = TRUE]

entTrunc(S, e) ==
    LET c == Chain(S.fat, S.ent[e].first)
    IN  [S EXCEPT !.fat = [x \in Data |-> IF \E i \in DOMAIN c : c[i] = x THEN 0 ELSE @[x]],
                  !.ent[e].first = 0, !.ent[e].size = 0, !.ent[e].dirty = TRUE]

\* A read of one unit moves to its cluster.
entRead(S, e, off) == IF off < S.ent[e].size THEN At(S, e, off) ELSE S

\* Variant of FirstClus: the place last used is kept.
FirstClusKept(S, e) ==
    [allocClus(S) EXCEPT !.ent[e].first = NewClus(S), !.ent[e].dirty = TRUE]

FirstClus(S, e) ==
    LET c == NewClus(S)
    IN  [allocClus(S) EXCEPT !.ent[e].first = c, !.ent[e].cur = c, !.ent[e].cnt = 0,
                             !.ent[e].dirty = TRUE]

\* A write of one unit, at most one behind the end.
Grow(S, e, off) ==
    IF off < S.ent[e].size THEN S ELSE [S EXCEPT !.ent[e].size = off + 1, !.ent[e].dirty = TRUE]

entWrite(S, e, off, v) ==
    IF off > S.ent[e].size THEN S
    ELSE Grow(Put(relocClus(IF S.ent[e].first = 0 THEN FirstClus(S, e) ELSE S, e, off, TRUE).s,
                  e, off, Byte(v)), e, off)

\* The entry's unit is marked; clusters are freed when nobody refers to it.
entRemove(S, e) ==
    LET p == S.ent[e].parent
        off == S.ent[e].off
    IN  IF S.ent[e].valid # 1 THEN S
        ELSE [At(Put(At(S, p, off), p, off, Deleted), p, off + 1) EXCEPT !.ent[e].valid = -1]

\* entUnlink, of an entry that is no hard link: it reads the unit.
entUnlink(S, e) == At(S, S.ent[e].parent, S.ent[e].off)

parentUpdate(S, e) ==
    LET p == S.ent[e].parent
        off == S.ent[e].off
    IN  IF ~S.ent[e].dirty \/ S.ent[e].valid # 1 THEN S
        ELSE [Put(At(S, p, off), p, off, EntryOf(S.ent[e])) EXCEPT !.ent[e].dirty = FALSE]

\* Variant of ToFront: the entry keeps its place in the list.
ToFrontNot(S, e) == S

\* The entry moves behind the root in the list.
ToFront(S, e) ==
    LET rest == SelectSeq(S.lru, LAMBDA x : x # e)
        at == CHOOSE i \in DOMAIN rest : rest[i] = Root
    IN  [S EXCEPT !.lru = InsertAt(rest, at + 1, e)]

\* The last reference: a removed entry gives up its clusters, another is
\* written to its directory.
LastRef(S, e) ==
    IF S.ent[e].valid = -1 THEN Forget(entTrunc(S, e), e)
    ELSE [parentUpdate(S, e) EXCEPT !.ent[e].ref = 0]

RECURSIVE entRelse(_, _)
entRelse(S, e) ==
    IF e = Root THEN S
    ELSE IF S.ent[e].valid = 0 \/ S.ent[e].ref # 1 THEN [S EXCEPT !.ent[e].ref = @ - 1]
    ELSE entRelse(LastRef(ToFront(S, e), e), S.ent[e].parent)
=============================================================================
