-------------------------------- MODULE Vfs ----------------------------------
(***************************************************************************)
(* Names (kernel/fs/fs.cc, include/fs.hh): DEntries, paths and the calls   *)
(* of kernel/syscall/file.cc that use them, above the FAT file system.     *)
(*                                                                         *)
(* A DEntry refers to its parent and to its entry; its parent knows it by  *)
(* a weak reference, under a name that stays in subs when the DEntry is    *)
(* gone.  A DEntry is known here by its path.  A call makes the DEntries   *)
(* it passes and gives up, the last first, those that nothing refers to.   *)
(* A File keeps the DEntry it was opened with forever: the destructor of   *)
(* File::Data is empty.                                                    *)
(***************************************************************************)
EXTENDS Fat, TLC

CONSTANTS
    Dirs,                       \* the names used for directories
    InDir, InFile, InValue,     \* what the disk holds at the start
    MaxSize,        \* bound: units of a file
    MaxRef          \* bound: references of a slot when readDir adds one

VARIABLES
    fs,         \* the state of the file system
    de,         \* the DEntries between calls: entry and subs
    opened,     \* the paths of DEntries that a File refers to
    tree        \* what the paths lead to, computed from fs

vars == <<fs, de, opened, tree>>

Paths == {<<n>> : n \in Names} \cup {<<m, n>> : m \in Dirs, n \in Names}
Live(paths) == {<<>>} \cup UNION {{SubSeq(p, 1, k) : k \in 1 .. Len(p)} : p \in paths}

\* The disk: the root directory with two entries that stay and a directory,
\* which holds a file.
FreshRoot == [Blank EXCEPT !.dir = TRUE, !.first = 2, !.cur = 2, !.valid = 1, !.ref = 1]

Entry(k, name, first, size) == [k |-> k, name |-> name, first |-> first, size |-> size]

DiskFat ==
    [c \in Data |-> CASE c = 2 -> 3 [] c = 4 -> 5 [] c \in {3, 5, 6} -> EOC [] OTHER -> 0]
DiskData ==
    [c \in Data |->
        CASE c \in {2, 4} -> [i \in 0 .. BPC - 1 |-> Dots]
          [] c = 3 -> [Cleared EXCEPT ![0] = Entry("dir", InDir, 4, 0)]
          [] c = 5 -> [Cleared EXCEPT ![0] = Entry("file", InFile, 6, 1)]
          [] c = 6 -> [Cleared EXCEPT ![0] = Byte(InValue)]
          [] OTHER -> Cleared]

-----------------------------------------------------------------------------
NoEntry == Entry("none", "", 0, 0)

\* What a name leads to in a directory of the tree, whose slot is d if it has
\* one: the cached entry, or the one the directory holds.
Lookup(S, d, first, name) ==
    LET slots == {e \in Slot \ {Root} : /\ S.ent[e].valid = 1 /\ S.ent[e].parent = d
                                        /\ S.ent[e].name = name}
        us == Units(S, first)
        found == {i \in Found(us, 0, "deleted") : IsEntry(us[i + 1]) /\ us[i + 1].name = name}
    IN  IF slots # {} THEN LET e == CHOOSE e \in slots : TRUE
                           IN  [slot |-> e, entry |-> EntryOf(S.ent[e])]
        ELSE [slot |-> 0, entry |-> IF found # {} THEN us[Min(found) + 1] ELSE NoEntry]

EntryAt(S, path) ==
    LET one == Lookup(S, Root, S.ent[Root].first, path[1])
    IN  IF Len(path) = 1 THEN one.entry
        ELSE IF one.entry.k # "dir" THEN NoEntry
        ELSE Lookup(S, one.slot, one.entry.first, path[2]).entry

TreeOf(S) ==
    [p \in Paths |->
        LET x == EntryAt(S, p)
            us == Units(S, x.first)
        IN  [kind |-> x.k,
             units |-> IF x.k = "file" THEN [i \in 1 .. x.size |-> us[i].name] ELSE <<>>]]

-----------------------------------------------------------------------------
Init ==
    /\ fs = [ent |-> [e \in Slot |-> IF e = Root THEN FreshRoot ELSE Blank],
             lru |-> [i \in Slot |-> i], panic |-> FALSE,
             fat |-> DiskFat, data |-> DiskData]
    /\ de = (<<>> :> [ent |-> Root, subs |-> {}])
    /\ opened = {}
    /\ tree = TreeOf(fs)

-----------------------------------------------------------------------------
\* V: the file system and the DEntries during a call, and its success.
Failed(V, S) == [V EXCEPT !.s = S, !.ok = FALSE]

\* The INode r becomes a DEntry, if there is one.
Adopt(V, p, name, r) ==
    IF r.e = 0 THEN Failed(V, r.s)
    ELSE [V EXCEPT !.s = r.s,
                   !.de = (Append(p, name) :> [ent |-> r.e, subs |-> {}]) @@
                          [V.de EXCEPT ![p].subs = @ \cup {name}]]

IsDir(V, p) == V.s.ent[V.de[p].ent].dir

\* DEntry::entSearch, in the DEntry p.
Child(V, p, name) ==
    IF ~V.ok \/ ~IsDir(V, p) THEN Failed(V, V.s)
    ELSE IF Append(p, name) \in DOMAIN V.de THEN V
    ELSE Adopt(V, p, name, entSearch(V.s, V.de[p].ent, name))

\* pathSearch.
RECURSIVE Walk(_, _)
Walk(V, path) ==
    IF path = <<>> THEN [V EXCEPT !.ok = TRUE]
    ELSE Child(Walk(V, Front(path)), Front(path), Last(path))

\* The DEntries nothing refers to any more go, a child before its parent.
RECURSIVE Settle(_, _)
Settle(V, pins) ==
    LET gone == DOMAIN V.de \ Live(pins)
        p == CHOOSE p \in gone : \A q \in gone : Len(q) <= Len(p)
    IN  IF gone = {} THEN V
        ELSE Settle([V EXCEPT !.s = entRelse(V.s, V.de[p].ent),
                              !.de = [q \in DOMAIN V.de \ {p} |-> V.de[q]]], pins)

\* DEntry::entCreate: a name that was ever cached is refused.
CreateIn(V, p, name, dir) ==
    IF ~V.ok \/ ~IsDir(V, p) \/ name \in V.de[p].subs THEN Failed(V, V.s)
    ELSE Adopt(V, p, name, entCreate(V.s, V.de[p].ent, name, dir))

\* pathCreate: what exists must be of the kind asked for.
OfKind(V, path, dir) == IF V.ok /\ IsDir(V, path) # dir THEN Failed(V, V.s) ELSE V

Create(V, path, dir) ==
    OfKind(CreateIn(Walk(V, Front(path)), Front(path), Last(path), dir), path, dir)

Now == [s |-> fs, de |-> de, ok |-> TRUE]

Becomes(V) == fs' = V.s /\ de' = V.de

Panicked == fs.panic

\* A panic stops the kernel in the middle of the call.
Return(V, pins) ==
    /\ IF V.s.panic THEN fs' = [fs EXCEPT !.panic = TRUE] /\ UNCHANGED <<de, opened>>
       ELSE Becomes(Settle(V, pins)) /\ opened' = pins
    /\ tree' = TreeOf(fs')

-----------------------------------------------------------------------------
(***************************************************************************)
(* The calls.                                                              *)
(***************************************************************************)
\* pathOpen; flags are O_CREAT and O_TRUNC, which ask for writing.
FoundOrMade(V, path, creat) ==
    IF V.ok \/ V.s.panic \/ ~creat THEN V ELSE Create(Settle(V, opened), path, FALSE)

Opened(V, path, creat, trunc) ==
    IF ~V.ok \/ V.s.panic \/ (IsDir(V, path) /\ (creat \/ trunc)) THEN Return(V, opened)
    ELSE Return(IF trunc THEN [V EXCEPT !.s = entTrunc(V.s, V.de[path].ent)] ELSE V,
                opened \cup {path})

openAt(path, creat, trunc) ==
    /\ ~Panicked
    /\ Opened(FoundOrMade(Walk(Now, path), path, creat), path, creat, trunc)

mkDirAt(path) ==
    /\ ~Panicked
    /\ Return(Create(Now, path, TRUE), opened)

\* pathRemove
RemoveEntry(S, e) ==
    IF ~S.ent[e].dir THEN entRemove(S, e)
    ELSE IF isEmpty(S, e) THEN entRemove(LookedInto(S, e), e)
    ELSE LookedInto(S, e)

\* pathHardUnlink
Unlinked(V, path) ==
    IF ~V.ok THEN V
    ELSE [V EXCEPT !.s = RemoveEntry(entUnlink(V.s, V.de[path].ent), V.de[path].ent)]

unlinkAt(path) ==
    /\ ~Panicked
    /\ Return(Unlinked(Walk(Now, path), path), opened)

\* fStatAt, and every other call that only looks a path up.
fStatAt(path) ==
    /\ ~Panicked
    /\ Return(Walk(Now, path), opened)

\* Files read and write by their DEntry, at any offset lSeek allows.
OpenFile(path) == ~Panicked /\ path \in opened /\ ~IsDir(Now, path)

read(path, off) ==
    /\ OpenFile(path)
    /\ Return([Now EXCEPT !.s = entRead(fs, de[path].ent, off)], opened)

write(path, off, v) ==
    /\ OpenFile(path) /\ off < MaxSize
    /\ Return([Now EXCEPT !.s = entWrite(fs, de[path].ent, off, v)], opened)

getDents64(path, off) ==
    /\ ~Panicked /\ path \in opened /\ IsDir(Now, path)
    /\ \A e \in Slot : fs.ent[e].ref <= MaxRef
    /\ Return([Now EXCEPT !.s = readDir(fs, de[path].ent, off)], opened)

Next ==
    \E path \in Paths :
        \/ fStatAt(path) \/ mkDirAt(path) \/ unlinkAt(path)
        \/ \E creat, trunc \in BOOLEAN : openAt(path, creat, trunc)
        \/ \E off \in 0 .. MaxSize : read(path, off) \/ getDents64(path, off)
        \/ \E off \in 0 .. MaxSize, v \in Values : write(path, off, v)

Spec == Init /\ [][Next]_vars

-----------------------------------------------------------------------------
T == INSTANCE FileTree WITH tree <- tree

(***************************************************************************)
(* The file system is a tree: what paths lead to, by the cache and by the  *)
(* disk together, changes only by the call that is made, whatever was      *)
(* evicted, reused or written late in between.                             *)
(***************************************************************************)
ImplementsFileTree == T!Spec

(***************************************************************************)
(* Every cluster in use belongs to exactly one file or directory, those    *)
(* that are removed and still referred to included; no free one does.      *)
(***************************************************************************)
ClustersExact ==
    LET removed == {e \in Slot : fs.ent[e].valid = -1}
        named == {p \in Paths : EntryAt(fs, p).k # "none"}
        In(c, first) == c \in Range(Chain(fs.fat, first))
        Owners(c) == Cardinality({e \in removed \cup {Root} : In(c, fs.ent[e].first)})
                     + Cardinality({p \in named : In(c, EntryAt(fs, p).first)})
    IN  \A c \in Data : Owners(c) = IF fs.fat[c] = 0 THEN 0 ELSE 1

(***************************************************************************)
(* A cached entry is the one its directory holds at its offset: the slot   *)
(* of the directory is not used for another, no second slot stands for     *)
(* it, and what differs is marked dirty, which only a referenced one is.   *)
(***************************************************************************)
CachedTrue ==
    \A e \in Slot \ {Root} :
        LET x == fs.ent[e]
            us == Units(fs, fs.ent[x.parent].first)
        IN  x.valid = 1 /\ x.name # "" =>
            /\ fs.ent[x.parent].valid = 1 /\ fs.ent[x.parent].dir
            /\ x.off < Len(us) /\ us[x.off + 1].name = x.name
            /\ IF x.dirty THEN x.ref > 0 ELSE us[x.off + 1] = EntryOf(x)
            /\ \A f \in Slot \ {e} :
                fs.ent[f].valid = 1 /\ fs.ent[f].parent = x.parent => fs.ent[f].name # x.name

(***************************************************************************)
(* A DEntry keeps its slot: while it lives, the slot stands for its name   *)
(* in the directory of its parent, be it removed or not.                   *)
(***************************************************************************)
DEntryKept ==
    \A p \in DOMAIN de \ {<<>>} :
        LET x == fs.ent[de[p].ent]
        IN  /\ x.ref > 0 /\ x.valid # 0 /\ x.name = Last(p)
            /\ Front(p) \in DOMAIN de /\ x.parent = de[Front(p)].ent

(***************************************************************************)
(* The place last used, kept by relocClus, is the one counted: reads and   *)
(* writes that start from it go to the cluster the chain has there.        *)
(***************************************************************************)
PlaceExact ==
    \A e \in Slot :
        LET x == fs.ent[e]
            c == Chain(fs.fat, x.first)
        IN  x.valid # 0 /\ x.first # 0 => x.cnt < Len(c) /\ x.cur = c[x.cnt + 1]
=============================================================================
