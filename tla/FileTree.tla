------------------------------ MODULE FileTree -------------------------------
(***************************************************************************)
(* What the file system promises: a tree of directories and files, changed *)
(* only by the calls that say so.                                          *)
(***************************************************************************)
EXTENDS Sequences, Naturals

CONSTANTS
    Paths,      \* sequences of names, not empty
    Values      \* what a unit of a file may hold

VARIABLE tree   \* what each path leads to

Nothing == [kind |-> "none", units |-> <<>>]
Dir == [kind |-> "dir", units |-> <<>>]
File(units) == [kind |-> "file", units |-> units]

Parent(p) == SubSeq(p, 1, Len(p) - 1)
Children(p) == {q \in Paths : Len(q) = Len(p) + 1 /\ Parent(q) = p}

Init ==
    /\ DOMAIN tree = Paths
    /\ \A p \in Paths :
        /\ \/ tree[p] \in {Nothing, Dir}
           \/ tree[p] = File(tree[p].units) /\ tree[p].units \in Seq(Values)
        /\ tree[p] # Nothing /\ Len(p) > 1 => tree[Parent(p)] = Dir

Create(p, node) ==
    /\ tree[p] = Nothing /\ node \in {Dir, File(<<>>)}
    /\ Len(p) > 1 => tree[Parent(p)] = Dir
    /\ tree' = [tree EXCEPT ![p] = node]

Write(p, i, v) ==
    /\ tree[p].kind = "file" /\ i <= Len(tree[p].units) + 1
    /\ tree' = [tree EXCEPT ![p] =
                    File(IF i <= Len(@.units) THEN [@.units EXCEPT ![i] = v] ELSE Append(@.units, v))]

Truncate(p) ==
    /\ tree[p].kind = "file"
    /\ tree' = [tree EXCEPT ![p] = File(<<>>)]

Remove(p) ==
    /\ tree[p] # Nothing /\ \A q \in Children(p) : tree[q] = Nothing
    /\ tree' = [tree EXCEPT ![p] = Nothing]

Next ==
    \E p \in Paths :
        \/ Create(p, Dir) \/ Create(p, File(<<>>))
        \/ Truncate(p) \/ Remove(p)
        \/ \E v \in Values, i \in 1 .. Len(tree[p].units) + 1 : Write(p, i, v)

Spec == Init /\ [][Next]_tree
=============================================================================
