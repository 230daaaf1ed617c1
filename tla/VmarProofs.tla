----------------------------- MODULE VmarProofs ------------------------------
(***************************************************************************)
(* Memory is memory, for any number of processes, pages and VMOs, as long  *)
(* as programs keep to what the code supports: a region that munmap,       *)
(* mremap or mprotect cuts begins no mapping in the middle, the heap grows *)
(* by pages, and a forked child calls execve before it maps anything.      *)
(*                                                                         *)
(* The argument goes by what each page holds: Mem of a set of mappings is  *)
(* the entry pfhandler would make for a page.  The operators of VMAR are   *)
(* described by what they do to Mem, and the invariant speaks of Mem only. *)
(***************************************************************************)
EXTENDS Vmar, TLAPS

Entry == [vmo : Int, off : Int, perm : Perms \cup {"none"}]

\* A mapping of at least one page, all of them user pages.
Proper ==
    {m \in [vpn : Pages, len : Nat \ {0}, offset : Nat, vmo : VmoIds, perm : Perms] :
        vend(m) <= MaxPage}

Apart(S) ==
    /\ S \subseteq Proper
    /\ \A m, n \in S : m # n => vend(m) < n.vpn \/ vend(n) < m.vpn

Mem(S, x) == IF find(S, x) = NoMapping THEN Invalid ELSE Frame(find(S, x), x)

Space == [mappings : SUBSET Proper, pagetable : [Pages -> Entry]]

\* No overlap, and no page table entry but those pfhandler would make.
Sound(a) ==
    /\ a \in Space
    /\ Apart(a.mappings)
    /\ \A x \in Pages : a.pagetable[x] # Invalid => a.pagetable[x] = Mem(a.mappings, x)

\* Arithmetic of a proper mapping.
LEMMA ProperIs ==
    ASSUME NEW m \in Proper
    PROVE  /\ m.vpn \in Pages /\ m.vpn \in Nat /\ m.vpn >= 1
           /\ m.len \in Nat /\ m.len >= 1 /\ m.offset \in Nat
           /\ m.vmo \in VmoIds /\ m.vmo \in Nat /\ m.vmo # 0 /\ m.perm \in Perms
           /\ vend(m) = m.vpn + m.len - 1 /\ vend(m) \in Nat /\ m.vpn <= vend(m) /\ vend(m) <= MaxPage
           /\ \A x : x \in vsegment(m) <=> x \in Nat /\ m.vpn <= x /\ x <= vend(m)
           /\ \A x \in vsegment(m) : x \in Pages
  BY SizeAssumption DEF Proper, vend, vsegment, Pages, VmoIds

\* VMAR::find finds the mapping that contains the page.
LEMMA FindIs ==
    ASSUME NEW S, Apart(S), NEW x \in Pages
    PROVE  /\ \A m \in S : x \in vsegment(m) => find(S, x) = m
           /\ ~contains(S, x) => find(S, x) = NoMapping
           /\ find(S, x) # NoMapping => find(S, x) \in S /\ x \in vsegment(find(S, x))
<1> DEFINE before == {m \in S : m.vpn <= x}
           last == {m \in before : \A o \in before : o.vpn <= m.vpn}
           found == {m \in last : x \in vsegment(m)}
<1>1. find(S, x) = IF found = {} THEN NoMapping ELSE CHOOSE m \in found : TRUE
  BY Zenon DEF find
<1>2. found \subseteq S /\ \A m \in found : x \in vsegment(m)
  BY Zenon
<1>3. ASSUME NEW m \in S, x \in vsegment(m)
      PROVE  found = {m}
  <2>1. /\ m \in Proper /\ m.vpn \in Nat /\ m.vpn <= x /\ x <= vend(m) /\ vend(m) \in Nat /\ x \in Nat
    BY <1>3, ProperIs, Zenon DEF Apart
  <2>2. ASSUME NEW o \in before, o # m
        PROVE  o.vpn <= m.vpn /\ x \notin vsegment(o)
    <3>1. o \in Proper /\ o.vpn <= x /\ (vend(m) < o.vpn \/ vend(o) < m.vpn)
      BY <2>2, Zenon DEF Apart
    <3>2. /\ o.vpn \in Nat /\ vend(o) \in Nat /\ o.vpn <= vend(o)
          /\ x \in vsegment(o) => x <= vend(o)
      BY <3>1, ProperIs, Zenon
    <3> QED
      BY <2>1, <3>1, <3>2
  <2>3. m \in last
    BY <2>1, <2>2
  <2> QED
    BY <1>3, <2>2, <2>3, Zenon
<1> HIDE DEF found
<1>4. \A m \in S : x \in vsegment(m) => find(S, x) = m
  BY <1>1, <1>3
<1>5. ~contains(S, x) => found = {}
  BY <1>2, Zenon DEF contains
<1>6. found # {} => (CHOOSE m \in found : TRUE) \in found
  BY Zenon
<1> QED
  BY <1>1, <1>2, <1>4, <1>5, <1>6, Zenon

\* Mem is the entry of the mapping that contains the page, or Invalid.
LEMMA MemIs ==
    ASSUME NEW S, Apart(S), NEW x \in Pages
    PROVE  /\ \A m \in S : x \in vsegment(m) => Mem(S, x) = Frame(m, x)
           /\ ~contains(S, x) => Mem(S, x) = Invalid
           /\ Mem(S, x) # Invalid => \E m \in S : x \in vsegment(m) /\ Mem(S, x) = Frame(m, x)
<1>1. \A m \in S : x \in vsegment(m) => Mem(S, x) = Frame(m, x)
  <2> SUFFICES ASSUME NEW m \in S, x \in vsegment(m)
               PROVE  Mem(S, x) = Frame(m, x)
    BY Zenon
  <2>1. find(S, x) = m
    BY FindIs, Zenon
  <2>2. m # NoMapping
    BY ProperIs DEF Apart, NoMapping
  <2> QED
    BY <2>1, <2>2, Zenon DEF Mem
<1>2. ~contains(S, x) => Mem(S, x) = Invalid
  BY FindIs, Zenon DEF Mem
<1>3. Mem(S, x) # Invalid => contains(S, x)
  BY <1>2, Zenon
<1> QED
  BY <1>1, <1>2, <1>3, Zenon DEF contains

\* The fields of the entry a mapping makes.
LEMMA FrameIs ==
    ASSUME NEW m \in Proper, NEW x \in vsegment(m)
    PROVE  /\ Frame(m, x) \in Entry /\ Frame(m, x) # Invalid
           /\ Frame(m, x).vmo = m.vmo /\ Frame(m, x).perm = m.perm
           /\ Frame(m, x).off = m.offset + (x - m.vpn)
           /\ Frame(m, x).off \in Nat
           /\ Frame(m, x).off >= m.offset /\ Frame(m, x).off <= m.offset + m.len - 1
<1>1. /\ m.vpn \in Nat /\ m.len \in Nat /\ m.offset \in Nat /\ m.vmo \in Nat /\ m.vmo # 0
      /\ m.perm \in Perms /\ vend(m) = m.vpn + m.len - 1
      /\ x \in Nat /\ m.vpn <= x /\ x <= vend(m)
  BY ProperIs, Zenon
<1>2. m.offset + x - m.vpn = m.offset + (x - m.vpn)
  BY <1>1, Zenon
<1>3. Frame(m, x).vmo = m.vmo /\ Frame(m, x).perm = m.perm /\ Frame(m, x).off = m.offset + x - m.vpn
  BY Zenon DEF Frame
<1>4. Frame(m, x) \in Entry
  BY <1>1 DEF Frame, Entry
<1>5. Invalid.vmo = 0
  BY Zenon DEF Invalid
<1>6. Frame(m, x) # Invalid
  BY <1>1, <1>3, <1>5, Zenon
<1> QED
  BY <1>1, <1>2, <1>3, <1>4, <1>6

\* Entries are Invalid or have a VMO.
LEMMA MemType ==
    ASSUME NEW S, Apart(S), NEW x \in Pages
    PROVE  /\ Mem(S, x) \in Entry
           /\ Mem(S, x) # Invalid => /\ Mem(S, x).vmo \in VmoIds /\ Mem(S, x).off \in Nat
                                     /\ Mem(S, x).perm \in Perms
                                     /\ \E m \in S : Mem(S, x).vmo = m.vmo
<1>1. Invalid \in Entry
  BY DEF Invalid, Entry
<1>2. CASE Mem(S, x) # Invalid
  <2>1. PICK m \in S : x \in vsegment(m) /\ Mem(S, x) = Frame(m, x)
    BY <1>2, MemIs, Zenon
  <2>2. m \in Proper
    BY Zenon DEF Apart
  <2> QED
    BY <2>1, <2>2, FrameIs, ProperIs, Zenon
<1> QED
  BY <1>1, <1>2, Zenon

(***************************************************************************)
(* Cutting one mapping.  When the mapping m gives way to parts N of it,    *)
(* the pages of the parts hold what m had there but for the permission,    *)
(* the other pages of m nothing, and all others what they held.            *)
(***************************************************************************)
Part(n, m) ==
    /\ n \in Proper /\ m.vpn <= n.vpn /\ vend(n) <= vend(m)
    /\ n.vmo = m.vmo /\ n.offset - n.vpn = m.offset - m.vpn

AllParts(N, m) == Apart(N) /\ \A n \in N : Part(n, m)

Replaced(a, m, N, c) ==
    /\ c \in Space
    /\ c.mappings = (a.mappings \ {m}) \cup N
    /\ \A x \in Pages : x \notin vsegment(m) => c.pagetable[x] = a.pagetable[x]
    /\ \A x \in Pages : x \in vsegment(m) =>
          \/ c.pagetable[x] = Invalid
          \/ \E n \in N : x \in vsegment(n) /\ c.pagetable[x] = Frame(n, x)

\* Mappings can be taken out and others put in their place, as unmap and protect do.
LEMMA ReplaceSound ==
    ASSUME NEW a, Sound(a), NEW m \in a.mappings, NEW N, AllParts(N, m),
           NEW c, Replaced(a, m, N, c)
    PROVE  /\ Sound(c)
           /\ \A x \in Pages : x \notin vsegment(m) => Mem(c.mappings, x) = Mem(a.mappings, x)
           /\ \A n \in N, x \in Pages : x \in vsegment(n) =>
                 /\ x \in vsegment(m)
                 /\ Mem(c.mappings, x) = Frame(n, x)
           /\ \A x \in Pages : x \in vsegment(m) /\ (\A n \in N : x \notin vsegment(n)) =>
                 Mem(c.mappings, x) = Invalid
<1> DEFINE S == a.mappings
           R == c.mappings
<1> USE DEF AllParts, Replaced
<1>1. Apart(S) /\ a \in Space /\ m \in Proper
  BY Zenon DEF Sound, Apart
<1>2. \A n \in N : /\ n \in Proper /\ m.vpn <= n.vpn /\ vend(n) <= vend(m)
                   /\ \A x \in vsegment(n) : x \in vsegment(m)
  <2> TAKE n \in N
  <2>1. n \in Proper /\ m.vpn <= n.vpn /\ vend(n) <= vend(m)
    BY Zenon DEF Part
  <2> QED
    BY <1>1, <2>1, ProperIs
<1>3. Apart(R)
  <2>1. R \subseteq Proper
    BY <1>1, <1>2, Zenon DEF Apart
  <2>2. ASSUME NEW o \in S, o # m, NEW n \in N
        PROVE  vend(o) < n.vpn \/ vend(n) < o.vpn
    <3>1. vend(o) < m.vpn \/ vend(m) < o.vpn
      BY <1>1, <2>2, Zenon DEF Apart
    <3>2. /\ o \in Proper
          /\ vend(o) \in Nat /\ o.vpn \in Nat /\ vend(m) \in Nat /\ m.vpn \in Nat
          /\ vend(n) \in Nat /\ n.vpn \in Nat
      BY <1>1, <1>2, ProperIs, Zenon DEF Apart
    <3> QED
      BY <1>2, <3>1, <3>2
  <2>3. ASSUME NEW o \in R, NEW n \in R, o # n
        PROVE  vend(o) < n.vpn \/ vend(n) < o.vpn
    <3>1. (o \in S /\ o # m) \/ o \in N
      BY Zenon
    <3>2. (n \in S /\ n # m) \/ n \in N
      BY Zenon
    <3> QED
      BY <1>1, <2>2, <2>3, <3>1, <3>2, Zenon DEF Apart
  <2> QED
    BY <2>1, <2>3, Zenon DEF Apart
<1>4. ASSUME NEW x \in Pages, x \notin vsegment(m)
      PROVE  Mem(R, x) = Mem(S, x)
  <2>1. CASE Mem(S, x) # Invalid
    <3>1. PICK o \in S : x \in vsegment(o) /\ Mem(S, x) = Frame(o, x)
      BY <1>1, <2>1, MemIs, Zenon
    <3>2. o \in R
      BY <1>4, <3>1, Zenon
    <3> QED
      BY <1>3, <3>1, <3>2, MemIs
  <2>2. CASE Mem(S, x) = Invalid
    <3>1. \A o \in S : x \notin vsegment(o)
      <4> SUFFICES ASSUME NEW o \in S, x \in vsegment(o)
                   PROVE  FALSE
        BY Zenon
      <4>1. Mem(S, x) = Frame(o, x) /\ o \in Proper
        BY <1>1, MemIs DEF Apart
      <4> QED
        BY <2>2, <4>1, FrameIs, Zenon
    <3>2. \A o \in R : x \notin vsegment(o)
      BY <1>2, <1>4, <3>1, Zenon
    <3> QED
      BY <1>3, <2>2, <3>2, MemIs, Zenon DEF contains
  <2> QED
    BY <2>1, <2>2, Zenon
<1>5. ASSUME NEW n \in N, NEW x \in Pages, x \in vsegment(n)
      PROVE  x \in vsegment(m) /\ Mem(R, x) = Frame(n, x)
  BY <1>2, <1>3, <1>5, MemIs
<1>6. ASSUME NEW x \in Pages, x \in vsegment(m), \A n \in N : x \notin vsegment(n)
      PROVE  Mem(R, x) = Invalid
  <2>1. \A o \in S : o # m => x \notin vsegment(o)
    <3> SUFFICES ASSUME NEW o \in S, o # m, x \in vsegment(o)
                 PROVE  FALSE
      BY Zenon
    <3>1. o \in Proper /\ (vend(o) < m.vpn \/ vend(m) < o.vpn)
      BY <1>1, Zenon DEF Apart
    <3> QED
      BY <1>1, <1>6, <3>1, ProperIs
  <2>2. ~contains(R, x)
    BY <1>6, <2>1, Zenon DEF contains
  <2> QED
    BY <1>3, <2>2, MemIs, Zenon
<1>7. ASSUME NEW x \in Pages, c.pagetable[x] # Invalid
      PROVE  c.pagetable[x] = Mem(R, x)
  <2>1. CASE x \in vsegment(m)
    BY <1>5, <1>7, <2>1, Zenon
  <2>2. CASE x \notin vsegment(m)
    BY <1>4, <1>7, <2>2, Zenon DEF Sound
  <2> QED
    BY <2>1, <2>2, Zenon
<1> HIDE DEF S, R
<1> QED
  BY <1>3, <1>4, <1>5, <1>6, <1>7, Zenon DEF S, R, Sound

-----------------------------------------------------------------------------
\* PageMapping::splitChild of a segment of the mapping.
LEMMA SplitIs ==
    ASSUME NEW m \in Proper, NEW l \in Nat, NEW r \in Nat, NEW perm \in Perms,
           m.vpn <= l, l <= r, r <= vend(m)
    PROVE  LET s == splitChild(m, l, r, perm)
           IN  /\ Part(s, m) /\ s.vpn = l /\ vend(s) = r /\ s.perm = perm
               /\ \A x : x \in vsegment(s) <=> x \in l .. r
               /\ \A x \in l .. r : Frame(s, x) = [Frame(m, x) EXCEPT !.perm = perm]
<1> DEFINE s == splitChild(m, l, r, perm)
<1>1. /\ m.vpn \in Nat /\ m.vpn >= 1 /\ m.offset \in Nat /\ m.vmo \in VmoIds /\ vend(m) \in Nat
      /\ vend(m) <= MaxPage
  BY ProperIs, Zenon
<1>2. /\ s \in [vpn : Pages, len : Nat \ {0}, offset : Nat, vmo : VmoIds, perm : Perms]
      /\ s.vpn = l /\ s.len = r - l + 1 /\ s.offset = m.offset + l - m.vpn
      /\ s.vmo = m.vmo /\ s.perm = perm
  BY <1>1, SizeAssumption DEF splitChild, Pages
<1> HIDE DEF s
<1>3. vend(s) = r
  BY <1>1, <1>2 DEF vend
<1>4. s \in Proper
  BY <1>1, <1>2, <1>3, SizeAssumption DEF Proper
<1>5. Part(s, m)
  BY <1>1, <1>2, <1>3, <1>4 DEF Part
<1>6. \A x : x \in vsegment(s) <=> x \in l .. r
  BY <1>2, <1>3, Zenon DEF vsegment
<1>7. ASSUME NEW x \in l .. r
      PROVE  Frame(s, x) = [Frame(m, x) EXCEPT !.perm = perm]
  <2>1. s.offset + x - s.vpn = m.offset + x - m.vpn
    BY <1>1, <1>2
  <2>2. Frame(s, x) = [vmo |-> m.vmo, off |-> m.offset + x - m.vpn, perm |-> perm]
    BY <1>2, <2>1, Zenon DEF Frame
  <2> QED
    BY <2>2 DEF Frame
<1> QED
  BY <1>2, <1>3, <1>5, <1>6, <1>7, Zenon DEF s

\* What a page is left with: nothing after unmap, the new permission after
\* protect.
Target(f, perm) ==
    IF f = Invalid \/ perm = "none" THEN Invalid ELSE [f EXCEPT !.perm = perm]

CutOne(a, m, l, r, perm) ==
    IF perm = "none" THEN UnmapOne(a, m, l, r) ELSE ProtectOne(a, m, l, r, perm)

Right(m, r) == splitChild(m, r + 1, vend(m), m.perm)

New(m, r, perm) == splitChild(m, m.vpn, smaller(vend(m), r), perm)

Parts(m, r, perm) ==
    {n \in {Right(m, r)} : r < vend(m)} \cup {n \in {New(m, r, perm)} : perm # "none"}

\* The parts of a mapping that is cut from its beginning.
LEMMA PartsAre ==
    ASSUME NEW m \in Proper, NEW r \in Nat, m.vpn <= r, NEW perm \in Perms \cup {"none"}
    PROVE  /\ AllParts(Parts(m, r, perm), m)
           /\ r < vend(m) => /\ Part(Right(m, r), m) /\ Right(m, r).vpn = r + 1
                             /\ \A x : x \in vsegment(Right(m, r)) <=> x \in r + 1 .. vend(m)
                             /\ \A x \in r + 1 .. vend(m) : Frame(Right(m, r), x) = Frame(m, x)
           /\ perm # "none" => LET new == New(m, r, perm)
                               IN  /\ Part(new, m) /\ new.vpn = m.vpn /\ new.perm = perm
                                   /\ \A x : x \in vsegment(new) <=> x \in m.vpn .. vend(m) /\ x <= r
                                   /\ \A x \in vsegment(new) :
                                        Frame(new, x) = [Frame(m, x) EXCEPT !.perm = perm]
<1>1. m.vpn \in Nat /\ vend(m) \in Nat /\ m.vpn <= vend(m) /\ m.perm \in Perms
  BY ProperIs, Zenon
<1>2. ASSUME r < vend(m)
      PROVE  /\ Part(Right(m, r), m) /\ Right(m, r).vpn = r + 1 /\ vend(Right(m, r)) = vend(m)
             /\ \A x : x \in vsegment(Right(m, r)) <=> x \in r + 1 .. vend(m)
             /\ \A x \in r + 1 .. vend(m) : Frame(Right(m, r), x) = Frame(m, x)
  <2> DEFINE h == r + 1
             e == vend(m)
             perm0 == m.perm
  <2>1. h \in Nat /\ e \in Nat /\ perm0 \in Perms /\ m.vpn <= h /\ h <= e /\ e <= vend(m)
    BY <1>1, <1>2
  <2>2. /\ Part(Right(m, r), m) /\ Right(m, r).vpn = r + 1 /\ vend(Right(m, r)) = vend(m)
        /\ \A x : x \in vsegment(Right(m, r)) <=> x \in r + 1 .. vend(m)
        /\ \A x \in r + 1 .. vend(m) : Frame(Right(m, r), x) = [Frame(m, x) EXCEPT !.perm = m.perm]
    <3> HIDE DEF h, e, perm0
    <3>1. LET s == splitChild(m, h, e, perm0)
          IN  /\ Part(s, m) /\ s.vpn = h /\ vend(s) = e
              /\ \A x : x \in vsegment(s) <=> x \in h .. e
              /\ \A x \in h .. e : Frame(s, x) = [Frame(m, x) EXCEPT !.perm = perm0]
      BY <2>1, SplitIs
    <3> QED
      BY <3>1, Zenon DEF Right, h, e, perm0
  <2>3. \A x : [Frame(m, x) EXCEPT !.perm = m.perm] = Frame(m, x)
    BY DEF Frame
  <2> QED
    BY <2>2, <2>3, Zenon
<1>3. ASSUME perm # "none"
      PROVE  LET new == New(m, r, perm)
             IN  /\ Part(new, m) /\ new.vpn = m.vpn /\ new.perm = perm /\ vend(new) <= r
                 /\ \A x : x \in vsegment(new) <=> x \in m.vpn .. vend(m) /\ x <= r
                 /\ \A x \in vsegment(new) : Frame(new, x) = [Frame(m, x) EXCEPT !.perm = perm]
  <2> DEFINE e == smaller(vend(m), r)
  <2>1. e \in Nat /\ m.vpn <= e /\ e <= vend(m) /\ e <= r /\ (e = vend(m) \/ e = r)
    BY <1>1 DEF smaller
  <2>2. /\ Part(New(m, r, perm), m) /\ New(m, r, perm).vpn = m.vpn /\ New(m, r, perm).perm = perm
        /\ vend(New(m, r, perm)) = e
        /\ \A x : x \in vsegment(New(m, r, perm)) <=> x \in m.vpn .. e
        /\ \A x \in m.vpn .. e : Frame(New(m, r, perm), x) = [Frame(m, x) EXCEPT !.perm = perm]
    <3>1. perm \in Perms /\ m.vpn <= m.vpn
      BY <1>1, <1>3
    <3> HIDE DEF e
    <3> QED
      BY <1>1, <2>1, <3>1, SplitIs DEF New, e
  <2>3. \A x : x \in m.vpn .. e <=> x \in m.vpn .. vend(m) /\ x <= r
    BY <1>1, <2>1
  <2> QED
    BY <2>1, <2>2, <2>3, Zenon
<1>4. \A n \in Parts(m, r, perm) : Part(n, m)
  BY <1>2, <1>3, Zenon DEF Parts
<1>5. Apart(Parts(m, r, perm))
  <2>1. Parts(m, r, perm) \subseteq Proper
    BY <1>4, Zenon DEF Part
  <2>2. ASSUME r < vend(m), perm # "none"
        PROVE  vend(New(m, r, perm)) < Right(m, r).vpn
    <3>1. vend(New(m, r, perm)) \in Nat
      BY <1>3, <2>2, ProperIs, Zenon DEF Part
    <3> QED
      BY <1>2, <1>3, <2>2, <3>1
  <2>3. \A n, o \in Parts(m, r, perm) : n # o => vend(n) < o.vpn \/ vend(o) < n.vpn
    BY <2>2, Zenon DEF Parts
  <2> QED
    BY <2>1, <2>3, Zenon DEF Apart
<1> QED
  BY <1>2, <1>3, <1>4, <1>5, Zenon DEF AllParts

\* The part behind the region is the only one that MapSides adds.
LEMMA SidesAre ==
    ASSUME NEW a \in Space, Apart(a.mappings), NEW m \in a.mappings,
           NEW l \in Nat, NEW r \in Nat, l <= m.vpn, m.vpn <= r
    PROVE  LET s == MapSides(a, m, l, r)
           IN  /\ s \in Space
               /\ s.mappings = a.mappings \cup {n \in {Right(m, r)} : r < vend(m)}
               /\ \A x \in Pages : s.pagetable[x] =
                     IF r < vend(m) /\ x \in vsegment(Right(m, r))
                     THEN Frame(Right(m, r), x) ELSE a.pagetable[x]
<1> DEFINE R == Right(m, r)
<1>1. m \in Proper /\ m.vpn \in Nat /\ vend(m) \in Nat /\ ~(m.vpn < l)
  BY ProperIs DEF Apart
<1>2. MapSides(a, m, l, r) = IF r < vend(m) THEN map(a, R) ELSE a
  BY <1>1, Zenon DEF MapSides, Right
<1>3. CASE r < vend(m)
  <2>1. Part(R, m) /\ R.vpn = r + 1 /\ \A x : x \in vsegment(R) <=> x \in r + 1 .. vend(m)
    BY <1>1, <1>3, PartsAre, Zenon
  <2> HIDE DEF R
  <2>2. ~ \E o \in a.mappings : o.vpn = R.vpn
    <3> SUFFICES ASSUME NEW o \in a.mappings, o.vpn = r + 1
                 PROVE  FALSE
      BY <2>1, Zenon
    <3>1. o # m
      BY <1>1
    <3>2. o \in Proper /\ (vend(o) < m.vpn \/ vend(m) < o.vpn)
      BY <3>1, Zenon DEF Apart
    <3>3. vend(o) \in Nat /\ o.vpn <= vend(o)
      BY <3>2, ProperIs, Zenon
    <3> QED
      BY <1>1, <1>3, <3>2, <3>3
  <2>3. insert(a.mappings, R) = a.mappings \cup {R}
    BY <2>2, Zenon DEF insert
  <2>4. R \in Proper /\ a.mappings \in SUBSET Proper /\ a.pagetable \in [Pages -> Entry]
    BY <2>1, Zenon DEF Part, Space
  <2>5. /\ createMapping(a.pagetable, R) \in [Pages -> Entry]
        /\ \A x \in Pages : createMapping(a.pagetable, R)[x] =
              IF x \in vsegment(R) THEN Frame(R, x) ELSE a.pagetable[x]
    BY <2>4, FrameIs, Zenon DEF createMapping
  <2>6. MapSides(a, m, l, r) = [mappings |-> a.mappings \cup {R}, pagetable |-> createMapping(a.pagetable, R)]
    BY <1>2, <1>3, <2>3, Zenon DEF map
  <2>7. /\ MapSides(a, m, l, r).mappings = a.mappings \cup {R}
        /\ MapSides(a, m, l, r).pagetable = createMapping(a.pagetable, R)
        /\ MapSides(a, m, l, r) \in Space
    <3> HIDE DEF createMapping
    <3> QED
      BY <2>4, <2>5, <2>6 DEF Space
  <2> QED
    BY <1>3, <2>5, <2>7, Zenon DEF R
<1>4. CASE ~(r < vend(m))
  BY <1>2, <1>4, Zenon
<1> QED
  BY <1>3, <1>4, Zenon

\* One round of the loop of unmap or protect cuts the mapping into Parts.
LEMMA CutOneIs ==
    ASSUME NEW b, Sound(b), NEW m \in b.mappings, NEW perm \in Perms \cup {"none"},
           NEW l \in Nat, NEW r \in Nat, l <= m.vpn, m.vpn <= r
    PROVE  Replaced(b, m, Parts(m, r, perm), CutOne(b, m, l, r, perm))
<1> DEFINE N == Parts(m, r, perm)
           RS == {n \in {Right(m, r)} : r < vend(m)}
           out == removeMapping(b.pagetable, m)
<1>0. /\ b \in Space /\ Apart(b.mappings) /\ m \in Proper
      /\ b.mappings \in SUBSET Proper /\ b.pagetable \in [Pages -> Entry]
      /\ m.vpn \in Nat /\ vend(m) \in Nat
  BY ProperIs, Zenon DEF Sound, Apart, Space
<1>1. Invalid \in Entry
  BY DEF Invalid, Entry
<1>2. \A n \in RS : /\ n = Right(m, r) /\ r < vend(m) /\ n \in Proper /\ n.vpn = r + 1 /\ n # m
                    /\ \A x \in vsegment(n) : x \in vsegment(m)
  <2> SUFFICES ASSUME r < vend(m)
               PROVE  LET n == Right(m, r)
                      IN  /\ n \in Proper /\ n.vpn = r + 1 /\ n # m
                          /\ \A x \in vsegment(n) : x \in vsegment(m)
    BY Zenon
  <2>1. /\ Part(Right(m, r), m) /\ Right(m, r).vpn = r + 1
        /\ \A x : x \in vsegment(Right(m, r)) <=> x \in r + 1 .. vend(m)
    BY <1>0, PartsAre, Zenon
  <2>2. \A x \in r + 1 .. vend(m) : x \in vsegment(m)
    BY <1>0 DEF vsegment
  <2> QED
    BY <1>0, <2>1, <2>2 DEF Part
<1>3. CASE perm = "none"
  <2> DEFINE s == MapSides(b, m, l, r)
  <2>1. /\ s \in Space /\ s.mappings = b.mappings \cup RS
        /\ \A x \in Pages : s.pagetable[x] =
              IF r < vend(m) /\ x \in vsegment(Right(m, r)) THEN Frame(Right(m, r), x) ELSE b.pagetable[x]
    BY <1>0, SidesAre
  <2>2. CutOne(b, m, l, r, perm) = [mappings |-> s.mappings \ {m}, pagetable |-> removeMapping(s.pagetable, m)]
    BY <1>3, Zenon DEF CutOne, UnmapOne
  <2> HIDE DEF s
  <2>3. N = RS
    BY <1>3, Zenon DEF Parts
  <2>4. s.mappings \ {m} = (b.mappings \ {m}) \cup N
    BY <1>2, <2>1, <2>3, Zenon
  <2>5. /\ removeMapping(s.pagetable, m) \in [Pages -> Entry]
        /\ \A x \in Pages : removeMapping(s.pagetable, m)[x] =
              IF x \in vsegment(m) THEN Invalid ELSE s.pagetable[x]
    BY <1>1, <2>1, Zenon DEF removeMapping, Space
  <2>6. \A x \in Pages : x \notin vsegment(m) => s.pagetable[x] = b.pagetable[x]
    BY <1>2, <2>1, Zenon
  <2>7. s.mappings \ {m} \in SUBSET Proper
    BY <2>1, Zenon DEF Space
  <2> DEFINE c == CutOne(b, m, l, r, perm)
  <2>8. /\ c.mappings = s.mappings \ {m} /\ c.pagetable = removeMapping(s.pagetable, m)
        /\ c \in Space
    BY <2>2, <2>5, <2>7 DEF Space
  <2> HIDE DEF c, N, RS
  <2> QED
    BY <2>4, <2>5, <2>6, <2>8, Zenon DEF c, N, Replaced
<1>4. CASE perm # "none"
  <2> DEFINE new == New(m, r, perm)
             b0 == [b EXCEPT !.pagetable = out]
             s == MapSides(b0, m, l, r)
             s0 == [s EXCEPT !.mappings = @ \ {m}]
             c == CutOne(b, m, l, r, perm)
  <2>0. /\ Part(new, m) /\ new.vpn = m.vpn /\ new.perm = perm
        /\ \A x : x \in vsegment(new) <=> x \in m.vpn .. vend(m) /\ x <= r
    BY <1>0, <1>4, PartsAre
  <2>1. out \in [Pages -> Entry] /\ \A x \in Pages : out[x] = IF x \in vsegment(m) THEN Invalid ELSE b.pagetable[x]
    BY <1>0, <1>1, Zenon DEF removeMapping
  <2>2. b0 \in Space /\ b0.mappings = b.mappings /\ b0.pagetable = out
    <3> HIDE DEF out
    <3> QED
      BY <1>0, <2>1, Zenon DEF Space
  <2>3. c = map(s0, new)
    <3>1. larger(m.vpn, l) = m.vpn
      BY <1>0 DEF larger
    <3> QED
      BY <1>4, <3>1, Zenon DEF CutOne, ProtectOne, New
  <2> HIDE DEF out, b0
  <2>4. /\ s \in Space /\ s.mappings = b.mappings \cup RS
        /\ \A x \in Pages : s.pagetable[x] =
              IF r < vend(m) /\ x \in vsegment(Right(m, r)) THEN Frame(Right(m, r), x) ELSE out[x]
    BY <1>0, <2>2, SidesAre
  <2> HIDE DEF s
  <2>5. /\ s0 \in Space /\ s0.mappings = (b.mappings \cup RS) \ {m}
        /\ s0.pagetable = s.pagetable
    BY <2>4, Zenon DEF Space
  <2> HIDE DEF s0, new
  <2>6. ~ \E o \in s0.mappings : o.vpn = new.vpn
    <3> SUFFICES ASSUME NEW o \in s0.mappings, o.vpn = m.vpn
                 PROVE  FALSE
      BY <2>0, Zenon
    <3>1. CASE o \in RS
      BY <1>0, <1>2, <3>1
    <3>2. CASE o \in b.mappings /\ o # m
      <4>1. o \in Proper /\ (vend(o) < m.vpn \/ vend(m) < o.vpn)
        BY <1>0, <3>2, Zenon DEF Apart
      <4>2. vend(o) \in Nat /\ o.vpn <= vend(o) /\ m.vpn <= vend(m)
        BY <1>0, <4>1, ProperIs, Zenon
      <4> QED
        BY <1>0, <4>1, <4>2
    <3> QED
      BY <2>5, <3>1, <3>2, Zenon
  <2>7. insert(s0.mappings, new) = s0.mappings \cup {new}
    BY <2>6, Zenon DEF insert
  <2>8. N = RS \cup {new}
    BY <1>4, Zenon DEF Parts, new
  <2>9. s0.mappings \cup {new} = (b.mappings \ {m}) \cup N
    BY <1>2, <2>5, <2>8, Zenon
  <2>10. /\ createMapping(s0.pagetable, new) \in [Pages -> Entry]
         /\ \A x \in Pages : createMapping(s0.pagetable, new)[x] =
               IF x \in vsegment(new) THEN Frame(new, x) ELSE s0.pagetable[x]
    BY <2>0, <2>5, FrameIs, Zenon DEF createMapping, Space, Part
  <2>11. /\ c.mappings = s0.mappings \cup {new}
         /\ c.pagetable = createMapping(s0.pagetable, new)
         /\ c \in Space
    <3>1. s0.mappings \cup {new} \in SUBSET Proper
      BY <2>0, <2>5, Zenon DEF Space, Part
    <3>2. c = [mappings |-> s0.mappings \cup {new}, pagetable |-> createMapping(s0.pagetable, new)]
      BY <2>3, <2>7, Zenon DEF map
    <3> HIDE DEF c
    <3> QED
      BY <2>10, <3>1, <3>2, Zenon DEF Space
  <2> HIDE DEF c
  <2>12. \A x \in vsegment(new) : x \in vsegment(m)
    BY <1>0, <2>0, Zenon DEF vsegment
  <2>13. ASSUME NEW x \in Pages, x \notin vsegment(m)
         PROVE  c.pagetable[x] = b.pagetable[x]
    BY <1>2, <2>1, <2>4, <2>5, <2>10, <2>11, <2>12, <2>13, Zenon
  <2>14. ASSUME NEW x \in Pages, x \in vsegment(m)
         PROVE  \/ c.pagetable[x] = Invalid
                \/ \E n \in N : x \in vsegment(n) /\ c.pagetable[x] = Frame(n, x)
    BY <2>1, <2>4, <2>5, <2>8, <2>10, <2>11, <2>14
  <2> HIDE DEF N
  <2> QED
    BY <2>9, <2>11, <2>13, <2>14, Zenon DEF c, N, Replaced
<1> QED
  BY <1>3, <1>4, Zenon

-----------------------------------------------------------------------------
(***************************************************************************)
(* The loop.  Once the mappings that begin in 1 .. k have been seen, what  *)
(* overlaps l .. r and begins there has the new permission (and there is   *)
(* no such mapping if that is "none"), and nothing outside has changed.    *)
(***************************************************************************)
LoopInv(a, b, k, l, r, perm) ==
    /\ Sound(b)
    /\ \A m \in b.mappings : Overlaps(m, l, r) => l <= m.vpn /\ (k < m.vpn \/ m.perm = perm)
    /\ \A x \in Pages : x \notin l .. r => Mem(b.mappings, x) = Mem(a.mappings, x)
    /\ \A x \in Pages : x \in l .. r =>
          \/ Mem(b.mappings, x) = Mem(a.mappings, x)
          \/ Mem(b.mappings, x) = Target(Mem(a.mappings, x), perm)

\* When a mapping and a region overlap.
LEMMA OverlapsIs ==
    ASSUME NEW m \in Proper, NEW l \in Nat, NEW r \in Nat, l <= r
    PROVE  Overlaps(m, l, r) <=> m.vpn <= r /\ l <= vend(m)
<1>1. m.vpn \in Nat /\ vend(m) \in Nat /\ m.vpn <= vend(m)
  BY ProperIs, Zenon
<1> QED
  BY <1>1 DEF Overlaps, larger, smaller

\* Giving a page its new permission twice is giving it once.
LEMMA TargetTwice ==
    ASSUME NEW f \in Entry, NEW g, NEW perm, g # Invalid, perm # "none",
           g = f \/ g = Target(f, perm)
    PROVE  [g EXCEPT !.perm = perm] = Target(f, perm)
<1>1. CASE g = f
  BY <1>1, Zenon DEF Target
<1>2. CASE g # f
  <2>1. g = [f EXCEPT !.perm = perm] /\ Target(f, perm) = [f EXCEPT !.perm = perm]
    BY <1>2, Zenon DEF Target
  <2>2. [[f EXCEPT !.perm = perm] EXCEPT !.perm = perm] = [f EXCEPT !.perm = perm]
    BY Zenon DEF Entry
  <2> QED
    BY <2>1, <2>2, Zenon
<1> QED
  BY <1>1, <1>2, Zenon

\* A round of the loop that finds a mapping.
LEMMA CutOneSound ==
    ASSUME NEW a, Sound(a), NEW b, NEW k \in Nat, NEW perm \in Perms \cup {"none"},
           NEW l \in Nat, NEW r \in Nat, l <= r,
           LoopInv(a, b, k, l, r, perm),
           NEW m \in b.mappings, m.vpn = k + 1, Overlaps(m, l, r)
    PROVE  LoopInv(a, CutOne(b, m, l, r, perm), k + 1, l, r, perm)
<1> DEFINE c == CutOne(b, m, l, r, perm)
           N == Parts(m, r, perm)
<1>0. /\ Sound(b) /\ Apart(b.mappings) /\ Apart(a.mappings) /\ m \in Proper
      /\ m.vpn \in Nat /\ vend(m) \in Nat /\ m.vpn <= vend(m)
  BY ProperIs, Zenon DEF LoopInv, Sound, Apart
<1>1. l <= m.vpn /\ m.vpn <= r
  BY <1>0, OverlapsIs, Zenon DEF LoopInv
<1>2. AllParts(N, m)
  BY <1>0, <1>1, PartsAre, Zenon
<1>3. /\ r < vend(m) => /\ Part(Right(m, r), m) /\ Right(m, r).vpn = r + 1
                        /\ \A x : x \in vsegment(Right(m, r)) <=> x \in r + 1 .. vend(m)
                        /\ \A x \in r + 1 .. vend(m) : Frame(Right(m, r), x) = Frame(m, x)
  BY <1>0, <1>1, PartsAre, Zenon
<1>4. perm # "none" => LET new == New(m, r, perm)
                       IN  /\ Part(new, m) /\ new.vpn = m.vpn /\ new.perm = perm
                           /\ \A x : x \in vsegment(new) <=> x \in m.vpn .. vend(m) /\ x <= r
                           /\ \A x \in vsegment(new) :
                                Frame(new, x) = [Frame(m, x) EXCEPT !.perm = perm]
  BY <1>0, <1>1, PartsAre
<1>5. \A n \in N : \/ n = Right(m, r) /\ r < vend(m)
                   \/ n = New(m, r, perm) /\ perm # "none"
  BY Zenon DEF Parts
<1>6. /\ r < vend(m) => Right(m, r) \in N
      /\ perm # "none" => New(m, r, perm) \in N
  BY Zenon DEF Parts
<1>7. Replaced(b, m, N, c)
  BY <1>0, <1>1, CutOneIs, Zenon
<1> HIDE DEF c, N
<1>8. /\ Sound(c)
      /\ \A x \in Pages : x \notin vsegment(m) => Mem(c.mappings, x) = Mem(b.mappings, x)
      /\ \A n \in N, x \in Pages : x \in vsegment(n) =>
            x \in vsegment(m) /\ Mem(c.mappings, x) = Frame(n, x)
      /\ \A x \in Pages : x \in vsegment(m) /\ (\A n \in N : x \notin vsegment(n)) =>
            Mem(c.mappings, x) = Invalid
  BY <1>0, <1>2, <1>7, ReplaceSound
<1>9. ASSUME NEW o \in c.mappings, Overlaps(o, l, r)
      PROVE  l <= o.vpn /\ (k + 1 < o.vpn \/ o.perm = perm)
  <2>1. CASE o \in b.mappings /\ o # m
    <3>1. l <= o.vpn /\ (k < o.vpn \/ o.perm = perm)
      BY <1>9, <2>1, Zenon DEF LoopInv
    <3>2. o \in Proper /\ (vend(o) < m.vpn \/ vend(m) < o.vpn)
      BY <1>0, <2>1, Zenon DEF Apart
    <3>3. o.vpn \in Nat /\ vend(o) \in Nat /\ o.vpn <= vend(o)
      BY <3>2, ProperIs, Zenon
    <3>4. o.vpn # k + 1
      BY <1>0, <3>2, <3>3
    <3> QED
      BY <3>1, <3>3, <3>4
  <2>2. CASE o = Right(m, r) /\ r < vend(m)
    <3>1. o \in Proper /\ o.vpn = r + 1
      BY <1>3, <2>2, Zenon DEF Part
    <3> QED
      BY <1>9, <3>1, OverlapsIs
  <2>3. CASE o = New(m, r, perm) /\ perm # "none"
    BY <1>1, <1>4, <2>3, Zenon
  <2> QED
    BY <1>5, <1>7, <2>1, <2>2, <2>3, Zenon DEF Replaced
<1>10. ASSUME NEW x \in Pages, x \notin l .. r
       PROVE  Mem(c.mappings, x) = Mem(b.mappings, x)
  <2>1. CASE x \in vsegment(m)
    <3>1. x \in r + 1 .. vend(m) /\ r < vend(m)
      BY <1>0, <1>1, <1>10, <2>1, ProperIs
    <3>2. Mem(c.mappings, x) = Frame(m, x)
      BY <1>3, <1>6, <1>8, <3>1, Zenon
    <3>3. Mem(b.mappings, x) = Frame(m, x)
      BY <1>0, <2>1, MemIs
    <3> QED
      BY <3>2, <3>3, Zenon
  <2> QED
    BY <1>8, <2>1, Zenon
<1>11. ASSUME NEW x \in Pages, x \in l .. r
       PROVE  \/ Mem(c.mappings, x) = Mem(a.mappings, x)
              \/ Mem(c.mappings, x) = Target(Mem(a.mappings, x), perm)
  <2>0. \/ Mem(b.mappings, x) = Mem(a.mappings, x)
        \/ Mem(b.mappings, x) = Target(Mem(a.mappings, x), perm)
    BY <1>11, Zenon DEF LoopInv
  <2>1. CASE x \notin vsegment(m)
    BY <1>8, <2>0, <2>1, Zenon
  <2>2. CASE x \in vsegment(m) /\ perm = "none"
    <3>1. x \in Nat /\ x <= r
      BY <1>0, <1>11, <2>2, ProperIs
    <3>2. \A n \in N : x \notin vsegment(n)
      BY <1>3, <1>5, <2>2, <3>1
    <3>3. Mem(c.mappings, x) = Invalid
      BY <1>8, <2>2, <3>2, Zenon
    <3> QED
      BY <2>2, <3>3, Zenon DEF Target
  <2>3. CASE x \in vsegment(m) /\ perm # "none"
    <3>1. x \in m.vpn .. vend(m) /\ x <= r
      BY <1>0, <1>11, <2>3, ProperIs
    <3>2. x \in vsegment(New(m, r, perm))
      BY <1>4, <2>3, <3>1, Zenon
    <3>3. Mem(c.mappings, x) = [Frame(m, x) EXCEPT !.perm = perm]
      BY <1>4, <1>6, <1>8, <2>3, <3>2, Zenon
    <3>4. Mem(b.mappings, x) = Frame(m, x) /\ Frame(m, x) # Invalid
      BY <1>0, <2>3, MemIs, FrameIs
    <3>5. Mem(a.mappings, x) \in Entry
      BY <1>0, MemType, Zenon
    <3>6. Mem(c.mappings, x) = Target(Mem(a.mappings, x), perm)
      BY <2>0, <2>3, <3>3, <3>4, <3>5, TargetTwice
    <3> QED
      BY <3>6, Zenon
  <2> QED
    BY <2>1, <2>2, <2>3, Zenon
<1>12. ASSUME NEW x \in Pages, x \notin l .. r
       PROVE  Mem(c.mappings, x) = Mem(a.mappings, x)
  BY <1>10, <1>12, Zenon DEF LoopInv
<1> QED
  BY <1>8, <1>9, <1>11, <1>12, Zenon DEF LoopInv, c

\* A round of the loop, whether it finds a mapping or not.
LEMMA StepSound ==
    ASSUME NEW a, Sound(a), NEW b, NEW k \in Nat, NEW perm \in Perms \cup {"none"},
           NEW l \in Nat, NEW r \in Nat, l <= r,
           LoopInv(a, b, k, l, r, perm)
    PROVE  LoopInv(a, StepAt(b, k + 1, l, r, perm), k + 1, l, r, perm)
<1> DEFINE Q == AtVpn(b.mappings, k + 1, l, r)
           m == CHOOSE o \in Q : TRUE
<1>1. CASE Q = {}
  <2>1. StepAt(b, k + 1, l, r, perm) = b
    BY <1>1, Zenon DEF StepAt
  <2>2. ASSUME NEW o \in b.mappings, Overlaps(o, l, r)
        PROVE  l <= o.vpn /\ (k + 1 < o.vpn \/ o.perm = perm)
    <3>1. o.vpn # k + 1
      BY <1>1, <2>2, Zenon DEF AtVpn
    <3>2. l <= o.vpn /\ (k < o.vpn \/ o.perm = perm)
      BY <2>2, Zenon DEF LoopInv
    <3>3. o.vpn \in Nat
      BY ProperIs, Zenon DEF LoopInv, Sound, Apart
    <3> QED
      BY <3>1, <3>2, <3>3
  <2> QED
    BY <2>1, <2>2, Zenon DEF LoopInv
<1>2. CASE Q # {}
  <2>1. m \in Q
    BY <1>2, Zenon
  <2>2. m \in b.mappings /\ m.vpn = k + 1 /\ Overlaps(m, l, r)
    BY <2>1, Zenon DEF AtVpn
  <2>3. StepAt(b, k + 1, l, r, perm) = CutOne(b, m, l, r, perm)
    BY <1>2, Zenon DEF StepAt, CutOne
  <2> HIDE DEF m
  <2> QED
    BY <2>2, <2>3, CutOneSound, Zenon
<1> QED
  BY <1>1, <1>2, Zenon

-----------------------------------------------------------------------------
\* Pages of two mappings without a common page are apart.
LEMMA NoCommonPage ==
    ASSUME NEW m \in Proper, NEW n \in Proper,
           \A x \in Pages : x \in vsegment(m) => x \notin vsegment(n)
    PROVE  vend(m) < n.vpn \/ vend(n) < m.vpn
<1>1. /\ m.vpn \in Nat /\ vend(m) \in Nat /\ m.vpn <= vend(m) /\ m.vpn \in Pages
      /\ n.vpn \in Nat /\ vend(n) \in Nat /\ n.vpn <= vend(n) /\ n.vpn \in Pages
  BY ProperIs, Zenon
<1>2. m.vpn \in vsegment(m) /\ n.vpn \in vsegment(n)
  BY <1>1 DEF vsegment
<1>3. m.vpn \notin vsegment(n) /\ n.vpn \notin vsegment(m)
  BY <1>1, <1>2, Zenon
<1>4. /\ ~ (n.vpn <= m.vpn /\ m.vpn <= vend(n))
      /\ ~ (m.vpn <= n.vpn /\ n.vpn <= vend(m))
  BY <1>1, <1>3 DEF vsegment
<1> QED
  BY <1>1, <1>4

\* VMAR::map of pages that hold nothing.
LEMMA MapSound ==
    ASSUME NEW a, Sound(a), NEW m \in Proper,
           \A x \in Pages : x \in vsegment(m) => Mem(a.mappings, x) = Invalid
    PROVE  /\ Sound(map(a, m))
           /\ map(a, m).mappings = a.mappings \cup {m}
           /\ \A x \in Pages : Mem(map(a, m).mappings, x) =
                 IF x \in vsegment(m) THEN Frame(m, x) ELSE Mem(a.mappings, x)
<1> DEFINE S == a.mappings
           R == S \cup {m}
           pt == createMapping(a.pagetable, m)
           c == map(a, m)
<1>1. Apart(S) /\ S \subseteq Proper /\ a \in Space /\ a.pagetable \in [Pages -> Entry]
  BY Zenon DEF Sound, Apart, Space
<1>2. \A o \in S : \A x \in Pages : x \in vsegment(m) => x \notin vsegment(o)
  <2> SUFFICES ASSUME NEW o \in S, NEW x \in Pages, x \in vsegment(m), x \in vsegment(o)
               PROVE  FALSE
    BY Zenon
  <2>1. o \in Proper /\ Mem(S, x) = Frame(o, x)
    BY <1>1, MemIs
  <2> QED
    BY <2>1, FrameIs, Zenon
<1>3. \A o \in S : vend(m) < o.vpn \/ vend(o) < m.vpn
  BY <1>1, <1>2, NoCommonPage, Zenon
<1>4. \A o \in S : o.vpn # m.vpn
  <2> TAKE o \in S
  <2>1. o \in Proper
    BY <1>1, Zenon
  <2>2. o.vpn \in Nat /\ vend(o) \in Nat /\ o.vpn <= vend(o) /\ m.vpn \in Nat /\ vend(m) \in Nat /\ m.vpn <= vend(m)
    BY <2>1, ProperIs, Zenon
  <2> QED
    BY <1>3, <2>2
<1>5. insert(S, m) = R
  BY <1>4, Zenon DEF insert
<1>6. pt \in [Pages -> Entry] /\ \A x \in Pages : pt[x] = IF x \in vsegment(m) THEN Frame(m, x) ELSE a.pagetable[x]
  BY <1>1, FrameIs, Zenon DEF createMapping
<1>7. c = [mappings |-> R, pagetable |-> pt]
  BY <1>5, Zenon DEF map
<1>8. R \in SUBSET Proper
  BY <1>1, Zenon
<1> HIDE DEF pt, c, R
<1>9. c \in Space /\ c.mappings = R /\ c.pagetable = pt
  BY <1>6, <1>7, <1>8, Zenon DEF Space
<1>10. Apart(R)
  BY <1>1, <1>3, <1>8, Zenon DEF Apart, R
<1>11. ASSUME NEW x \in Pages
       PROVE  Mem(R, x) = IF x \in vsegment(m) THEN Frame(m, x) ELSE Mem(S, x)
  <2>1. CASE x \in vsegment(m)
    BY <1>10, <2>1, MemIs DEF R
  <2>2. CASE x \notin vsegment(m) /\ Mem(S, x) # Invalid
    <3>1. PICK o \in S : x \in vsegment(o) /\ Mem(S, x) = Frame(o, x)
      BY <1>1, <2>2, MemIs, Zenon
    <3> QED
      BY <1>10, <2>2, <3>1, MemIs DEF R
  <2>3. CASE x \notin vsegment(m) /\ Mem(S, x) = Invalid
    <3>1. \A o \in S : x \notin vsegment(o)
      <4> SUFFICES ASSUME NEW o \in S, x \in vsegment(o)
                   PROVE  FALSE
        BY Zenon
      <4>1. Mem(S, x) = Frame(o, x) /\ o \in Proper
        BY <1>1, MemIs
      <4> QED
        BY <2>3, <4>1, FrameIs, Zenon
    <3>2. ~contains(R, x)
      BY <2>3, <3>1, Zenon DEF contains, R
    <3> QED
      BY <1>10, <2>3, <3>2, MemIs, Zenon
  <2> QED
    BY <2>1, <2>2, <2>3, Zenon
<1>12. ASSUME NEW x \in Pages, pt[x] # Invalid
       PROVE  pt[x] = Mem(R, x)
  BY <1>6, <1>11, <1>12, Zenon DEF Sound
<1> QED
  BY <1>9, <1>10, <1>11, <1>12, Zenon DEF Sound, c, R

\* VMAR::reset, of an address space and its page table in step.
LEMMA ResetSound ==
    ASSUME NEW a, Sound(a)
    PROVE  /\ Sound(reset(a))
           /\ reset(a).mappings = {}
           /\ \A x \in Pages : Mem(reset(a).mappings, x) = Invalid
<1> DEFINE pt == [x \in Pages |-> IF contains(a.mappings, x) THEN Invalid ELSE a.pagetable[x]]
           c == reset(a)
<1>1. Apart(a.mappings) /\ a \in Space
  BY Zenon DEF Sound
<1>2. \A x \in Pages : pt[x] = Invalid
  BY <1>1, MemIs, Zenon DEF Sound
<1>3. pt \in [Pages -> Entry]
  BY <1>2 DEF Invalid, Entry
<1>4. c = [mappings |-> {}, pagetable |-> pt]
  BY Zenon DEF reset
<1> HIDE DEF pt, c
<1>5. c \in Space /\ c.mappings = {} /\ c.pagetable = pt
  BY <1>3, <1>4, Zenon DEF Space
<1>6. Apart({})
  BY Zenon DEF Apart
<1>7. \A x \in Pages : Mem({}, x) = Invalid
  BY <1>6, MemIs, Zenon DEF contains
<1> QED
  BY <1>2, <1>5, <1>6, <1>7, Zenon DEF Sound, c

\* VMAR's copy constructor: every page of the clones has its entry.
LEMMA MapAllSound ==
    ASSUME NEW S, Apart(S)
    PROVE  Sound(mapAll(S)) /\ mapAll(S).mappings = S
<1> DEFINE On(x) == {m \in S : x \in vsegment(m)}
           best(x) == CHOOSE m \in On(x) : \A o \in On(x) : o.vpn <= m.vpn
           pt == [x \in Pages |-> IF On(x) = {} THEN Invalid ELSE Frame(best(x), x)]
           c == mapAll(S)
<1>1. ASSUME NEW x \in Pages, On(x) # {}
      PROVE  best(x) \in S /\ x \in vsegment(best(x))
  <2>1. PICK m \in S : x \in vsegment(m)
    BY <1>1, Zenon
  <2>2. \A o \in On(x) : o = m
    BY <2>1, FindIs, Zenon
  <2>3. m.vpn <= m.vpn
    BY ProperIs DEF Apart
  <2>4. m \in On(x) /\ \A o \in On(x) : o.vpn <= m.vpn
    BY <2>1, <2>2, <2>3, Zenon
  <2>5. best(x) \in On(x)
    BY <2>4, Zenon
  <2> QED
    BY <2>5, Zenon
<1> HIDE DEF best
<1>2. \A x \in Pages : On(x) # {} => pt[x] = Mem(S, x) /\ pt[x] \in Entry
  BY <1>1, MemIs, MemType
<1>3. \A x \in Pages : On(x) = {} => pt[x] = Invalid
  BY Zenon
<1>4. pt \in [Pages -> Entry]
  BY <1>2, <1>3 DEF Invalid, Entry
<1>5. c = [mappings |-> S, pagetable |-> pt]
  BY Zenon DEF mapAll, best
<1> HIDE DEF pt, c
<1>6. S \in SUBSET Proper
  BY Zenon DEF Apart
<1>7. c \in Space /\ c.mappings = S /\ c.pagetable = pt
  BY <1>4, <1>5, <1>6, Zenon DEF Space
<1> HIDE DEF On
<1> QED
  BY <1>2, <1>3, <1>7, Zenon DEF Sound, c

Clones(S, new) == {CloneOf(m, new[m]) : m \in S}

\* PageMapping::clone of every mapping: the same pages, of other VMOs.
LEMMA ClonesAre ==
    ASSUME NEW S, Apart(S), NEW new \in [S -> VmoIds]
    PROVE  /\ Apart(Clones(S, new))
           /\ \A m \in S, x \in Pages : x \in vsegment(m) =>
                 Mem(Clones(S, new), x) = [Mem(S, x) EXCEPT !.vmo = new[m]]
           /\ \A x \in Pages : Mem(S, x) = Invalid => Mem(Clones(S, new), x) = Invalid
<1> DEFINE C == {CloneOf(m, new[m]) : m \in S}
<1>1. ASSUME NEW m \in S
      PROVE  LET n == CloneOf(m, new[m])
             IN  /\ n \in Proper /\ n.vpn = m.vpn /\ vend(n) = vend(m) /\ vsegment(n) = vsegment(m)
                 /\ \A x : Frame(n, x) = [Frame(m, x) EXCEPT !.vmo = new[m]]
  <2> DEFINE n == CloneOf(m, new[m])
  <2>1. /\ m \in [vpn : Pages, len : Nat \ {0}, offset : Nat, vmo : VmoIds, perm : Perms]
        /\ vend(m) <= MaxPage
    BY Zenon DEF Apart, Proper
  <2>2. /\ n \in [vpn : Pages, len : Nat \ {0}, offset : Nat, vmo : VmoIds, perm : Perms]
        /\ n.vpn = m.vpn /\ n.len = m.len /\ n.offset = m.offset /\ n.perm = m.perm /\ n.vmo = new[m]
    BY <2>1, Zenon DEF CloneOf
  <2> HIDE DEF n
  <2>3. vend(n) = vend(m) /\ vsegment(n) = vsegment(m)
    BY <2>2, Zenon DEF vend, vsegment
  <2>4. n \in Proper
    BY <2>1, <2>2, <2>3, Zenon DEF Proper
  <2>5. \A x : Frame(n, x) = [Frame(m, x) EXCEPT !.vmo = new[m]]
    BY <2>2 DEF Frame
  <2> QED
    BY <2>2, <2>3, <2>4, <2>5, Zenon DEF n
<1>2. Apart(C)
  <2>1. C \subseteq Proper
    BY <1>1, Zenon
  <2>2. ASSUME NEW i \in C, NEW j \in C, i # j
        PROVE  vend(i) < j.vpn \/ vend(j) < i.vpn
    <3>1. PICK m \in S : i = CloneOf(m, new[m])
      BY Zenon
    <3>2. PICK n \in S : j = CloneOf(n, new[n])
      BY Zenon
    <3>3. m # n
      BY <2>2, <3>1, <3>2, Zenon
    <3> QED
      BY <1>1, <3>1, <3>2, <3>3, Zenon DEF Apart
  <2> QED
    BY <2>1, <2>2, Zenon DEF Apart
<1>3. ASSUME NEW m \in S, NEW x \in Pages, x \in vsegment(m)
      PROVE  Mem(C, x) = [Mem(S, x) EXCEPT !.vmo = new[m]]
  <2> DEFINE n == CloneOf(m, new[m])
  <2>1. n \in C /\ x \in vsegment(n) /\ Frame(n, x) = [Frame(m, x) EXCEPT !.vmo = new[m]]
    BY <1>1, <1>3, Zenon
  <2>2. Mem(C, x) = Frame(n, x) /\ Mem(S, x) = Frame(m, x)
    <3> HIDE DEF n, C
    <3> QED
      BY <1>2, <1>3, <2>1, MemIs
  <2> QED
    BY <2>1, <2>2, Zenon
<1>4. ASSUME NEW x \in Pages, Mem(S, x) = Invalid
      PROVE  Mem(C, x) = Invalid
  <2>1. \A o \in S : x \notin vsegment(o)
    <3> SUFFICES ASSUME NEW o \in S, x \in vsegment(o)
                 PROVE  FALSE
      BY Zenon
    <3>1. Mem(S, x) = Frame(o, x) /\ o \in Proper
      BY MemIs, Zenon DEF Apart
    <3> QED
      BY <1>4, <3>1, FrameIs, Zenon
  <2>2. ~contains(C, x)
    BY <1>1, <2>1, Zenon DEF contains
  <2> HIDE DEF C
  <2> QED
    BY <1>2, <2>2, MemIs, Zenon
<1> QED
  BY <1>2, <1>3, <1>4, Zenon DEF Clones

-----------------------------------------------------------------------------
(***************************************************************************)
(* The inductive invariant.  MemoryExact and InSync say what a page of one *)
(* process holds; a step of another process leaves that alone only if no   *)
(* two pages have the same frame, and a new mapping gets pages that hold   *)
(* nothing only if the heap's top is above all of them.                    *)
(***************************************************************************)
Held(p, x) == Mem(vmar[p].mappings, x)

TypesInv ==
    /\ DOMAIN vmar = Procs /\ DOMAIN vmos = VmoIds
    /\ view \in [Procs -> [Pages -> [val : Int, perm : Perms \cup {"none"}]]]
    /\ heapTop \in [Procs -> Nat]
    /\ alive \subseteq Procs

\* Every address space is sound, a process that is yet to be forked included.
SpacesInv == \A p \in Procs : Sound(vmar[p])

\* A VMO belongs to one process, and all that is left of it is in place: two
\* parts of a mapping are as far apart as their contents.
FramesInv ==
    \A p, q \in Procs, x, y \in Pages :
        /\ Held(p, x) # Invalid /\ Held(q, y) # Invalid
        /\ Held(p, x).vmo = Held(q, y).vmo
        => p = q /\ x - Held(p, x).off = y - Held(q, y).off

\* The VMO has the page that a mapping of it refers to.
BackedInv ==
    \A p \in Procs, x \in Pages :
        Held(p, x) # Invalid => Held(p, x).off + 1 \in DOMAIN vmos[Held(p, x).vmo]

\* A page holds something if the process has mapped it, and that is what the
\* process has written there.
SeenAt(p, x) ==
    /\ Held(p, x) = Invalid => view[p][x] = None
    /\ Held(p, x) # Invalid =>
          /\ view[p][x].val = vmos[Held(p, x).vmo][Held(p, x).off + 1]
          /\ view[p][x].perm = Held(p, x).perm

SeenInv == \A p \in alive, x \in Pages : SeenAt(p, x)

\* The heap ends with a page, and above it nothing is mapped.
HeapAt(p) ==
    /\ heapTop[p] = pn2addr(addr2pn(heapTop[p])) /\ addr2pn(heapTop[p]) >= 1
    /\ \A x \in Pages : Held(p, x) # Invalid => x < addr2pn(heapTop[p])

HeapInv == \A p \in alive \ forked : HeapAt(p)

IInv == TypesInv /\ SpacesInv /\ FramesInv /\ BackedInv /\ SeenInv /\ HeapInv

\* What the invariant says of an entry.
LEMMA HeldIs ==
    ASSUME SpacesInv, NEW p \in Procs, NEW x \in Pages
    PROVE  /\ Held(p, x) \in Entry
           /\ Held(p, x) # Invalid => /\ Held(p, x).vmo \in VmoIds /\ Held(p, x).vmo # 0
                                      /\ Held(p, x).off \in Nat /\ Held(p, x).perm \in Perms
                                      /\ Held(p, x).vmo \in InUse(vmar)
<1> DEFINE S == vmar[p].mappings
           f == Held(p, x)
<1>1. Apart(S)
  BY Zenon DEF SpacesInv, Sound
<1>2. f = Mem(S, x)
  BY Zenon DEF Held
<1> HIDE DEF f, S
<1>3. f \in Entry /\ (f # Invalid => /\ f.vmo \in VmoIds /\ f.off \in Nat /\ f.perm \in Perms
                                     /\ \E m \in S : f.vmo = m.vmo)
  BY <1>1, <1>2, MemType, Zenon
<1>4. f.vmo \in VmoIds => f.vmo # 0
  BY SizeAssumption DEF VmoIds
<1>5. \A m \in S : m.vmo \in InUse(vmar)
  BY Zenon DEF InUse, S
<1> QED
  BY <1>3, <1>4, <1>5, Zenon DEF f

\* A page that is left alone, and whose VMO is, is still seen.
LEMMA StillSeen ==
    ASSUME NEW p, NEW x, SeenAt(p, x), Held(p, x)' = Held(p, x), view'[p][x] = view[p][x],
           Held(p, x)' # Invalid => vmos'[Held(p, x)'.vmo] = vmos[Held(p, x)'.vmo]
    PROVE  SeenAt(p, x)'
  BY Zenon DEF SeenAt

\* A heap whose top is left alone, in a process that maps no further page.
LEMMA StillHeap ==
    ASSUME NEW p, HeapAt(p), heapTop'[p] = heapTop[p],
           \A x \in Pages : Held(p, x)' # Invalid => Held(p, x) # Invalid
    PROVE  HeapAt(p)'
  BY Zenon DEF HeapAt

\* Frames are lost, never gained, and keep their VMO and place.
Fewer ==
    \A p \in Procs, x \in Pages :
        Held(p, x)' # Invalid => /\ Held(p, x) # Invalid
                                 /\ Held(p, x)'.vmo = Held(p, x).vmo
                                 /\ Held(p, x)'.off = Held(p, x).off

\* The contents of the VMOs that are still referred to.
KeepsVmos(contents) ==
    /\ DOMAIN vmos' = VmoIds
    /\ \A p \in Procs, x \in Pages :
          Held(p, x)' # Invalid => vmos'[Held(p, x)'.vmo] = contents[Held(p, x)'.vmo]

\* A VMO loses its pages only when the last mapping of it is gone.
LEMMA KeptIs ==
    ASSUME SpacesInv', NEW contents, vmos' = Kept(contents, vmar')
    PROVE  KeepsVmos(contents)
<1>1. DOMAIN vmos' = VmoIds /\ \A v \in VmoIds : v \in InUse(vmar') => vmos'[v] = contents[v]
  BY Zenon DEF Kept
<1>2. ASSUME NEW p \in Procs, NEW x \in Pages, Held(p, x)' # Invalid
      PROVE  Held(p, x)'.vmo \in VmoIds /\ Held(p, x)'.vmo \in InUse(vmar')
  <2> DEFINE S == vmar'[p].mappings
  <2>1. Apart(S)
    BY Zenon DEF SpacesInv, Sound
  <2>2. Held(p, x)' = Mem(S, x)
    BY Zenon DEF Held
  <2>3. /\ Mem(S, x).vmo \in VmoIds /\ \E m \in S : Mem(S, x).vmo = m.vmo
    <3> HIDE DEF S
    <3> QED
      BY <1>2, <2>1, <2>2, MemType, Zenon
  <2>4. \A m \in S : m.vmo \in InUse(vmar')
    BY Zenon DEF InUse
  <2> QED
    BY <2>2, <2>3, <2>4, Zenon
<1> QED
  BY <1>1, <1>2, Zenon DEF KeepsVmos

\* Losing frames keeps what the invariant says of frames.
LEMMA FewerSound ==
    ASSUME FramesInv, BackedInv, Fewer, NEW contents, KeepsVmos(contents),
           \A v \in VmoIds : DOMAIN contents[v] = DOMAIN vmos[v],
           SpacesInv
    PROVE  FramesInv' /\ BackedInv'
<1>1. FramesInv'
  <2> SUFFICES ASSUME NEW p \in Procs, NEW q \in Procs, NEW x \in Pages, NEW y \in Pages,
                      Held(p, x)' # Invalid, Held(q, y)' # Invalid,
                      Held(p, x)'.vmo = Held(q, y)'.vmo
               PROVE  p = q /\ x - Held(p, x)'.off = y - Held(q, y)'.off
    BY DEF FramesInv
  <2>1. /\ Held(p, x) # Invalid /\ Held(p, x)'.vmo = Held(p, x).vmo /\ Held(p, x)'.off = Held(p, x).off
        /\ Held(q, y) # Invalid /\ Held(q, y)'.vmo = Held(q, y).vmo /\ Held(q, y)'.off = Held(q, y).off
    BY Zenon DEF Fewer
  <2>2. Held(p, x).vmo = Held(q, y).vmo
    BY <2>1, Zenon
  <2>3. p = q /\ x - Held(p, x).off = y - Held(q, y).off
    BY <2>1, <2>2 DEF FramesInv
  <2> QED
    BY <2>1, <2>3, Zenon
<1>2. BackedInv'
  <2> SUFFICES ASSUME NEW p \in Procs, NEW x \in Pages, Held(p, x)' # Invalid
               PROVE  Held(p, x)'.off + 1 \in DOMAIN vmos'[Held(p, x)'.vmo]
    BY Zenon DEF BackedInv
  <2>1. Held(p, x) # Invalid /\ Held(p, x)'.vmo = Held(p, x).vmo /\ Held(p, x)'.off = Held(p, x).off
    BY Zenon DEF Fewer
  <2>2. Held(p, x).vmo \in VmoIds
    BY <2>1, HeldIs, Zenon
  <2>3. vmos'[Held(p, x)'.vmo] = contents[Held(p, x).vmo]
    BY <2>1 DEF KeepsVmos
  <2>4. Held(p, x).off + 1 \in DOMAIN vmos[Held(p, x).vmo]
    BY <2>1, Zenon DEF BackedInv
  <2> QED
    BY <2>1, <2>2, <2>3, <2>4, Zenon
<1> QED
  BY <1>1, <1>2, Zenon

\* The fields of an entry with another permission.
LEMMA TargetIs ==
    ASSUME NEW f \in Entry, f # Invalid, f.vmo # 0, NEW perm \in Perms \cup {"none"}
    PROVE  /\ perm = "none" => Target(f, perm) = Invalid
           /\ perm # "none" => /\ Target(f, perm) # Invalid
                               /\ Target(f, perm).vmo = f.vmo /\ Target(f, perm).off = f.off
                               /\ Target(f, perm).perm = perm
<1>1. CASE perm = "none"
  BY <1>1, Zenon DEF Target
<1>2. CASE perm # "none"
  <2> DEFINE g == [f EXCEPT !.perm = perm]
  <2>1. g.vmo = f.vmo /\ g.off = f.off /\ g.perm = perm
    BY Zenon DEF Entry
  <2>2. Target(f, perm) = g
    BY <1>2, Zenon DEF Target
  <2> HIDE DEF g
  <2>3. Invalid.vmo = 0
    BY Zenon DEF Invalid
  <2>4. g # Invalid
    BY <2>1, <2>3, Zenon
  <2> QED
    BY <1>2, <2>1, <2>2, <2>4, Zenon
<1> QED
  BY <1>1, <1>2, Zenon

\* What munmap, mremap and mprotect do to the view.
ViewCut(p, l, r, perm) ==
    /\ view' \in [Procs -> [Pages -> [val : Int, perm : Perms \cup {"none"}]]]
    /\ \A q \in Procs : q # p => view'[q] = view[q]
    /\ \A x \in Pages : x \notin l .. r => view'[p][x] = view[p][x]
    /\ \A x \in Pages : x \in l .. r =>
          \/ perm = "none" /\ view'[p][x] = None
          \/ /\ perm # "none" /\ view[p][x] # None
             /\ view'[p][x].val = view[p][x].val /\ view'[p][x].perm = perm

\* execve: all that the process had is gone, and the heap begins again.
LEMMA ExecvePreserves ==
    ASSUME IInv, NEW p \in Procs, execve(p)
    PROVE  IInv'
<1>0. /\ p \in alive /\ Sound(vmar[p]) /\ DOMAIN vmar = Procs
      /\ TypesInv /\ SpacesInv /\ FramesInv /\ BackedInv /\ SeenInv /\ HeapInv
  BY Zenon DEF IInv, TypesInv, SpacesInv, execve
<1> DEFINE c == reset(vmar[p])
<1>1. Sound(c) /\ \A x \in Pages : Mem(c.mappings, x) = Invalid
  BY <1>0, ResetSound, Zenon
<1> HIDE DEF c
<1>2. vmar' = [vmar EXCEPT ![p] = c] /\ vmos' = Kept(vmos, vmar') /\ alive' = alive
  BY Zenon DEF execve, c
<1>3. DOMAIN vmar' = Procs /\ vmar'[p] = c /\ \A q \in Procs : q # p => vmar'[q] = vmar[q]
  BY <1>0, <1>2, Zenon
<1>4. SpacesInv'
  BY <1>0, <1>1, <1>3, Zenon DEF SpacesInv
<1>5. /\ \A q \in Procs, x \in Pages : q # p => Held(q, x)' = Held(q, x)
      /\ \A x \in Pages : Held(p, x)' = Invalid
  BY <1>1, <1>3, Zenon DEF Held
<1>6. Fewer
  BY <1>5, Zenon DEF Fewer
<1>7. KeepsVmos(vmos)
  BY <1>2, <1>4, KeptIs, Zenon
<1>8. FramesInv' /\ BackedInv'
  BY <1>0, <1>6, <1>7, FewerSound, Zenon
<1> DEFINE w == [x \in Pages |-> None]
<1>9. /\ view' = [view EXCEPT ![p] = w]
      /\ heapTop' = [heapTop EXCEPT ![p] = 2] /\ forked' = forked \ {p}
  BY Zenon DEF execve, heapBottom
<1>10. w \in [Pages -> [val : Int, perm : Perms \cup {"none"}]] /\ \A x \in Pages : w[x] = None
  BY DEF None, gone
<1> HIDE DEF w
<1>11. /\ view' \in [Procs -> [Pages -> [val : Int, perm : Perms \cup {"none"}]]]
       /\ view'[p] = w /\ \A q \in Procs : q # p => view'[q] = view[q]
       /\ heapTop' \in [Procs -> Nat] /\ heapTop'[p] = 2
       /\ \A q \in Procs : q # p => heapTop'[q] = heapTop[q]
  BY <1>0, <1>9, <1>10, Zenon DEF TypesInv
<1>12. TypesInv'
  BY <1>0, <1>2, <1>3, <1>7, <1>11, Zenon DEF TypesInv, KeepsVmos
<1>13. SeenInv'
  <2> SUFFICES ASSUME NEW q \in alive, NEW x \in Pages
               PROVE  SeenAt(q, x)'
    BY <1>2, Zenon DEF SeenInv
  <2>1. q \in Procs
    BY <1>0, Zenon DEF TypesInv
  <2>2. CASE q = p
    BY <1>5, <1>10, <1>11, <2>2, Zenon DEF SeenAt
  <2>3. CASE q # p
    <3>1. Held(q, x)' = Held(q, x) /\ view'[q][x] = view[q][x]
      BY <1>5, <1>11, <2>1, <2>3, Zenon
    <3>2. Held(q, x)' # Invalid => vmos'[Held(q, x)'.vmo] = vmos[Held(q, x)'.vmo]
      BY <1>7, <2>1, Zenon DEF KeepsVmos
    <3>3. SeenAt(q, x)
      BY <1>0, Zenon DEF SeenInv
    <3> QED
      BY <3>1, <3>2, <3>3, StillSeen, Zenon
  <2> QED
    BY <2>2, <2>3, Zenon
<1>14. HeapInv'
  <2> SUFFICES ASSUME NEW q \in alive \ forked'
               PROVE  HeapAt(q)'
    BY <1>2, Zenon DEF HeapInv
  <2>1. q \in Procs
    BY <1>0, Zenon DEF TypesInv
  <2>2. CASE q = p
    BY <1>5, <1>11, <2>2 DEF pn2addr, addr2pn, HeapAt
  <2>3. CASE q # p
    <3>1. q \in alive \ forked /\ heapTop'[q] = heapTop[q]
      BY <1>9, <1>11, <2>1, <2>3, Zenon
    <3>2. HeapAt(q)
      BY <1>0, <3>1, Zenon DEF HeapInv
    <3>3. \A x \in Pages : Held(q, x)' = Held(q, x)
      BY <1>5, <2>1, <2>3, Zenon
    <3> QED
      BY <3>1, <3>2, <3>3, StillHeap, Zenon
  <2> QED
    BY <2>2, <2>3, Zenon
<1> QED
  BY <1>4, <1>8, <1>12, <1>13, <1>14, Zenon DEF IInv

\* A page fault gives a page the entry of its mapping.
LEMMA FaultPreserves ==
    ASSUME IInv, NEW p \in Procs, NEW x \in Pages, pfhandler(p, x)
    PROVE  IInv'
<1> DEFINE a == vmar[p]
           f == Frame(find(a.mappings, x), x)
           c == [a EXCEPT !.pagetable = [a.pagetable EXCEPT ![x] = f]]
<1>0. /\ Sound(a) /\ a \in Space /\ Apart(a.mappings) /\ DOMAIN vmar = Procs
      /\ TypesInv /\ SpacesInv /\ FramesInv /\ BackedInv /\ SeenInv /\ HeapInv
  BY Zenon DEF IInv, TypesInv, SpacesInv, Sound
<1>1. /\ vmar' = [vmar EXCEPT ![p] = c]
      /\ find(a.mappings, x) # NoMapping
      /\ UNCHANGED <<vmos, heapTop, alive, forked, view>>
  BY Zenon DEF pfhandler
<1>2. f = Mem(a.mappings, x) /\ f \in Entry
  BY <1>0, <1>1, MemType, Zenon DEF Mem
<1> HIDE DEF f
<1>3. a.pagetable \in [Pages -> Entry]
  BY <1>0, Zenon DEF Space
<1>4. /\ [a.pagetable EXCEPT ![x] = f] \in [Pages -> Entry]
      /\ \A y \in Pages : [a.pagetable EXCEPT ![x] = f][y] = IF y = x THEN f ELSE a.pagetable[y]
  BY <1>2, <1>3, Zenon
<1>5. c \in Space /\ c.mappings = a.mappings /\ c.pagetable = [a.pagetable EXCEPT ![x] = f]
  BY <1>0, <1>4, Zenon DEF Space
<1> HIDE DEF c
<1>6. Sound(c)
  BY <1>0, <1>2, <1>4, <1>5, Zenon DEF Sound
<1>7. DOMAIN vmar' = Procs /\ vmar'[p] = c /\ \A q \in Procs : q # p => vmar'[q] = vmar[q]
  BY <1>0, <1>1, Zenon
<1>8. \A q \in Procs, y \in Pages : Held(q, y)' = Held(q, y)
  BY <1>5, <1>7, Zenon DEF Held
<1>9. SpacesInv'
  BY <1>0, <1>6, <1>7, Zenon DEF SpacesInv
<1>10. TypesInv'
  BY <1>0, <1>1, <1>7, Zenon DEF TypesInv
<1>11. Fewer /\ KeepsVmos(vmos)
  BY <1>0, <1>1, <1>8, Zenon DEF Fewer, KeepsVmos, TypesInv
<1>12. FramesInv' /\ BackedInv'
  BY <1>0, <1>11, FewerSound, Zenon
<1>13. SeenInv'
  <2> SUFFICES ASSUME NEW q \in alive, NEW y \in Pages
               PROVE  SeenAt(q, y)'
    BY <1>1, Zenon DEF SeenInv
  <2>1. q \in Procs /\ SeenAt(q, y)
    BY <1>0, Zenon DEF TypesInv, SeenInv
  <2> QED
    BY <1>1, <1>8, <2>1, StillSeen, Zenon
<1>14. HeapInv'
  <2> SUFFICES ASSUME NEW q \in alive \ forked
               PROVE  HeapAt(q)'
    BY <1>1, Zenon DEF HeapInv
  <2>0. HeapAt(q)
    BY <1>0, Zenon DEF HeapInv
  <2>1. q \in Procs
    BY <1>0, Zenon DEF TypesInv
  <2> QED
    BY <1>1, <1>8, <2>0, <2>1, StillHeap, Zenon
<1> QED
  BY <1>9, <1>10, <1>12, <1>13, <1>14, Zenon DEF IInv

\* A write through the frame of a page is seen there and nowhere else.
LEMMA WritePreserves ==
    ASSUME IInv, NEW p \in alive, NEW x \in Pages, NEW val \in Int,
           Held(p, x) # Invalid, Put(Held(p, x), val), Saw(p, x, val),
           UNCHANGED <<vmar, heapTop, alive, forked>>
    PROVE  IInv'
<1> DEFINE f == Held(p, x)
<1>0. /\ p \in Procs /\ DOMAIN vmos = VmoIds
      /\ view \in [Procs -> [Pages -> [val : Int, perm : Perms \cup {"none"}]]]
      /\ TypesInv /\ SpacesInv /\ FramesInv /\ BackedInv /\ SeenInv /\ HeapInv
  BY Zenon DEF IInv, TypesInv
<1>1. f.vmo \in VmoIds /\ f.off \in Nat /\ f.off + 1 \in DOMAIN vmos[f.vmo]
  BY <1>0, HeldIs, Zenon DEF BackedInv
<1>2. \A q \in Procs, y \in Pages : Held(q, y)' = Held(q, y)
  BY Zenon DEF Held
<1> DEFINE new == [vmos[f.vmo] EXCEPT ![f.off + 1] = val]
<1>3. vmos' = [vmos EXCEPT ![f.vmo] = new]
  BY Zenon DEF Put
<1>4. /\ DOMAIN new = DOMAIN vmos[f.vmo] /\ new[f.off + 1] = val
      /\ \A i \in DOMAIN vmos[f.vmo] : i # f.off + 1 => new[i] = vmos[f.vmo][i]
  BY <1>1, Zenon
<1> HIDE DEF new
<1>5. /\ DOMAIN vmos' = VmoIds /\ vmos'[f.vmo] = new
      /\ \A v \in VmoIds : v # f.vmo => vmos'[v] = vmos[v]
  BY <1>0, <1>1, <1>3, Zenon
<1>6. /\ view' \in [Procs -> [Pages -> [val : Int, perm : Perms \cup {"none"}]]]
      /\ view'[p][x].val = val /\ view'[p][x].perm = view[p][x].perm
      /\ \A q \in Procs, y \in Pages : q # p \/ y # x => view'[q][y] = view[q][y]
  <2> DEFINE e == [view[p][x] EXCEPT !.val = val]
             w == [view[p] EXCEPT ![x] = e]
  <2>1. view' = [view EXCEPT ![p] = w]
    BY Zenon DEF Saw
  <2>2. e \in [val : Int, perm : Perms \cup {"none"}] /\ e.val = val /\ e.perm = view[p][x].perm
    <3>1. view[p][x] \in [val : Int, perm : Perms \cup {"none"}]
      BY <1>0, Zenon
    <3> QED
      BY <3>1, Zenon
  <2> HIDE DEF e
  <2>3. /\ w \in [Pages -> [val : Int, perm : Perms \cup {"none"}]] /\ w[x] = e
        /\ \A y \in Pages : y # x => w[y] = view[p][y]
    BY <1>0, <2>2, Zenon
  <2> HIDE DEF w
  <2>4. /\ view' \in [Procs -> [Pages -> [val : Int, perm : Perms \cup {"none"}]]]
        /\ view'[p] = w /\ \A q \in Procs : q # p => view'[q] = view[q]
    BY <1>0, <2>1, <2>3, Zenon
  <2> QED
    BY <2>2, <2>3, <2>4, Zenon
<1>7. SpacesInv'
  BY <1>0, Zenon DEF SpacesInv
<1>8. TypesInv'
  BY <1>0, <1>5, <1>6, Zenon DEF TypesInv
<1>9. FramesInv'
  BY <1>0, <1>2 DEF FramesInv
<1>10. BackedInv'
  <2> SUFFICES ASSUME NEW q \in Procs, NEW y \in Pages, Held(q, y) # Invalid
               PROVE  Held(q, y).off + 1 \in DOMAIN vmos'[Held(q, y).vmo]
    BY <1>2, Zenon DEF BackedInv
  <2>1. Held(q, y).vmo \in VmoIds /\ Held(q, y).off + 1 \in DOMAIN vmos[Held(q, y).vmo]
    BY <1>0, HeldIs, Zenon DEF BackedInv
  <2> QED
    BY <1>4, <1>5, <2>1, Zenon
<1>11. SeenInv'
  <2> SUFFICES ASSUME NEW q \in alive, NEW y \in Pages
               PROVE  SeenAt(q, y)'
    BY Zenon DEF SeenInv
  <2> DEFINE g == Held(q, y)
  <2>0. /\ q \in Procs
        /\ g = Invalid => view[q][y] = None
        /\ g # Invalid => view[q][y].val = vmos[g.vmo][g.off + 1] /\ view[q][y].perm = g.perm
    BY <1>0, Zenon DEF TypesInv, SeenInv, SeenAt
  <2>a. Held(q, y)' = g
    BY <1>2, <2>0, Zenon
  <2>1. CASE q = p /\ y = x
    BY <1>4, <1>5, <1>6, <2>a, <2>0, <2>1, Zenon DEF SeenAt
  <2>2. CASE (q # p \/ y # x) /\ g = Invalid
    BY <1>6, <2>a, <2>0, <2>2, Zenon DEF SeenAt
  <2>3. CASE (q # p \/ y # x) /\ g # Invalid
    <3>1. g.vmo \in VmoIds /\ g.off \in Nat /\ g.off + 1 \in DOMAIN vmos[g.vmo]
      BY <1>0, <2>0, <2>3, HeldIs, Zenon DEF BackedInv
    <3>2. view'[q][y] = view[q][y]
      BY <1>6, <2>0, <2>3, Zenon
    <3>3. vmos'[g.vmo][g.off + 1] = vmos[g.vmo][g.off + 1]
      <4>1. CASE g.vmo # f.vmo
        BY <1>5, <3>1, <4>1, Zenon
      <4>2. CASE g.vmo = f.vmo
        <5>1. q = p /\ y - g.off = x - f.off
          BY <1>0, <2>0, <2>3, <4>2 DEF FramesInv
        <5>2. g.off + 1 # f.off + 1
          <6>1. y # x /\ y \in Nat /\ x \in Nat
            BY <2>3, <5>1, SizeAssumption DEF Pages
          <6> HIDE DEF f, g
          <6> QED
            BY <1>1, <3>1, <5>1, <6>1
        <5> QED
          BY <1>4, <1>5, <3>1, <4>2, <5>2
      <4> QED
        BY <4>1, <4>2, Zenon
    <3> QED
      BY <2>a, <2>0, <2>3, <3>2, <3>3, Zenon DEF SeenAt
  <2> QED
    BY <2>1, <2>2, <2>3, Zenon
<1>12. HeapInv'
  <2> SUFFICES ASSUME NEW q \in alive \ forked
               PROVE  HeapAt(q)'
    BY Zenon DEF HeapInv
  <2>0. HeapAt(q)
    BY <1>0, Zenon DEF HeapInv
  <2>1. q \in Procs
    BY <1>0, Zenon DEF TypesInv
  <2> QED
    BY <1>2, <2>0, <2>1, StillHeap, Zenon
<1> QED
  BY <1>7, <1>8, <1>9, <1>10, <1>11, <1>12, Zenon DEF IInv

\* The process p gets frames of VMOs that were free, and all else is left alone.
Gained(p, contents) ==
    /\ \A q \in Procs, x \in Pages : q # p => Held(q, x)' = Held(q, x)
    /\ \A x \in Pages : Held(p, x)' # Invalid =>
          \/ Held(p, x)' = Held(p, x)
          \/ /\ Held(p, x)'.vmo \notin InUse(vmar)
             /\ Held(p, x)'.off + 1 \in DOMAIN contents[Held(p, x)'.vmo]
    /\ \A x, y \in Pages :
          /\ Held(p, x)' # Invalid /\ Held(p, y)' # Invalid
          /\ Held(p, x)'.vmo \notin InUse(vmar) /\ Held(p, x)'.vmo = Held(p, y)'.vmo
          => x - Held(p, x)'.off = y - Held(p, y)'.off
    /\ \A v \in VmoIds : v \in InUse(vmar) => contents[v] = vmos[v]

\* Gaining such frames keeps what the invariant says of frames.
LEMMA GainSound ==
    ASSUME FramesInv, BackedInv, SpacesInv, NEW p \in Procs, NEW contents,
           Gained(p, contents), KeepsVmos(contents)
    PROVE  /\ FramesInv' /\ BackedInv'
           /\ \A q \in Procs, x \in Pages :
                 /\ Held(q, x)' = Held(q, x) /\ Held(q, x) # Invalid
                 => vmos'[Held(q, x).vmo] = vmos[Held(q, x).vmo]
<1>1. ASSUME NEW q \in Procs, NEW x \in Pages, Held(q, x)' # Invalid
      PROVE  \/ Held(q, x)' = Held(q, x) /\ Held(q, x)'.vmo \in InUse(vmar)
             \/ /\ q = p /\ Held(q, x)'.vmo \notin InUse(vmar)
                /\ Held(q, x)'.off + 1 \in DOMAIN contents[Held(q, x)'.vmo]
  BY <1>1, HeldIs, Zenon DEF Gained
<1>2. FramesInv'
  <2> SUFFICES ASSUME NEW q1 \in Procs, NEW q2 \in Procs, NEW x \in Pages, NEW y \in Pages,
                      Held(q1, x)' # Invalid, Held(q2, y)' # Invalid,
                      Held(q1, x)'.vmo = Held(q2, y)'.vmo
               PROVE  q1 = q2 /\ x - Held(q1, x)'.off = y - Held(q2, y)'.off
    BY DEF FramesInv
  <2>1. CASE Held(q1, x)'.vmo \in InUse(vmar)
    <3>1. Held(q1, x)' = Held(q1, x) /\ Held(q2, y)' = Held(q2, y)
      BY <1>1, <2>1, Zenon
    <3> QED
      BY <3>1 DEF FramesInv
  <2>2. CASE Held(q1, x)'.vmo \notin InUse(vmar)
    <3>1. q1 = p /\ q2 = p
      BY <1>1, <2>2, Zenon
    <3> QED
      BY <2>2, <3>1, Zenon DEF Gained
  <2> QED
    BY <2>1, <2>2, Zenon
<1>3. ASSUME NEW q \in Procs, NEW x \in Pages, Held(q, x)' = Held(q, x), Held(q, x) # Invalid
      PROVE  vmos'[Held(q, x).vmo] = vmos[Held(q, x).vmo]
  <2>1. Held(q, x).vmo \in VmoIds /\ Held(q, x).vmo \in InUse(vmar)
    BY <1>3, HeldIs, Zenon
  <2>2. vmos'[Held(q, x).vmo] = contents[Held(q, x).vmo]
    BY <1>3 DEF KeepsVmos
  <2> QED
    BY <2>1, <2>2, Zenon DEF Gained
<1>4. BackedInv'
  <2> SUFFICES ASSUME NEW q \in Procs, NEW x \in Pages, Held(q, x)' # Invalid
               PROVE  Held(q, x)'.off + 1 \in DOMAIN vmos'[Held(q, x)'.vmo]
    BY Zenon DEF BackedInv
  <2>1. CASE Held(q, x)' = Held(q, x)
    BY <1>3, <2>1, Zenon DEF BackedInv
  <2>2. CASE Held(q, x)' # Held(q, x)
    BY <1>1, <2>2, Zenon DEF KeepsVmos
  <2> QED
    BY <2>1, <2>2, Zenon
<1> QED
  BY <1>2, <1>3, <1>4, Zenon

\* What processes other than p see, when p gains frames.
LEMMA GainSeen ==
    ASSUME FramesInv, BackedInv, SpacesInv, SeenInv, NEW p \in Procs, NEW contents,
           Gained(p, contents), KeepsVmos(contents),
           NEW q \in Procs, q \in alive, NEW x \in Pages,
           Held(q, x)' = Held(q, x), view'[q][x] = view[q][x]
    PROVE  SeenAt(q, x)'
<1>1. Held(q, x) # Invalid => vmos'[Held(q, x).vmo] = vmos[Held(q, x).vmo]
  BY GainSound, Zenon
<1>2. SeenAt(q, x)
  BY Zenon DEF SeenInv
<1> QED
  BY <1>1, <1>2, StillSeen, Zenon

\* A new mapping at the top of the heap, by mmap or brk, and the top moved
\* behind it.
LEMMA MapNewPreserves ==
    ASSUME IInv, NEW p \in alive, p \notin forked, NEW h, h = addr2pn(heapTop[p]),
           NEW len \in Nat, len >= 1, NEW perm \in Perms, MapNew(p, h, len, perm),
           NEW top \in Nat, heapTop' = [heapTop EXCEPT ![p] = top],
           top = pn2addr(addr2pn(top)), addr2pn(top) >= h + len,
           UNCHANGED <<alive, forked>>
    PROVE  IInv'
<1>0. /\ p \in Procs /\ Sound(vmar[p]) /\ DOMAIN vmar = Procs /\ DOMAIN vmos = VmoIds
      /\ heapTop \in [Procs -> Nat] /\ alive \subseteq Procs
      /\ view \in [Procs -> [Pages -> [val : Int, perm : Perms \cup {"none"}]]]
      /\ TypesInv /\ SpacesInv /\ FramesInv /\ BackedInv /\ SeenInv /\ HeapInv
  BY Zenon DEF IInv, TypesInv, SpacesInv
<1>1. /\ h \in Nat /\ h >= 1 /\ \A x \in Pages : Held(p, x) # Invalid => x < h
  <2>1. h \in Nat
    BY <1>0 DEF addr2pn
  <2> QED
    BY <1>0, <2>1, Zenon DEF HeapInv, HeapAt
<1> DEFINE v == CHOOSE u \in FreeVmos : TRUE
           m == [vpn |-> h, len |-> len, offset |-> 0, vmo |-> v, perm |-> perm]
           c == map(vmar[p], m)
           fresh == [vmos EXCEPT ![v] = Fresh(len)]
           e == [val |-> 0, perm |-> perm]
           w == [x \in Pages |-> IF x \in h .. h + len - 1 THEN e ELSE view[p][x]]
<1>2. /\ FreeVmos # {} /\ h + len - 1 <= MaxPage
      /\ vmar' = [vmar EXCEPT ![p] = c] /\ vmos' = Kept(fresh, vmar')
      /\ view' = [view EXCEPT ![p] = w]
  BY Zenon DEF MapNew, See
<1>3. v \in VmoIds /\ v \notin InUse(vmar)
  <2>1. v \in FreeVmos
    BY <1>2, Zenon
  <2> QED
    BY <2>1, Zenon DEF FreeVmos
<1> HIDE DEF v
<1>4. /\ m \in Proper /\ vsegment(m) = h .. h + len - 1
      /\ \A x \in h .. h + len - 1 :
            /\ Frame(m, x).vmo = v /\ Frame(m, x).perm = perm /\ Frame(m, x).off = x - h
            /\ Frame(m, x) # Invalid
  <2>1. /\ m \in [vpn : Pages, len : Nat \ {0}, offset : Nat, vmo : VmoIds, perm : Perms]
        /\ m.vpn = h /\ m.len = len /\ m.offset = 0 /\ m.vmo = v /\ m.perm = perm
    BY <1>1, <1>2, <1>3, SizeAssumption DEF Pages
  <2> HIDE DEF m
  <2>2. vend(m) = h + len - 1 /\ vsegment(m) = h .. h + len - 1
    BY <2>1, Zenon DEF vend, vsegment
  <2>3. m \in Proper
    BY <1>2, <2>1, <2>2, Zenon DEF Proper
  <2> QED
    <3> SUFFICES ASSUME NEW x \in h .. h + len - 1
                 PROVE  /\ Frame(m, x).vmo = v /\ Frame(m, x).perm = perm
                        /\ Frame(m, x).off = x - h /\ Frame(m, x) # Invalid
      BY <2>2, <2>3, Zenon
    <3>1. /\ Frame(m, x).vmo = m.vmo /\ Frame(m, x).perm = m.perm
          /\ Frame(m, x).off = m.offset + (x - m.vpn) /\ Frame(m, x) # Invalid
      BY <2>2, <2>3, FrameIs, Zenon
    <3>2. 0 + (x - h) = x - h
      BY <1>1
    <3> QED
      BY <2>1, <3>1, <3>2, Zenon
<1> HIDE DEF m
<1>5. \A x \in Pages : x \in vsegment(m) => Mem(vmar[p].mappings, x) = Invalid
  <2> SUFFICES ASSUME NEW x \in Pages, x \in h .. h + len - 1
               PROVE  Held(p, x) = Invalid
    BY <1>4, Zenon DEF Held
  <2> QED
    BY <1>1
<1>6. /\ Sound(c)
      /\ \A x \in Pages : Mem(c.mappings, x) =
            IF x \in h .. h + len - 1 THEN Frame(m, x) ELSE Mem(vmar[p].mappings, x)
  BY <1>0, <1>4, <1>5, MapSound, Zenon
<1> HIDE DEF c
<1>7. DOMAIN vmar' = Procs /\ vmar'[p] = c /\ \A q \in Procs : q # p => vmar'[q] = vmar[q]
  BY <1>0, <1>2, Zenon
<1>8. SpacesInv'
  BY <1>0, <1>6, <1>7, Zenon DEF SpacesInv
<1>9. /\ \A q \in Procs, x \in Pages : q # p => Held(q, x)' = Held(q, x)
      /\ \A x \in Pages : x \notin h .. h + len - 1 => Held(p, x)' = Held(p, x)
      /\ \A x \in Pages : x \in h .. h + len - 1 => Held(p, x)' = Frame(m, x)
  BY <1>6, <1>7, Zenon DEF Held
<1>10. KeepsVmos(fresh)
  <2> HIDE DEF fresh
  <2> QED
    BY <1>2, <1>8, KeptIs, Zenon
<1>11. /\ \A u \in VmoIds : u # v => fresh[u] = vmos[u]
       /\ DOMAIN fresh[v] = 1 .. len /\ \A i \in 1 .. len : fresh[v][i] = 0
  BY <1>0, <1>3, Zenon DEF Fresh
<1> HIDE DEF fresh
<1>12. ASSUME NEW x \in Pages, x \in h .. h + len - 1
       PROVE  /\ Held(p, x)' # Invalid /\ Held(p, x)'.vmo = v /\ Held(p, x)'.off = x - h
              /\ Held(p, x)'.perm = perm /\ x - h + 1 \in 1 .. len
              /\ x - Held(p, x)'.off = h
  <2>1. /\ Held(p, x)' # Invalid /\ Held(p, x)'.vmo = v /\ Held(p, x)'.off = x - h
        /\ Held(p, x)'.perm = perm
    BY <1>4, <1>9, <1>12, Zenon
  <2>2. x - h + 1 \in 1 .. len /\ x - (x - h) = h
    BY <1>1, <1>12
  <2> QED
    BY <2>1, <2>2, Zenon
<1>13. Gained(p, fresh)
  <2>1. \A x \in Pages : Held(p, x)' # Invalid =>
          \/ Held(p, x)' = Held(p, x)
          \/ /\ Held(p, x)'.vmo \notin InUse(vmar)
             /\ Held(p, x)'.off + 1 \in DOMAIN fresh[Held(p, x)'.vmo]
    BY <1>3, <1>9, <1>11, <1>12, Zenon
  <2>2. ASSUME NEW x \in Pages, Held(p, x)' # Invalid, Held(p, x)'.vmo \notin InUse(vmar)
        PROVE  x - Held(p, x)'.off = h
    <3>1. x \in h .. h + len - 1
      BY <1>0, <1>9, <2>2, HeldIs, Zenon
    <3> QED
      BY <1>12, <3>1, Zenon
  <2> QED
    BY <1>3, <1>9, <1>11, <2>1, <2>2, Zenon DEF Gained
<1>14. FramesInv' /\ BackedInv'
  BY <1>0, <1>10, <1>13, GainSound, Zenon
<1>15. /\ view' \in [Procs -> [Pages -> [val : Int, perm : Perms \cup {"none"}]]]
       /\ view'[p] = w /\ \A q \in Procs : q # p => view'[q] = view[q]
  <2>1. e \in [val : Int, perm : Perms \cup {"none"}]
    OBVIOUS
  <2> HIDE DEF e
  <2>2. w \in [Pages -> [val : Int, perm : Perms \cup {"none"}]]
    BY <1>0, <2>1
  <2> HIDE DEF w
  <2> QED
    BY <1>0, <1>2, <2>2, Zenon
<1>16. TypesInv'
  BY <1>0, <1>7, <1>10, <1>15, Zenon DEF TypesInv, KeepsVmos
<1>17. SeenInv'
  <2> SUFFICES ASSUME NEW q \in alive, NEW x \in Pages
               PROVE  SeenAt(q, x)'
    BY Zenon DEF SeenInv
  <2>0. q \in Procs
    BY <1>0, Zenon
  <2>1. CASE q = p /\ x \in h .. h + len - 1
    <3>1. view'[p][x] = e
      BY <1>15, <2>1, Zenon
    <3>2. vmos'[v][x - h + 1] = 0
      <4>1. vmos'[v] = fresh[v]
        BY <1>0, <1>10, <1>12, <2>1, Zenon DEF KeepsVmos
      <4> QED
        BY <1>11, <1>12, <2>1, <4>1, Zenon
    <3>3. Held(q, x)' = Held(p, x)' /\ view'[q][x] = e
      BY <2>1, <3>1, Zenon
    <3> QED
      BY <1>12, <2>1, <3>2, <3>3 DEF SeenAt
  <2>2. CASE ~(q = p /\ x \in h .. h + len - 1)
    <3>1. Held(q, x)' = Held(q, x) /\ view'[q][x] = view[q][x]
      BY <1>9, <1>15, <2>0, <2>2, Zenon
    <3> QED
      BY <1>0, <1>10, <1>13, <2>0, <3>1, GainSeen, Zenon
  <2> QED
    BY <2>1, <2>2, Zenon
<1>18. HeapInv'
  <2> SUFFICES ASSUME NEW q \in alive \ forked
               PROVE  HeapAt(q)'
    BY Zenon DEF HeapInv
  <2>0. q \in Procs
    BY <1>0, Zenon
  <2>1. CASE q = p
    <3>1. heapTop'[p] = top
      BY <1>0, Zenon
    <3>2. addr2pn(top) \in Nat
      BY DEF addr2pn
    <3>3. ASSUME NEW x \in Pages, Held(p, x)' # Invalid
          PROVE  x < h + len
      <4>1. x \in Nat
        BY SizeAssumption DEF Pages
      <4>2. x \in h .. h + len - 1 \/ x < h
        BY <1>1, <1>9, <3>3, Zenon
      <4> QED
        BY <1>1, <4>1, <4>2
    <3>4. \A x \in Pages : Held(p, x)' # Invalid => x < addr2pn(top)
      <4> SUFFICES ASSUME NEW x \in Pages, Held(p, x)' # Invalid
                   PROVE  x < addr2pn(top)
        BY Zenon
      <4>1. x \in Nat /\ x < h + len
        BY <3>3, SizeAssumption DEF Pages
      <4> QED
        BY <1>1, <3>2, <4>1
    <3>5. addr2pn(top) >= 1
      BY <1>1, <3>2
    <3> QED
      BY <2>1, <3>1, <3>4, <3>5, Zenon DEF HeapAt
  <2>2. CASE q # p
    <3>1. heapTop'[q] = heapTop[q]
      BY <1>0, <2>0, <2>2, Zenon
    <3>2. HeapAt(q)
      BY <1>0, Zenon DEF HeapInv
    <3>3. \A x \in Pages : Held(q, x)' = Held(q, x)
      BY <1>9, <2>0, <2>2, Zenon
    <3> QED
      BY <3>1, <3>2, <3>3, StillHeap, Zenon
  <2> QED
    BY <2>1, <2>2, Zenon
<1> QED
  BY <1>8, <1>14, <1>16, <1>17, <1>18, Zenon DEF IInv

(***************************************************************************)
(* How programs use the calls: regions of munmap, mremap and mprotect do   *)
(* not begin inside a mapping, the heap grows by pages, and a forked child *)
(* maps nothing before execve.  These are the values Vmar.cfg gives to the *)
(* constants; for the others MemoryExact and InSync do not hold, in the    *)
(* ways README.md describes.                                               *)
(***************************************************************************)
Supported ==
    /\ UnmapRegions \in {"whole", "prefix"} /\ ProtectRegions \in {"whole", "prefix"}
    /\ HeapUse = "pages" /\ ~ForkedMap

\* mmap without an address.
LEMMA MmapPreserves ==
    ASSUME IInv, Supported, NEW p \in Procs, NEW len \in Lens, mmap(p, len, "rw")
    PROVE  IInv'
<1> DEFINE h == addr2pn(heapTop[p])
           t == pn2addr(bytes2pages(heapTop[p]))
           top == t + pn2addr(len)
<1>1. p \in alive /\ p \notin forked
  BY Zenon DEF mmap, MayMap, Supported
<1>2. /\ heapTop[p] \in Nat /\ heapTop[p] = pn2addr(h) /\ h >= 1 /\ h \in Nat
  <2>1. heapTop[p] \in Nat /\ heapTop[p] = pn2addr(h) /\ h >= 1
    BY <1>1, Zenon DEF IInv, TypesInv, HeapInv, HeapAt
  <2> QED
    BY <2>1 DEF addr2pn
<1>3. len \in Nat /\ len >= 1
  BY SizeAssumption
<1>4. MapNew(p, addr2pn(t), len, "rw") /\ heapTop' = [heapTop EXCEPT ![p] = top]
      /\ UNCHANGED <<alive, forked>>
  BY Zenon DEF mmap
<1> HIDE DEF h
<1>5. addr2pn(t) = h /\ t = 2 * h
  BY <1>2 DEF addr2pn, pn2addr, bytes2pages
<1>6. top \in Nat /\ top = pn2addr(addr2pn(top)) /\ addr2pn(top) >= h + len
  <2> HIDE DEF t
  <2>1. top = 2 * h + 2 * len
    BY <1>3, <1>5 DEF pn2addr
  <2> HIDE DEF top
  <2> QED
    BY <1>2, <1>3, <2>1 DEF addr2pn, pn2addr
<1>7. MapNew(p, h, len, "rw") /\ "rw" \in Perms
  BY <1>4, <1>5, Zenon DEF Perms
<1> HIDE DEF top, t
<1>8. h = addr2pn(heapTop[p])
  BY Zenon DEF h
<1> QED
  BY <1>1, <1>3, <1>4, <1>6, <1>7, <1>8, MapNewPreserves, Zenon

\* brk to an address above the top.
LEMMA BrkPreserves ==
    ASSUME IInv, Supported, NEW p \in Procs, NEW addr \in 1 .. pn2addr(MaxPage), brk(p, addr)
    PROVE  IInv'
<1> DEFINE h == addr2pn(heapTop[p])
           n == addr2pn(addr)
<1>1. p \in alive /\ p \notin forked
  BY Zenon DEF brk, MayMap, Supported
<1>2. /\ heapTop[p] \in Nat /\ heapTop[p] = pn2addr(h) /\ h >= 1 /\ h \in Nat
      /\ \A x \in Pages : Held(p, x) # Invalid => x < h
  <2>1. /\ heapTop[p] \in Nat /\ heapTop[p] = pn2addr(h) /\ h >= 1
        /\ \A x \in Pages : Held(p, x) # Invalid => x < h
    BY <1>1, Zenon DEF IInv, TypesInv, HeapInv, HeapAt
  <2> QED
    BY <2>1 DEF addr2pn
<1> HIDE DEF h
<1>3. /\ heapTop[p] < addr /\ addr % 2 = 0
      /\ heapTop' = [heapTop EXCEPT ![p] = addr] /\ UNCHANGED <<alive, forked>>
  BY Zenon DEF brk, Supported
<1>4. addr \in Nat /\ addr <= 2 * MaxPage
  BY SizeAssumption DEF pn2addr
<1>5. n \in Nat /\ addr = 2 * n
  BY <1>3, <1>4 DEF addr2pn
<1>6. /\ addr = pn2addr(n) /\ bytes2pages(addr) = n /\ BrkFrom(p) = h
      /\ h < n /\ n \in Pages
  <2> HIDE DEF n
  <2>1. addr = pn2addr(n) /\ bytes2pages(addr) = n
    BY <1>4, <1>5 DEF pn2addr, bytes2pages
  <2>2. BrkFrom(p) = h
    BY <1>2 DEF BrkFrom, bytes2pages, pn2addr
  <2>3. h < n
    BY <1>2, <1>3, <1>5 DEF pn2addr
  <2>4. n \in Pages
    BY <1>2, <1>4, <1>5, <2>3, SizeAssumption DEF Pages
  <2> QED
    BY <2>1, <2>2, <2>3, <2>4, Zenon
<1>7. ~contains(vmar[p].mappings, n)
  <2> SUFFICES ASSUME NEW m \in vmar[p].mappings, n \in vsegment(m)
               PROVE  FALSE
    BY Zenon DEF contains
  <2>1. Apart(vmar[p].mappings)
    BY Zenon DEF IInv, SpacesInv, Sound
  <2>2. Held(p, n) = Frame(m, n) /\ m \in Proper
    BY <1>6, <2>1, MemIs DEF Held, Apart
  <2>3. Held(p, n) # Invalid
    <3> HIDE DEF n
    <3> QED
      BY <2>2, FrameIs, Zenon
  <2>4. n < h
    BY <1>2, <1>6, <2>3, Zenon
  <2> QED
    BY <1>2, <1>5, <1>6, <2>4
<1>8. MapNew(p, h, n - h, "rw") /\ "rw" \in Perms
  <2>1. MapNew(p, BrkFrom(p), bytes2pages(addr) - BrkFrom(p), "rw")
    BY <1>7, Zenon DEF brk
  <2> QED
    BY <1>6, <2>1, Zenon DEF Perms
<1> DEFINE len == n - h
<1>9. len \in Nat /\ len >= 1 /\ h + len = n
  BY <1>2, <1>5, <1>6
<1>10. /\ addr2pn(addr) >= h + len /\ addr = pn2addr(addr2pn(addr))
       /\ MapNew(p, h, len, "rw")
  BY <1>5, <1>6, <1>8, <1>9
<1> HIDE DEF len, n
<1>11. h = addr2pn(heapTop[p])
  BY Zenon DEF h
<1> QED
  BY <1>1, <1>3, <1>4, <1>8, <1>9, <1>10, <1>11, MapNewPreserves, Zenon

\* fork: the child holds a frame of its own, with the same contents, wherever
\* the parent holds one.
LEMMA ForkPreserves ==
    ASSUME IInv, NEW p \in Procs, NEW c \in Procs, fork(p, c)
    PROVE  IInv'
<1> DEFINE ms == vmar[p].mappings
           new == CHOOSE f \in Choices(ms) : TRUE
           C == Clones(ms, new)
           Source(v) == CHOOSE m \in ms : new[m] = v
           copied == [v \in VmoIds |-> IF \E m \in ms : new[m] = v
                                       THEN CopyOf(Source(v)) ELSE vmos[v]]
<1>0. /\ p \in alive /\ c \notin alive /\ c # p /\ Apart(ms)
      /\ DOMAIN vmar = Procs /\ DOMAIN vmos = VmoIds
      /\ heapTop \in [Procs -> Nat] /\ alive \subseteq Procs
      /\ view \in [Procs -> [Pages -> [val : Int, perm : Perms \cup {"none"}]]]
      /\ TypesInv /\ SpacesInv /\ FramesInv /\ BackedInv /\ SeenInv /\ HeapInv
  BY Zenon DEF IInv, TypesInv, SpacesInv, Sound, fork
<1>1. /\ Choices(ms) # {}
      /\ vmar' = [vmar EXCEPT ![c] = mapAll(C)] /\ vmos' = Kept(copied, vmar')
      /\ heapTop' = [heapTop EXCEPT ![c] = 2]
      /\ alive' = alive \cup {c} /\ forked' = forked \cup {c}
      /\ view' = [view EXCEPT ![c] = view[p]]
  BY Zenon DEF fork, heapBottom, Clones
<1>2. /\ new \in [ms -> VmoIds] /\ \A m \in ms : new[m] \notin InUse(vmar)
      /\ \A m, n \in ms : new[m] = new[n] => m = n
  <2>1. new \in Choices(ms)
    BY <1>1, Zenon
  <2> HIDE DEF new
  <2> QED
    BY <2>1, Zenon DEF Choices, FreeVmos
<1> HIDE DEF new
<1>3. /\ Apart(C)
      /\ \A m \in ms, x \in Pages : x \in vsegment(m) =>
            Mem(C, x) = [Mem(ms, x) EXCEPT !.vmo = new[m]]
      /\ \A x \in Pages : Mem(ms, x) = Invalid => Mem(C, x) = Invalid
  <2> HIDE DEF ms
  <2> QED
    BY <1>0, <1>2, ClonesAre
<1> HIDE DEF C
<1>4. Sound(mapAll(C)) /\ mapAll(C).mappings = C
  BY <1>3, MapAllSound, Zenon
<1>5. /\ DOMAIN vmar' = Procs /\ vmar'[c] = mapAll(C)
      /\ \A q \in Procs : q # c => vmar'[q] = vmar[q]
  BY <1>0, <1>1, Zenon
<1>6. SpacesInv'
  <2> SUFFICES ASSUME NEW q \in Procs
               PROVE  Sound(vmar'[q])
    BY Zenon DEF SpacesInv
  <2> QED
    BY <1>0, <1>4, <1>5, Zenon DEF SpacesInv
<1>7. /\ \A q \in Procs, x \in Pages : q # c => Held(q, x)' = Held(q, x)
      /\ \A x \in Pages : Held(c, x)' = Mem(C, x)
  BY <1>4, <1>5, Zenon DEF Held
<1>8. KeepsVmos(copied)
  <2> HIDE DEF copied
  <2> QED
    BY <1>1, <1>6, KeptIs, Zenon
<1>9. /\ \A m \in ms : copied[new[m]] = CopyOf(m)
      /\ \A v \in VmoIds : v \in InUse(vmar) => copied[v] = vmos[v]
  <2>1. ASSUME NEW m \in ms
        PROVE  copied[new[m]] = CopyOf(m)
    <3>1. Source(new[m]) = m
      BY <1>2, Zenon
    <3>2. new[m] \in VmoIds
      BY <1>2, Zenon
    <3> HIDE DEF Source
    <3>3. copied[new[m]] = CopyOf(Source(new[m]))
      BY <3>2, Zenon
    <3> QED
      BY <3>1, <3>3, Zenon
  <2>2. ASSUME NEW v \in VmoIds, v \in InUse(vmar)
        PROVE  copied[v] = vmos[v]
    <3>1. ~ \E m \in ms : new[m] = v
      BY <1>2, <2>2, Zenon
    <3> QED
      BY <3>1, Zenon
  <2> QED
    BY <2>1, <2>2, Zenon
<1> HIDE DEF copied
<1>10. ASSUME NEW x \in Pages, Held(p, x) # Invalid
       PROVE  \E m \in ms :
                /\ Held(c, x)' # Invalid /\ Held(c, x)'.vmo = new[m]
                /\ Held(c, x)'.off = Held(p, x).off /\ Held(c, x)'.perm = Held(p, x).perm
                /\ Held(p, x).off = m.offset + (x - m.vpn)
                /\ Held(p, x).off + 1 \in DOMAIN copied[new[m]]
                /\ copied[new[m]][Held(p, x).off + 1] = vmos[Held(p, x).vmo][Held(p, x).off + 1]
  <2> DEFINE f == Held(p, x)
  <2>1. PICK m \in ms : x \in vsegment(m) /\ f = Frame(m, x)
    BY <1>0, <1>10, MemIs, Zenon DEF Held
  <2>2. /\ m \in Proper /\ f \in Entry /\ f.vmo = m.vmo /\ f.off \in Nat
        /\ f.off = m.offset + (x - m.vpn)
        /\ f.off >= m.offset /\ f.off <= m.offset + m.len - 1
        /\ m.offset \in Nat /\ m.len \in Nat
    <3>1. m \in Proper
      BY <1>0, Zenon DEF Apart
    <3> HIDE DEF f, ms
    <3>2. /\ f \in Entry /\ f.vmo = m.vmo /\ f.off \in Nat
          /\ f.off = m.offset + (x - m.vpn)
          /\ f.off >= m.offset /\ f.off <= m.offset + m.len - 1
      BY <2>1, <3>1, FrameIs, Zenon
    <3> QED
      BY <3>1, <3>2, ProperIs, Zenon
  <2>3. f.off + 1 \in DOMAIN vmos[f.vmo]
    BY <1>0, <1>10, Zenon DEF BackedInv
  <2>4. Held(c, x)' = [f EXCEPT !.vmo = new[m]]
    BY <1>3, <1>7, <2>1, Zenon DEF Held
  <2> HIDE DEF f
  <2>5. Held(c, x)'.vmo = new[m] /\ Held(c, x)'.off = f.off /\ Held(c, x)'.perm = f.perm
    BY <2>2, <2>4, Zenon DEF Entry
  <2>6. Held(c, x)' # Invalid
    <3>1. Invalid.vmo = 0 /\ new[m] # 0
      BY <1>2, SizeAssumption DEF Invalid, VmoIds
    <3> QED
      BY <2>5, <3>1, Zenon
  <2>7. /\ f.off + 1 \in DOMAIN CopyOf(m)
        /\ CopyOf(m)[f.off + 1] = vmos[f.vmo][f.off + 1]
    <3>1. f.off + 1 - 1 \in m.offset .. m.offset + m.len - 1
      BY <2>2
    <3> QED
      BY <2>2, <2>3, <3>1 DEF CopyOf
  <2> QED
    BY <1>9, <2>2, <2>5, <2>6, <2>7, Zenon DEF f
<1>11. \A x \in Pages : Held(p, x) = Invalid => Held(c, x)' = Invalid
  BY <1>3, <1>7, Zenon DEF Held
<1>12. Gained(c, copied)
  <2>1. ASSUME NEW x \in Pages, Held(c, x)' # Invalid
        PROVE  /\ Held(c, x)'.vmo \notin InUse(vmar)
               /\ Held(c, x)'.off + 1 \in DOMAIN copied[Held(c, x)'.vmo]
    <3>1. Held(p, x) # Invalid
      BY <1>11, <2>1, Zenon
    <3>2. PICK m \in ms : /\ Held(c, x)'.vmo = new[m] /\ Held(c, x)'.off = Held(p, x).off
                          /\ Held(p, x).off + 1 \in DOMAIN copied[new[m]]
      BY <1>10, <3>1, Zenon
    <3>3. new[m] \notin InUse(vmar)
      BY <1>2, Zenon
    <3> QED
      BY <3>2, <3>3, Zenon
  <2>2. ASSUME NEW x \in Pages, NEW y \in Pages, Held(c, x)' # Invalid, Held(c, y)' # Invalid,
               Held(c, x)'.vmo = Held(c, y)'.vmo
        PROVE  x - Held(c, x)'.off = y - Held(c, y)'.off
    <3>1. Held(p, x) # Invalid /\ Held(p, y) # Invalid
      BY <1>11, <2>2, Zenon
    <3>2. PICK m \in ms : Held(c, x)'.vmo = new[m] /\ Held(c, x)'.off = m.offset + (x - m.vpn)
      BY <1>10, <3>1, Zenon
    <3>3. PICK n \in ms : Held(c, y)'.vmo = new[n] /\ Held(c, y)'.off = n.offset + (y - n.vpn)
      BY <1>10, <3>1, Zenon
    <3>4. m = n
      BY <1>2, <2>2, <3>2, <3>3, Zenon
    <3>5. m.offset \in Nat /\ m.vpn \in Nat /\ x \in Nat /\ y \in Nat
      BY <1>0, ProperIs, SizeAssumption DEF Apart, Pages
    <3>6. x - (m.offset + (x - m.vpn)) = y - (m.offset + (y - m.vpn))
      BY <3>5
    <3> QED
      BY <3>2, <3>3, <3>4, <3>6, Zenon
  <2> QED
    BY <1>7, <1>9, <2>1, <2>2, Zenon DEF Gained
<1>13. FramesInv' /\ BackedInv'
  BY <1>0, <1>8, <1>12, GainSound, Zenon
<1>14. /\ view' \in [Procs -> [Pages -> [val : Int, perm : Perms \cup {"none"}]]]
       /\ view'[c] = view[p] /\ \A q \in Procs : q # c => view'[q] = view[q]
       /\ heapTop' \in [Procs -> Nat] /\ \A q \in Procs : q # c => heapTop'[q] = heapTop[q]
  BY <1>0, <1>1, Zenon
<1>15. TypesInv'
  BY <1>0, <1>1, <1>5, <1>8, <1>14, Zenon DEF TypesInv, KeepsVmos
<1>16. SeenInv'
  <2> SUFFICES ASSUME NEW q \in alive', NEW x \in Pages
               PROVE  SeenAt(q, x)'
    BY Zenon DEF SeenInv
  <2>1. CASE q = c /\ Held(p, x) = Invalid
    <3>1. view[p][x] = None
      BY <1>0, <2>1, Zenon DEF SeenInv, SeenAt
    <3> QED
      BY <1>11, <1>14, <2>1, <3>1, Zenon DEF SeenAt
  <2>2. CASE q = c /\ Held(p, x) # Invalid
    <3>1. PICK m \in ms :
                /\ Held(c, x)' # Invalid /\ Held(c, x)'.vmo = new[m]
                /\ Held(c, x)'.off = Held(p, x).off /\ Held(c, x)'.perm = Held(p, x).perm
                /\ copied[new[m]][Held(p, x).off + 1] = vmos[Held(p, x).vmo][Held(p, x).off + 1]
      BY <1>10, <2>2, Zenon
    <3>2. vmos'[new[m]] = copied[new[m]]
      BY <1>8, <3>1 DEF KeepsVmos
    <3>3. /\ view[p][x].val = vmos[Held(p, x).vmo][Held(p, x).off + 1]
          /\ view[p][x].perm = Held(p, x).perm
      BY <1>0, <2>2, Zenon DEF SeenInv, SeenAt
    <3> QED
      BY <1>14, <2>2, <3>1, <3>2, <3>3, Zenon DEF SeenAt
  <2>3. CASE q # c
    <3>1. q \in alive /\ q \in Procs
      BY <1>0, <1>1, <2>3, Zenon
    <3>2. Held(q, x)' = Held(q, x) /\ view'[q][x] = view[q][x]
      BY <1>7, <1>14, <2>3, <3>1, Zenon
    <3> QED
      BY <1>0, <1>8, <1>12, <3>1, <3>2, GainSeen, Zenon
  <2> QED
    BY <2>1, <2>2, <2>3, Zenon
<1>17. HeapInv'
  <2> SUFFICES ASSUME NEW q \in alive' \ forked'
               PROVE  HeapAt(q)'
    BY Zenon DEF HeapInv
  <2>1. q \in alive \ forked /\ q # c /\ q \in Procs
    BY <1>0, <1>1, Zenon
  <2>2. heapTop'[q] = heapTop[q]
    BY <1>14, <2>1, Zenon
  <2>3. HeapAt(q)
    BY <1>0, <2>1, Zenon DEF HeapInv
  <2>4. \A x \in Pages : Held(q, x)' = Held(q, x)
    BY <1>7, <2>1, Zenon
  <2> QED
    BY <2>2, <2>3, <2>4, StillHeap, Zenon
<1> QED
  BY <1>6, <1>13, <1>15, <1>16, <1>17, Zenon DEF IInv

\* A store of the program, by the page table.
LEMMA StorePreserves ==
    ASSUME IInv, NEW p \in Procs, NEW x \in Pages, Store(p, x, 1)
    PROVE  IInv'
<1> DEFINE f == vmar[p].pagetable[x]
<1>1. p \in alive /\ f.perm = "rw" /\ Put(f, 1) /\ Saw(p, x, 1)
      /\ UNCHANGED <<vmar, heapTop, alive, forked>>
  BY Zenon DEF Store, Mapped
<1>2. Invalid.perm = "none"
  BY Zenon DEF Invalid
<1>3. f # Invalid
  BY <1>1, <1>2, Zenon
<1>4. f = Held(p, x)
  BY <1>3, Zenon DEF IInv, SpacesInv, Sound, Held
<1> HIDE DEF f
<1> QED
  BY <1>1, <1>3, <1>4, WritePreserves

\* copyout, by the mappings.
LEMMA CopyoutPreserves ==
    ASSUME IInv, NEW p \in Procs, NEW x \in Pages, copyout(p, x, 1)
    PROVE  IInv'
<1> DEFINE m == find(vmar[p].mappings, x)
<1>1. p \in alive /\ m # NoMapping /\ Put(Frame(m, x), 1) /\ Saw(p, x, 1)
      /\ UNCHANGED <<vmar, heapTop, alive, forked>>
  BY Zenon DEF copyout, Mapped
<1>2. Apart(vmar[p].mappings)
  BY Zenon DEF IInv, SpacesInv, Sound
<1>3. m \in Proper /\ x \in vsegment(m)
  <2>1. m \in vmar[p].mappings /\ x \in vsegment(m)
    BY <1>1, <1>2, FindIs, Zenon
  <2> QED
    BY <1>2, <2>1, Zenon DEF Apart
<1>4. Frame(m, x) = Held(p, x)
  BY <1>1, Zenon DEF Held, Mem
<1>5. Frame(m, x) # Invalid
  BY <1>3, FrameIs, Zenon
<1> HIDE DEF m
<1> QED
  BY <1>1, <1>4, <1>5, WritePreserves

\* The invariant holds at the start, where nothing is mapped.
LEMMA InitIInv ==
    ASSUME Init
    PROVE  IInv
<1>1. Apart({}) /\ \A x \in Pages : Mem({}, x) = Invalid
  <2>1. Apart({})
    BY Zenon DEF Apart
  <2> QED
    BY <2>1, MemIs, Zenon DEF contains
<1>2. Sound(Empty) /\ Empty.mappings = {}
  <2> DEFINE pt == [x \in Pages |-> Invalid]
  <2>1. pt \in [Pages -> Entry] /\ \A x \in Pages : pt[x] = Invalid
    BY DEF Invalid, Entry
  <2>2. Empty = [mappings |-> {}, pagetable |-> pt]
    BY Zenon DEF Empty
  <2> HIDE DEF pt
  <2>3. Empty \in Space /\ Empty.mappings = {} /\ Empty.pagetable = pt
    BY <2>1, <2>2, Zenon DEF Space
  <2> QED
    BY <1>1, <2>1, <2>3, Zenon DEF Sound
<1>3. DOMAIN vmar = Procs /\ \A p \in Procs : vmar[p] = Empty
  BY Zenon DEF Init
<1>4. \A p \in Procs, x \in Pages : Held(p, x) = Invalid
  BY <1>1, <1>2, <1>3, Zenon DEF Held
<1>5. SpacesInv
  BY <1>2, <1>3, Zenon DEF SpacesInv
<1>6. view \in [Procs -> [Pages -> [val : Int, perm : Perms \cup {"none"}]]]
  <2>1. None \in [val : Int, perm : Perms \cup {"none"}]
    BY DEF None, gone
  <2> QED
    BY <2>1, Zenon DEF Init
<1>7. \A p \in Procs, x \in Pages : view[p][x] = None
  BY Zenon DEF Init
<1>8. heapTop \in [Procs -> Nat] /\ \A p \in Procs : heapTop[p] = 2
  BY Zenon DEF Init, heapBottom
<1>9. alive \subseteq Procs /\ DOMAIN vmos = VmoIds
  BY FirstAssumption, Zenon DEF Init
<1>10. TypesInv
  BY <1>3, <1>6, <1>8, <1>9, Zenon DEF TypesInv
<1>11. FramesInv /\ BackedInv
  BY <1>4, Zenon DEF FramesInv, BackedInv
<1>12. SeenInv
  <2>1. \A p \in Procs, x \in Pages : SeenAt(p, x)
    BY <1>4, <1>7, Zenon DEF SeenAt
  <2> QED
    BY <1>9, <2>1, Zenon DEF SeenInv
<1>13. HeapInv
  <2>1. \A p \in Procs : HeapAt(p)
    <3>1. addr2pn(2) = 1 /\ pn2addr(1) = 2 /\ 1 >= 1
      BY DEF addr2pn, pn2addr
    <3> QED
      BY <1>4, <1>8, <3>1, Zenon DEF HeapAt
  <2> QED
    BY <1>9, <2>1, Zenon DEF HeapInv
<1> QED
  BY <1>5, <1>10, <1>11, <1>12, <1>13, Zenon DEF IInv

(***************************************************************************)
(* What IInv says of the properties.                                       *)
(***************************************************************************)
LEMMA InSyncHolds ==
    ASSUME IInv
    PROVE  InSync
<1>0. alive \subseteq Procs /\ SpacesInv /\ SeenInv
  BY Zenon DEF IInv, TypesInv
<1>1. NoOverlap
  <2> SUFFICES ASSUME NEW p \in alive, NEW m \in vmar[p].mappings, NEW n \in vmar[p].mappings,
                      m # n, NEW x \in vsegment(m), x \in vsegment(n)
               PROVE  FALSE
    BY Zenon DEF NoOverlap
  <2>1. m \in Proper /\ n \in Proper /\ (vend(m) < n.vpn \/ vend(n) < m.vpn)
    BY <1>0, Zenon DEF SpacesInv, Sound, Apart
  <2>2. /\ m.vpn \in Nat /\ vend(m) \in Nat /\ n.vpn \in Nat /\ vend(n) \in Nat /\ x \in Nat
        /\ m.vpn <= x /\ x <= vend(m) /\ n.vpn <= x /\ x <= vend(n)
    BY <2>1, ProperIs, Zenon
  <2> QED
    BY <2>1, <2>2
<1>2. ASSUME NEW p \in alive, NEW x \in Pages, vmar[p].pagetable[x] # Invalid
      PROVE  /\ find(vmar[p].mappings, x) # NoMapping
             /\ vmar[p].pagetable[x] = Frame(find(vmar[p].mappings, x), x)
             /\ view[p][x] # None
  <2>1. p \in Procs /\ vmar[p].pagetable[x] = Held(p, x) /\ Held(p, x) # Invalid
    BY <1>0, <1>2, Zenon DEF SpacesInv, Sound, Held
  <2>2. view[p][x].perm \in Perms
    BY <1>0, <2>1, HeldIs, Zenon DEF SeenInv, SeenAt
  <2>3. None.perm = "none" /\ "none" \notin Perms
    BY Zenon DEF None, Perms
  <2> QED
    BY <2>1, <2>2, <2>3, Zenon DEF Held, Mem
<1> QED
  BY <1>1, <1>2, Zenon DEF InSync

\* What a program sees in its pages is what the frames behind them hold.
LEMMA MemoryHolds ==
    ASSUME IInv
    PROVE  MemoryExact
<1>0. alive \subseteq Procs /\ SpacesInv /\ SeenInv /\ BackedInv
  BY Zenon DEF IInv, TypesInv
<1> SUFFICES ASSUME NEW p \in alive, NEW x \in Pages, view[p][x] # None
             PROVE  /\ Holds(Reached(p, x)) = view[p][x].val
                    /\ Reached(p, x).perm = view[p][x].perm
  BY Zenon DEF MemoryExact
<1> DEFINE f == Held(p, x)
<1>1. /\ p \in Procs /\ f # Invalid
      /\ view[p][x].val = vmos[f.vmo][f.off + 1] /\ view[p][x].perm = f.perm
  BY <1>0, Zenon DEF SeenInv, SeenAt
<1>2. f.vmo # 0 /\ f.off + 1 \in DOMAIN vmos[f.vmo]
  BY <1>0, <1>1, HeldIs, Zenon DEF BackedInv
<1>3. f = Frame(find(vmar[p].mappings, x), x)
  BY <1>1, Zenon DEF Held, Mem
<1>4. Reached(p, x) = f
  <2>1. vmar[p].pagetable[x] # Invalid => vmar[p].pagetable[x] = f
    BY <1>0, <1>1, Zenon DEF SpacesInv, Sound, Held
  <2> QED
    BY <1>3, <2>1, Zenon DEF Reached
<1> HIDE DEF f
<1>5. Holds(f) = vmos[f.vmo][f.off + 1]
  BY <1>2, Zenon DEF Holds
<1> QED
  BY <1>1, <1>4, <1>5, Zenon

-----------------------------------------------------------------------------
(***************************************************************************)
(* The loop of unmap and protect, for any number of rounds.  Induction is  *)
(* by the least round at which something would be wrong; that there is one *)
(* is LeastExists, the library's theorem that < is well-founded.  Its      *)
(* module comes last, since all that follows it pays for its size.         *)
(***************************************************************************)
LeastNumber ==
    \A T \in SUBSET Nat : T # {} => \E x \in T : \A y \in T : x <= y

\* The loop of unmap and protect up to n as a function of the rounds.
Rounds(f, n, a, l, r, perm) ==
    f = [k \in 0 .. n |-> IF k = 0 THEN a ELSE StepAt(f[k - 1], k, l, r, perm)]

\* Such a function exists for every n: there is no least n for which none does.
LEMMA RoundsExist ==
    ASSUME LeastNumber, NEW a, NEW l, NEW r, NEW perm
    PROVE  \A n \in Nat : \E f : Rounds(f, n, a, l, r, perm)
<1> DEFINE T == {n \in Nat : ~ \E f : Rounds(f, n, a, l, r, perm)}
<1> SUFFICES ASSUME T # {}
             PROVE  FALSE
  BY Zenon
<1>1. T \in SUBSET Nat
  BY Zenon
<1>2. PICK n \in T : \A y \in T : n <= y
  BY <1>1, Zenon DEF LeastNumber
<1>3. n \in Nat /\ ~ \E f : Rounds(f, n, a, l, r, perm)
  BY <1>2, Zenon
<1>4. CASE n = 0
  <2> DEFINE f == [k \in 0 .. 0 |-> a]
  <2>1. f = [k \in 0 .. 0 |-> IF k = 0 THEN a ELSE StepAt(f[k - 1], k, l, r, perm)]
    OBVIOUS
  <2>2. Rounds(f, n, a, l, r, perm)
    BY <1>4, <2>1, Zenon DEF Rounds
  <2> QED
    BY <1>3, <2>2, Zenon
<1>5. CASE n # 0
  <2>1. n - 1 \in Nat /\ ~ (n <= n - 1)
    BY <1>3, <1>5
  <2>2. n - 1 \notin T
    BY <1>2, <2>1, Zenon
  <2>3. PICK g : Rounds(g, n - 1, a, l, r, perm)
    BY <2>1, <2>2, Zenon
  <2> DEFINE f == [k \in 0 .. n |-> IF k = n THEN StepAt(g[n - 1], n, l, r, perm) ELSE g[k]]
             h == [k \in 0 .. n |-> IF k = 0 THEN a ELSE StepAt(f[k - 1], k, l, r, perm)]
  <2>4. ASSUME NEW k \in 0 .. n
        PROVE  f[k] = h[k]
    <3>1. CASE k = n
      <4>1. k - 1 \in 0 .. n /\ k - 1 # n /\ k # 0 /\ k - 1 = n - 1
        BY <1>3, <1>5, <3>1
      <4>2. f[k - 1] = g[n - 1]
        BY <4>1, Zenon
      <4> QED
        BY <3>1, <4>1, <4>2, Zenon
    <3>2. CASE k # n
      <4>1. k \in 0 .. n - 1
        BY <1>3, <3>2
      <4>2. g[k] = IF k = 0 THEN a ELSE StepAt(g[k - 1], k, l, r, perm)
        BY <2>3, <4>1, Zenon DEF Rounds
      <4>3. CASE k = 0
        BY <3>2, <4>2, <4>3, Zenon
      <4>4. CASE k # 0
        <5>1. k - 1 \in 0 .. n /\ k - 1 # n
          BY <1>3, <4>1, <4>4
        <5>2. f[k - 1] = g[k - 1]
          BY <5>1, Zenon
        <5> QED
          BY <3>2, <4>2, <4>4, <5>2, Zenon
      <4> QED
        BY <4>3, <4>4, Zenon
    <3> QED
      BY <3>1, <3>2, Zenon
  <2>5. f = h
    <3>1. f = [k \in 0 .. n |-> f[k]] /\ h = [k \in 0 .. n |-> h[k]]
      OBVIOUS
    <3> HIDE DEF f, h
    <3> QED
      BY <2>4, <3>1, Zenon
  <2>6. Rounds(f, n, a, l, r, perm)
    <3> HIDE DEF f
    <3> QED
      BY <2>5, Zenon DEF Rounds, h
  <2> QED
    BY <1>3, <2>6, Zenon
<1> QED
  BY <1>4, <1>5, Zenon

\* The loop, round by round.
LEMMA CutIs ==
    ASSUME LeastNumber, NEW a, NEW l, NEW r, NEW perm
    PROVE  \E f : /\ f[0] = a
                  /\ \A k \in 1 .. MaxPage : f[k] = StepAt(f[k - 1], k, l, r, perm)
                  /\ Cut(a, l, r, perm) = f[MaxPage]
<1> DEFINE f == CHOOSE g : g = [k \in 0 .. MaxPage |->
                                   IF k = 0 THEN a ELSE StepAt(g[k - 1], k, l, r, perm)]
<1>1. Cut(a, l, r, perm) = f[MaxPage]
  BY Zenon DEF Cut
<1>2. Rounds(f, MaxPage, a, l, r, perm)
  <2>1. \E g : Rounds(g, MaxPage, a, l, r, perm)
    BY RoundsExist, SizeAssumption, Zenon
  <2>2. \E g : g = [k \in 0 .. MaxPage |->
                       IF k = 0 THEN a ELSE StepAt(g[k - 1], k, l, r, perm)]
    BY <2>1, Zenon DEF Rounds
  <2>3. f = [k \in 0 .. MaxPage |-> IF k = 0 THEN a ELSE StepAt(f[k - 1], k, l, r, perm)]
    BY <2>2, Zenon
  <2> HIDE DEF f
  <2> QED
    BY <2>3, Zenon DEF Rounds
<1> HIDE DEF f
<1>3. \A k \in 0 .. MaxPage : f[k] = IF k = 0 THEN a ELSE StepAt(f[k - 1], k, l, r, perm)
  BY <1>2, Zenon DEF Rounds
<1>4. f[0] = a /\ \A k \in 1 .. MaxPage : f[k] = StepAt(f[k - 1], k, l, r, perm)
  <2>1. 0 \in 0 .. MaxPage /\ \A k \in 1 .. MaxPage : k \in 0 .. MaxPage /\ k # 0
    BY SizeAssumption
  <2> QED
    BY <1>3, <2>1, Zenon
<1> QED
  BY <1>1, <1>4, Zenon

(***************************************************************************)
(* VMAR::unmap and VMAR::protect of a region that begins no mapping in the *)
(* middle: its pages hold nothing, or have the new permission, and all     *)
(* others hold what they held.                                             *)
(***************************************************************************)
LEMMA CutSound ==
    ASSUME LeastNumber, NEW a, Sound(a), NEW perm \in Perms \cup {"none"},
           NEW l \in Nat, NEW r \in Nat, l <= r,
           \A m \in a.mappings : Overlaps(m, l, r) => l <= m.vpn
    PROVE  /\ Sound(Cut(a, l, r, perm))
           /\ \A x \in Pages : Mem(Cut(a, l, r, perm).mappings, x) =
                 IF x \in l .. r THEN Target(Mem(a.mappings, x), perm) ELSE Mem(a.mappings, x)
<1>1. PICK f : /\ f[0] = a
               /\ \A k \in 1 .. MaxPage : f[k] = StepAt(f[k - 1], k, l, r, perm)
               /\ Cut(a, l, r, perm) = f[MaxPage]
  BY CutIs
<1> DEFINE Good(k) == LoopInv(a, f[k], k, l, r, perm)
<1>2. Good(0)
  <2>1. \A m \in a.mappings : 0 < m.vpn
    <3> TAKE m \in a.mappings
    <3>1. m.vpn \in Nat /\ m.vpn >= 1
      BY ProperIs, Zenon DEF Sound, Apart
    <3> QED
      BY <3>1
  <2> QED
    BY <1>1, <2>1, Zenon DEF LoopInv
<1>3. ASSUME NEW k \in 1 .. MaxPage, Good(k - 1)
      PROVE  Good(k)
  <2> DEFINE j == k - 1
  <2>1. j \in Nat /\ k = j + 1
    OBVIOUS
  <2>2. f[k] = StepAt(f[j], j + 1, l, r, perm)
    BY <1>1, <2>1, Zenon
  <2>3. LoopInv(a, f[j], j, l, r, perm)
    BY <1>3, Zenon
  <2> HIDE DEF j
  <2>4. LoopInv(a, StepAt(f[j], j + 1, l, r, perm), j + 1, l, r, perm)
    BY <2>1, <2>3, StepSound, Zenon
  <2> QED
    BY <2>1, <2>2, <2>4, Zenon
<1>4. \A k \in 0 .. MaxPage : Good(k)
  <2> DEFINE T == {k \in 0 .. MaxPage : ~Good(k)}
  <2> HIDE DEF Good
  <2> SUFFICES ASSUME T # {}
               PROVE  FALSE
    BY Zenon
  <2>1. T \in SUBSET Nat
    BY SizeAssumption
  <2>2. PICK k \in T : \A y \in T : k <= y
    BY <2>1, Zenon DEF LeastNumber
  <2>3. k \in 0 .. MaxPage /\ ~Good(k) /\ k # 0
    BY <1>2, <2>2, Zenon
  <2>4. k \in 1 .. MaxPage /\ k - 1 \in 0 .. MaxPage /\ ~ (k <= k - 1)
    BY <2>3, SizeAssumption
  <2>5. Good(k - 1)
    BY <2>2, <2>4, Zenon
  <2> QED
    BY <1>3, <2>3, <2>4, <2>5, Zenon
<1> DEFINE c == Cut(a, l, r, perm)
<1>5. LoopInv(a, c, MaxPage, l, r, perm)
  <2>1. MaxPage \in 0 .. MaxPage
    BY SizeAssumption
  <2> QED
    BY <1>1, <1>4, <2>1, Zenon
<1> HIDE DEF c
<1>6. Sound(c) /\ Apart(c.mappings) /\ Apart(a.mappings)
  BY <1>5, Zenon DEF LoopInv, Sound
<1>7. ASSUME NEW x \in Pages, x \in l .. r
      PROVE  Mem(c.mappings, x) = Target(Mem(a.mappings, x), perm)
  <2> DEFINE f0 == Mem(a.mappings, x)
             g == Mem(c.mappings, x)
  <2>1. g = f0 \/ g = Target(f0, perm)
    BY <1>5, <1>7, Zenon DEF LoopInv
  <2>2. CASE g = Invalid
    BY <2>1, <2>2, Zenon DEF Target
  <2>3. CASE g # Invalid
    <3>1. PICK m \in c.mappings : x \in vsegment(m) /\ g = Frame(m, x)
      BY <1>6, <2>3, MemIs, Zenon
    <3>2. m \in Proper /\ m.vpn \in Nat /\ m.vpn <= MaxPage /\ m.perm \in Perms
      BY <1>6, ProperIs DEF Apart, Pages
    <3>3. x \in Nat /\ m.vpn <= x /\ x <= vend(m) /\ vend(m) \in Nat
      BY <3>1, <3>2, ProperIs, Zenon
    <3>4. Overlaps(m, l, r)
      <4>1. l <= x /\ x <= r
        BY <1>7
      <4>2. m.vpn <= r /\ l <= vend(m)
        BY <3>2, <3>3, <4>1
      <4> QED
        BY <3>2, <4>2, OverlapsIs, Zenon
    <3>5. m.perm = perm
      BY <1>5, <3>2, <3>4, SizeAssumption DEF LoopInv
    <3>6. perm # "none"
      BY <3>2, <3>5, Zenon DEF Perms
    <3>7. g.perm = perm
      BY <3>1, <3>2, <3>5, FrameIs, Zenon
    <3>8. f0 \in Entry
      BY <1>6, MemType, Zenon
    <3> HIDE DEF f0, g
    <3>9. CASE g = f0
      <4>1. [f0 EXCEPT !.perm = perm] = f0
        BY <3>7, <3>8, <3>9, Zenon DEF Entry
      <4> QED
        BY <2>3, <3>6, <3>9, <4>1, Zenon DEF Target, f0, g
    <3> QED
      BY <2>1, <3>9, Zenon DEF f0, g
  <2> QED
    BY <2>2, <2>3, Zenon
<1> QED
  BY <1>5, <1>6, <1>7, Zenon DEF LoopInv, c

\* unmap and protect, where no mapping begins before the region and reaches
\* into it.
LEMMA CutPreserves ==
    ASSUME LeastNumber, IInv, NEW p \in alive, NEW l \in Nat, NEW r \in Nat, l <= r,
           NEW perm \in Perms \cup {"none"}, NEW use \in {"whole", "prefix"},
           Suits(use, p, l, r), ViewCut(p, l, r, perm),
           vmar' = [vmar EXCEPT ![p] = Cut(vmar[p], l, r, perm)],
           vmos' = Kept(vmos, vmar'), UNCHANGED <<heapTop, alive, forked>>
    PROVE  IInv'
<1>0. /\ p \in Procs /\ Sound(vmar[p]) /\ DOMAIN vmar = Procs
      /\ TypesInv /\ SpacesInv /\ FramesInv /\ BackedInv /\ SeenInv /\ HeapInv
  BY Zenon DEF IInv, TypesInv, SpacesInv
<1>1. \A m \in vmar[p].mappings : Overlaps(m, l, r) => l <= m.vpn
  <2> SUFFICES ASSUME NEW m \in vmar[p].mappings, Overlaps(m, l, r)
               PROVE  l <= m.vpn
    BY Zenon
  <2>1. m \in Proper /\ ~(m.vpn < l /\ l <= vend(m))
    BY <1>0, Zenon DEF Suits, Sound, Apart
  <2>2. m.vpn \in Nat /\ l <= vend(m)
    BY <2>1, ProperIs, OverlapsIs, Zenon
  <2> QED
    BY <2>1, <2>2
<1> DEFINE c == Cut(vmar[p], l, r, perm)
<1>2. /\ Sound(c)
      /\ \A x \in Pages : Mem(c.mappings, x) =
            IF x \in l .. r THEN Target(Held(p, x), perm) ELSE Held(p, x)
  BY <1>0, <1>1, CutSound DEF Held
<1> HIDE DEF c
<1>3. DOMAIN vmar' = Procs /\ vmar'[p] = c /\ \A q \in Procs : q # p => vmar'[q] = vmar[q]
  BY <1>0, Zenon DEF c
<1>4. SpacesInv'
  BY <1>0, <1>2, <1>3, Zenon DEF SpacesInv
<1>5. /\ \A q \in Procs, x \in Pages : q # p => Held(q, x)' = Held(q, x)
      /\ \A x \in Pages : x \notin l .. r => Held(p, x)' = Held(p, x)
      /\ \A x \in Pages : x \in l .. r => Held(p, x)' = Target(Held(p, x), perm)
  BY <1>2, <1>3, Zenon DEF Held
<1>6. ASSUME NEW x \in Pages, x \in l .. r, Held(p, x)' # Invalid
      PROVE  /\ perm # "none" /\ Held(p, x) # Invalid
             /\ Held(p, x)'.vmo = Held(p, x).vmo /\ Held(p, x)'.off = Held(p, x).off
             /\ Held(p, x)'.perm = perm
  <2>1. Held(p, x)' = Target(Held(p, x), perm)
    BY <1>5, <1>6, Zenon
  <2>2. Held(p, x) # Invalid
    BY <1>6, <2>1, Zenon DEF Target
  <2>3. Held(p, x) \in Entry /\ Held(p, x).vmo # 0
    BY <1>0, <2>2, HeldIs, Zenon
  <2> QED
    BY <1>6, <2>1, <2>2, <2>3, TargetIs
<1>7. Fewer
  BY <1>5, <1>6 DEF Fewer
<1>8. KeepsVmos(vmos)
  BY <1>4, KeptIs, Zenon
<1>9. FramesInv' /\ BackedInv'
  BY <1>0, <1>7, <1>8, FewerSound, Zenon
<1>10. SeenInv'
  <2> SUFFICES ASSUME NEW q \in alive, NEW x \in Pages
               PROVE  SeenAt(q, x)'
    BY Zenon DEF SeenInv
  <2>0. q \in Procs
    BY <1>0, Zenon DEF TypesInv
  <2>1. /\ Held(q, x) = Invalid => view[q][x] = None
        /\ Held(q, x) # Invalid =>
              /\ view[q][x].val = vmos[Held(q, x).vmo][Held(q, x).off + 1]
              /\ view[q][x].perm = Held(q, x).perm
    BY <1>0, Zenon DEF SeenInv, SeenAt
  <2>2. Held(q, x)' # Invalid => vmos'[Held(q, x)'.vmo] = vmos[Held(q, x)'.vmo]
    BY <1>8, <2>0, Zenon DEF KeepsVmos
  <2>3. CASE q # p \/ x \notin l .. r
    <3>1. Held(q, x)' = Held(q, x) /\ view'[q][x] = view[q][x]
      BY <1>5, <2>0, <2>3, Zenon DEF ViewCut
    <3> QED
      BY <2>1, <2>2, <3>1, Zenon DEF SeenAt
  <2>4. CASE q = p /\ x \in l .. r /\ Held(p, x)' # Invalid
    <3>1. /\ perm # "none" /\ Held(q, x) # Invalid /\ Held(q, x)'.perm = perm
          /\ Held(q, x)'.vmo = Held(q, x).vmo /\ Held(q, x)'.off = Held(q, x).off
      BY <1>6, <2>4, Zenon
    <3>2. view'[q][x].val = view[q][x].val /\ view'[q][x].perm = perm
      BY <2>4, <3>1, Zenon DEF ViewCut
    <3> QED
      BY <2>1, <2>2, <2>4, <3>1, <3>2, Zenon DEF SeenAt
  <2>5. CASE q = p /\ x \in l .. r /\ Held(p, x)' = Invalid
    <3>1. CASE perm = "none"
      BY <2>5, <3>1, Zenon DEF ViewCut, SeenAt
    <3>2. CASE perm # "none"
      <4>1. view[p][x] # None
        BY <2>5, <3>2, Zenon DEF ViewCut
      <4>2. Held(p, x) # Invalid
        BY <2>1, <2>5, <4>1, Zenon
      <4>3. Held(p, x) \in Entry /\ Held(p, x).vmo # 0
        BY <1>0, <4>2, HeldIs, Zenon
      <4>4. Held(p, x)' # Invalid
        BY <1>5, <2>5, <3>2, <4>2, <4>3, TargetIs, Zenon
      <4> QED
        BY <2>5, <4>4, Zenon
    <3> QED
      BY <3>1, <3>2, Zenon
  <2> QED
    BY <2>3, <2>4, <2>5, Zenon
<1>11. HeapInv'
  <2> SUFFICES ASSUME NEW q \in alive \ forked
               PROVE  HeapAt(q)'
    BY Zenon DEF HeapInv
  <2>0. HeapAt(q)
    BY <1>0, Zenon DEF HeapInv
  <2>1. q \in Procs
    BY <1>0, Zenon DEF TypesInv
  <2> QED
    BY <1>7, <2>0, <2>1, StillHeap, Zenon DEF Fewer
<1>12. TypesInv'
  BY <1>0, <1>3, <1>8, Zenon DEF TypesInv, KeepsVmos, ViewCut
<1> QED
  BY <1>4, <1>9, <1>10, <1>11, <1>12, Zenon DEF IInv

\* VMAR::unmap, as munmap and mremap call it.
LEMMA UnmapPreserves ==
    ASSUME LeastNumber, IInv, NEW p \in alive, NEW l \in Nat, NEW r \in Nat, l <= r,
           NEW use \in {"whole", "prefix"}, Suits(use, p, l, r), Unmap(p, l, r)
    PROVE  IInv'
<1>1. p \in Procs /\ view \in [Procs -> [Pages -> [val : Int, perm : Perms \cup {"none"}]]]
  BY Zenon DEF IInv, TypesInv
<1>2. vmar' = [vmar EXCEPT ![p] = Cut(vmar[p], l, r, "none")]
  BY Zenon DEF Unmap, unmap
<1>3. vmos' = Kept(vmos, vmar') /\ UNCHANGED <<heapTop, alive, forked>>
  BY Zenon DEF Unmap
<1>4. ViewCut(p, l, r, "none")
  <2>1. None \in [val : Int, perm : Perms \cup {"none"}]
    BY DEF None, gone
  <2> DEFINE w == [x \in Pages |-> IF x \in l .. r THEN None ELSE view[p][x]]
  <2>2. view' = [view EXCEPT ![p] = w]
    BY Zenon DEF Unmap, See
  <2>3. w \in [Pages -> [val : Int, perm : Perms \cup {"none"}]]
    BY <1>1, <2>1
  <2>4. \A x \in Pages : w[x] = IF x \in l .. r THEN None ELSE view[p][x]
    BY Zenon
  <2> HIDE DEF w
  <2> QED
    BY <1>1, <2>2, <2>3, <2>4, Zenon DEF ViewCut
<1>5. "none" \in Perms \cup {"none"}
  BY Zenon
<1> QED
  BY <1>2, <1>3, <1>4, <1>5, CutPreserves, Zenon

\* VMAR::protect.
LEMMA ProtectPreserves ==
    ASSUME LeastNumber, IInv, ProtectRegions \in {"whole", "prefix"}, NEW p \in Procs,
           NEW l \in Pages, NEW r \in Pages, l <= r, NEW perm \in Perms, mprotect(p, l, r, perm)
    PROVE  IInv'
<1>1. view \in [Procs -> [Pages -> [val : Int, perm : Perms \cup {"none"}]]]
  BY Zenon DEF IInv, TypesInv
<1>2. vmar' = [vmar EXCEPT ![p] = Cut(vmar[p], l, r, perm)]
  BY Zenon DEF mprotect, protect
<1>3. /\ vmos' = Kept(vmos, vmar') /\ UNCHANGED <<heapTop, alive, forked>>
      /\ p \in alive /\ Suits(ProtectRegions, p, l, r)
  BY Zenon DEF mprotect
<1>4. perm # "none" /\ perm \in Perms \cup {"none"} /\ l \in Nat /\ r \in Nat
  BY SizeAssumption DEF Perms, Pages
<1>5. ViewCut(p, l, r, perm)
  <2> DEFINE w == [x \in Pages |-> IF x \in l .. r THEN [view[p][x] EXCEPT !.perm = perm] ELSE view[p][x]]
  <2>1. view' = [view EXCEPT ![p] = w]
    BY Zenon DEF mprotect
  <2>2. \A x \in Pages : x \in l .. r => view[p][x] # None
    BY Zenon DEF mprotect
  <2>3. w \in [Pages -> [val : Int, perm : Perms \cup {"none"}]]
    BY <1>1, <1>4
  <2>4. \A x \in Pages : /\ x \notin l .. r => w[x] = view[p][x]
                         /\ x \in l .. r => w[x].val = view[p][x].val /\ w[x].perm = perm
    BY <1>1
  <2> HIDE DEF w
  <2> QED
    BY <1>1, <1>4, <2>1, <2>2, <2>3, <2>4, Zenon DEF ViewCut
<1> QED
  BY <1>2, <1>3, <1>4, <1>5, CutPreserves, Zenon

\* munmap, of a region that contains a page of a mapping.
LEMMA MunmapPreserves ==
    ASSUME LeastNumber, IInv, Supported, NEW p \in Procs, NEW l \in Pages, NEW r \in Pages, l <= r,
           munmap(p, l, r)
    PROVE  IInv'
<1>1. p \in alive /\ Suits(UnmapRegions, p, l, r) /\ Unmap(p, l, r)
  BY Zenon DEF munmap
<1>2. l \in Nat /\ r \in Nat /\ UnmapRegions \in {"whole", "prefix"}
  BY SizeAssumption DEF Pages, Supported
<1> QED
  BY <1>1, <1>2, UnmapPreserves, Zenon

\* mremap to a smaller size: the pages behind.
LEMMA MremapPreserves ==
    ASSUME LeastNumber, IInv, Supported, NEW p \in Procs, NEW x \in Pages, NEW o \in Pages,
           NEW n \in 0 .. MaxPage, mremap(p, x, o, n)
    PROVE  IInv'
<1> DEFINE l == x + n
           r == x + o - 1
<1>1. p \in alive /\ n < o /\ Suits(UnmapRegions, p, l, r) /\ Unmap(p, l, r)
  BY Zenon DEF mremap
<1>2. UnmapRegions \in {"whole", "prefix"}
  BY Zenon DEF Supported
<1>3. l \in Nat /\ r \in Nat /\ l <= r
  BY <1>1, SizeAssumption DEF Pages
<1> HIDE DEF l, r
<1> QED
  BY <1>1, <1>2, <1>3, UnmapPreserves, Zenon

\* Every step keeps the invariant.
LEMMA NextIInv ==
    ASSUME LeastNumber, Supported, IInv, [Next]_vars
    PROVE  IInv'
<1>1. CASE \E p \in Procs, len \in Lens : mmap(p, len, "rw")
  BY <1>1, MmapPreserves, Zenon
<1>2. CASE \E p \in Procs, l, r \in Pages : l <= r /\ munmap(p, l, r)
  BY <1>2, MunmapPreserves, Zenon
<1>3. CASE \E p \in Procs, x, o \in Pages, n \in 0 .. MaxPage : mremap(p, x, o, n)
  BY <1>3, MremapPreserves, Zenon
<1>4. CASE \E p \in Procs, l, r \in Pages, perm \in Perms : l <= r /\ mprotect(p, l, r, perm)
  <2>1. ProtectRegions \in {"whole", "prefix"}
    BY Zenon DEF Supported
  <2> QED
    BY <1>4, <2>1, ProtectPreserves, Zenon
<1>5. CASE \E p \in Procs, addr \in 1 .. pn2addr(MaxPage) : brk(p, addr)
  BY <1>5, BrkPreserves, Zenon
<1>6. CASE \E p, c \in Procs : fork(p, c)
  BY <1>6, ForkPreserves, Zenon
<1>7. CASE \E p \in Procs : execve(p)
  BY <1>7, ExecvePreserves, Zenon
<1>8. CASE \E p \in Procs, x \in Pages : pfhandler(p, x)
  BY <1>8, FaultPreserves, Zenon
<1>9. CASE \E p \in Procs, x \in Pages : Store(p, x, 1) \/ copyout(p, x, 1)
  BY <1>9, StorePreserves, CopyoutPreserves, Zenon
<1>10. CASE UNCHANGED vars
  <2>1. UNCHANGED <<vmar, vmos, heapTop, alive, forked, view>>
    BY <1>10, Zenon DEF vars
  <2> QED
    <3>1. TypesInv' /\ SpacesInv'
      BY <2>1, Zenon DEF IInv, TypesInv, SpacesInv
    <3>2. FramesInv' /\ BackedInv'
      BY <2>1 DEF IInv, FramesInv, BackedInv, Held
    <3>3. SeenInv'
      BY <2>1, Zenon DEF IInv, SeenInv, SeenAt, Held
    <3>4. HeapInv'
      <4>1. \A p, x : Held(p, x)' = Held(p, x)
        BY <2>1, Zenon DEF Held
      <4>2. \A p : HeapAt(p) => HeapAt(p)'
        BY <2>1, <4>1, StillHeap, Zenon
      <4> QED
        BY <2>1, <4>2, Zenon DEF IInv, HeapInv
    <3> QED
      BY <3>1, <3>2, <3>3, <3>4, Zenon DEF IInv
<1> QED
  BY <1>1, <1>2, <1>3, <1>4, <1>5, <1>6, <1>7, <1>8, <1>9, <1>10, Zenon DEF Next

-----------------------------------------------------------------------------
LOCAL INSTANCE WellFoundedInduction

\* A set of numbers has a least one, which is what induction is made of.
LEMMA LeastExists == LeastNumber
<1> SUFFICES ASSUME NEW T \in SUBSET Nat, T # {}
             PROVE  \E x \in T : \A y \in T : x <= y
  BY Zenon DEF LeastNumber
<1>1. PICK x \in T : \A y \in T : ~ (<<y, x>> \in OpToRel(<, Nat))
  BY WFMin, NatLessThanWellFounded, Zenon
<1>2. \A y \in T : ~ (y < x)
  BY <1>1, Zenon DEF OpToRel
<1>3. \A y \in T : x <= y
  BY <1>2
<1> QED
  BY <1>3, Zenon

(***************************************************************************)
(* Every behaviour, for any number of processes, pages and VMOs, keeps the *)
(* invariant through mmap, munmap, mremap, mprotect, brk, fork, execve,    *)
(* page faults and writes.                                                 *)
(***************************************************************************)
THEOREM AddressSpaces == ASSUME Supported PROVE Spec => []IInv
<1>1. Init => IInv
  BY InitIInv, Zenon
<1>2. IInv /\ [Next]_vars => IInv'
  BY LeastExists, NextIInv, Zenon
<1> QED
  BY <1>1, <1>2, PTL DEF Spec

(***************************************************************************)
(* Every mapped page is reached, by the page table or by pfhandler, with   *)
(* the permission last asked for, and holds what its process last wrote or *)
(* inherited by fork: VMAR::unmap and protect leave the parts they do not  *)
(* touch alone, and fork's copies are separate.                            *)
(***************************************************************************)
THEOREM MemoryAlwaysExact == ASSUME Supported PROVE Spec => []MemoryExact
<1>1. IInv => MemoryExact
  BY MemoryHolds, Zenon
<1> QED
  BY <1>1, AddressSpaces, PTL

(***************************************************************************)
(* Mappings never overlap, and the page table has no entry but the one     *)
(* pfhandler would make: what munmap, mremap or execve took away is gone.  *)
(***************************************************************************)
THEOREM AlwaysInSync == ASSUME Supported PROVE Spec => []InSync
<1>1. IInv => InSync
  BY InSyncHolds, Zenon
<1> QED
  BY <1>1, AddressSpaces, PTL
=============================================================================
