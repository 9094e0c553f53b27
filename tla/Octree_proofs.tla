------------------------------ MODULE Octree_proofs ------------------------------
(***************************************************************************)
(* Proof of FeltOnce, for any number of particles, any positions and any   *)
(* depth limit, whichever cells count as far.                              *)
(*                                                                         *)
(* OctreeInv is inductive.  While the tree is built: a particle that was   *)
(* inserted has a pending call, or a leaf, or the cell at the depth limit  *)
(* that it falls in is split, and then it crowds with another.  While a    *)
(* force is summed: a particle that has a leaf was felt, or exactly one    *)
(* pending visit is of a cell above that leaf.                             *)
(***************************************************************************)
EXTENDS Octree, SequenceTheorems, TLAPS

LEMMA OctreeSizes == Bodies \in Nat /\ Bodies >= 2 /\ Fan \in Nat /\ Fan > 0 /\ MaxDepth \in Nat
  BY OctreeAssumption

USE OctreeSizes

------------------------------------------------------------------------------
(* The invariant.                                                          *)

Cells == Seq(Octants)

OctreeTypeOK ==
  /\ at \in [Particles -> Positions] /\ off \in SUBSET Particles
  /\ next \in 0..Bodies
  /\ calls \in Seq([cell : Cells, particle : Particles])
  /\ split \in SUBSET Cells
  /\ DOMAIN holds \in SUBSET Cells /\ holds \in [DOMAIN holds -> Particles]
  /\ target \in -1..(Bodies - 1)
  /\ visits \in Seq(Cells)
  /\ felt \in [Particles -> Nat]

\* The cells that a cell is in.
Around(c) == {SubSeq(c, 1, k) : k \in 0..(Len(c) - 1)}

Inserted == {p \in Particles \ off : p < next}
Held == {holds[leaf] : leaf \in DOMAIN holds}
Pending == {calls[k].particle : k \in 1..Len(calls)}

\* The cell at the depth limit that p falls in is split: p was dropped.
Dropped(p) == \E c \in split : Len(c) = MaxDepth /\ IsPrefix(c, at[p])

\* A pending call is of a particle without a leaf, on its way down.
CallsOK ==
  /\ \A k \in 1..Len(calls) :
       /\ calls[k].particle \in Inserted \ Held
       /\ IsPrefix(calls[k].cell, at[calls[k].particle])
       /\ Around(calls[k].cell) \subseteq split
  /\ \A j, k \in 1..Len(calls) : calls[j].particle = calls[k].particle => j = k

LeavesOK ==
  \A leaf \in DOMAIN holds :
    /\ leaf \notin split /\ Len(leaf) <= MaxDepth
    /\ holds[leaf] \in Inserted /\ IsPrefix(leaf, at[holds[leaf]])
    /\ Around(leaf) \subseteq split

\* A cell is split because two particles came to it.
SplitsOK ==
  \A c \in split :
    /\ Len(c) <= MaxDepth /\ Around(c) \subseteq split
    /\ \E p, q \in Inserted : p # q /\ IsPrefix(c, at[p]) /\ IsPrefix(c, at[q])

NoneLost == \A p \in Inserted : p \in Pending \/ p \in Held \/ Dropped(p)

TreeFirst == target # -1 \/ visits # <<>> => Built

TreeOK == CallsOK /\ LeavesOK /\ SplitsOK /\ NoneLost

\* Which pending visits will come by p.
Above(p) == {k \in 1..Len(visits) : p \in Beneath(visits[k])}

ForceOK ==
  target \in Particles \ off =>
    \A p \in Particles \ {target} :
      /\ felt[p] = 0 \/ felt[p] = 1
      /\ felt[p] = 1 => p \in Held /\ Above(p) = {}
      /\ felt[p] = 0 /\ p \in Held => Above(p) # {}
      /\ \A j, k \in Above(p) : j = k

OctreeInv == OctreeTypeOK /\ TreeOK /\ TreeFirst /\ ForceOK

------------------------------------------------------------------------------
(* Cells and the way of a particle through them.                           *)

LEMMA PrefixIs ==
  ASSUME NEW s \in Cells, NEW t \in Cells
  PROVE  IsPrefix(s, t) <=> Len(s) <= Len(t) /\ \A k \in 1..Len(s) : s[k] = t[k]
<1>1. Len(s) \in Nat /\ Len(t) \in Nat /\ DOMAIN s = 1..Len(s) /\ DOMAIN t = 1..Len(t)
  BY DEF Cells
<1>2. ASSUME Len(s) <= Len(t)
      PROVE  SubSeq(s, 1, Len(s)) = SubSeq(t, 1, Len(s)) <=> \A k \in 1..Len(s) : s[k] = t[k]
  <2>1. SubSeq(s, 1, Len(s)) = [k \in 1..Len(s) |-> s[k]]
    BY <1>1 DEF Cells
  <2>2. SubSeq(t, 1, Len(s)) = [k \in 1..Len(s) |-> t[k]]
    BY <1>1, <1>2 DEF Cells
  <2> QED BY <2>1, <2>2
<1> QED BY <1>2 DEF IsPrefix

\* Two cells on one way are one in the other.
LEMMA PrefixTotal ==
  ASSUME NEW a \in Cells, NEW b \in Cells, NEW c \in Cells, IsPrefix(a, c), IsPrefix(b, c)
  PROVE  /\ Len(a) <= Len(b) => IsPrefix(a, b)
         /\ Len(a) = Len(b) => a = b
<1>1. /\ Len(a) \in Nat /\ Len(b) \in Nat /\ Len(c) \in Nat
      /\ a = [k \in 1..Len(a) |-> a[k]] /\ b = [k \in 1..Len(b) |-> b[k]]
  BY DEF Cells
<1>2. /\ \A k \in 1..Len(a) : a[k] = c[k]
      /\ \A k \in 1..Len(b) : b[k] = c[k]
  BY PrefixIs
<1>3. ASSUME Len(a) <= Len(b) PROVE IsPrefix(a, b)
  <2>1. \A k \in 1..Len(a) : a[k] = b[k]
    BY <1>1, <1>2, <1>3
  <2> QED BY <1>3, <2>1, PrefixIs
<1>4. ASSUME Len(a) = Len(b) PROVE a = b
  <2>1. \A k \in 1..Len(a) : a[k] = b[k]
    BY <1>2, <1>4
  <2> QED BY <1>1, <1>4, <2>1
<1> QED BY <1>3, <1>4

LEMMA PrefixTrans ==
  ASSUME NEW a \in Cells, NEW b \in Cells, NEW c \in Cells, IsPrefix(a, b), IsPrefix(b, c)
  PROVE  IsPrefix(a, c)
<1>1. Len(a) \in Nat /\ Len(b) \in Nat /\ Len(c) \in Nat
  BY DEF Cells
<1>2. Len(a) <= Len(b) /\ Len(b) <= Len(c)
  BY PrefixIs
<1>3. \A k \in 1..Len(a) : a[k] = b[k]
  BY PrefixIs
<1>4. \A k \in 1..Len(b) : b[k] = c[k]
  BY PrefixIs
<1>5. ASSUME NEW k \in 1..Len(a) PROVE a[k] = c[k]
  <2>1. k \in 1..Len(b)
    BY <1>1, <1>2
  <2> QED BY <1>3, <1>4, <2>1
<1> QED BY <1>1, <1>2, <1>5, PrefixIs

\* The cells around a cell are its proper prefixes.
LEMMA AroundIs ==
  ASSUME NEW c \in Cells, NEW d \in Cells
  PROVE  d \in Around(c) <=> IsPrefix(d, c) /\ Len(d) < Len(c)
<1>1. Len(c) \in Nat /\ Len(d) \in Nat
  BY DEF Cells
<1>2. ASSUME NEW k \in 0..(Len(c) - 1)
      PROVE  /\ SubSeq(c, 1, k) \in Cells /\ Len(SubSeq(c, 1, k)) = k
             /\ \A m \in 1..k : SubSeq(c, 1, k)[m] = c[m]
  BY <1>1 DEF Cells
<1>3. ASSUME d \in Around(c) PROVE IsPrefix(d, c) /\ Len(d) < Len(c)
  <2>1. PICK k \in 0..(Len(c) - 1) : d = SubSeq(c, 1, k)
    BY <1>3 DEF Around
  <2>2. Len(d) = k /\ \A m \in 1..k : d[m] = c[m]
    BY <1>2, <2>1
  <2>3. Len(d) <= Len(c) /\ Len(d) < Len(c)
    BY <1>1, <2>2
  <2> QED BY <2>2, <2>3, PrefixIs
<1>4. ASSUME IsPrefix(d, c), Len(d) < Len(c) PROVE d \in Around(c)
  <2>1. PICK k \in 0..(Len(c) - 1) : k = Len(d)
    BY <1>1, <1>4
  <2>2. \A m \in 1..k : d[m] = c[m]
    BY <1>4, <2>1, PrefixIs
  <2>3. d = [m \in 1..k |-> d[m]]
    BY <2>1 DEF Cells
  <2>4. SubSeq(c, 1, k) = [m \in 1..k |-> c[m]]
    BY <1>1, <2>1 DEF Cells
  <2>5. d = SubSeq(c, 1, k)
    BY <2>2, <2>3, <2>4
  <2> QED BY <2>1, <2>5 DEF Around
<1> QED BY <1>3, <1>4

\* A particle's position is a cell one level below the deepest.
LEMMA AtIs ==
  ASSUME at \in [Particles -> Positions], NEW p \in Particles
  PROVE  at[p] \in Cells /\ Len(at[p]) = MaxDepth + 1
<1>1. at[p] \in [1..(MaxDepth + 1) -> Octants]
  BY DEF Positions
<1> QED BY <1>1 DEF Cells

\* One cell further: the octant of p in it.
LEMMA ChildIs ==
  ASSUME at \in [Particles -> Positions], NEW p \in Particles,
         NEW c \in Cells, IsPrefix(c, at[p]), Len(c) <= MaxDepth
  PROVE  /\ Child(c, p) \in Cells /\ Len(Child(c, p)) = Len(c) + 1
         /\ IsPrefix(Child(c, p), at[p])
         /\ Around(Child(c, p)) = Around(c) \cup {c}
<1>1. PICK t \in Cells : t = at[p] /\ Len(t) = MaxDepth + 1
  BY AtIs
<1>2. PICK n \in Nat : n = Len(c)
  BY DEF Cells
<1>3. n + 1 \in 1..Len(t)
  BY <1>1, <1>2
<1>4. PICK o \in Octants : o = t[n + 1]
  BY <1>1, <1>3 DEF Cells
<1>5. PICK e : e = Append(c, o)
  OBVIOUS
<1>6. Child(c, p) = e
  BY <1>1, <1>2, <1>4, <1>5 DEF Child
<1>7. e \in Cells /\ Len(e) = n + 1 /\ \A k \in 1..(n + 1) : e[k] = IF k = n + 1 THEN o ELSE c[k]
  BY <1>2, <1>4, <1>5 DEF Cells
<1>8. IsPrefix(e, t)
  <2>1. \A k \in 1..n : c[k] = t[k]
    BY <1>1, <1>2, PrefixIs
  <2>2. \A k \in 1..Len(e) : e[k] = t[k]
    BY <1>2, <1>4, <1>7, <2>1
  <2>3. Len(e) <= Len(t)
    BY <1>1, <1>2, <1>7
  <2> QED BY <1>1, <1>7, <2>2, <2>3, PrefixIs
<1>9. Around(e) = Around(c) \cup {c}
  <2>1. ASSUME NEW k \in 0..n PROVE SubSeq(e, 1, k) = SubSeq(c, 1, k)
    <3>1. SubSeq(e, 1, k) = [m \in 1..k |-> e[m]]
      BY <1>2, <1>7 DEF Cells
    <3>2. SubSeq(c, 1, k) = [m \in 1..k |-> c[m]]
      BY <1>2 DEF Cells
    <3>3. \A m \in 1..k : e[m] = c[m]
      BY <1>2, <1>7
    <3> QED BY <3>1, <3>2, <3>3
  <2>2. SubSeq(c, 1, n) = c
    <3>1. SubSeq(c, 1, n) = [m \in 1..n |-> c[m]]
      BY <1>2 DEF Cells
    <3>2. c = [m \in 1..n |-> c[m]]
      BY <1>2 DEF Cells
    <3> QED BY <3>1, <3>2
  <2>3. Around(e) = {SubSeq(e, 1, k) : k \in 0..n}
    BY <1>2, <1>7 DEF Around
  <2>4. Around(e) = {SubSeq(c, 1, k) : k \in 0..n}
    BY <2>1, <2>3
  <2>5. Around(c) = {SubSeq(c, 1, k) : k \in 0..(n - 1)}
    BY <1>2 DEF Around
  <2>6. 0..n = 0..(n - 1) \cup {n}
    BY <1>2
  <2> QED BY <2>2, <2>4, <2>5, <2>6
<1> QED BY <1>1, <1>2, <1>6, <1>7, <1>8, <1>9

\* Two leaves, and a leaf and a split cell, are not one above the other.
LEMMA LeavesApart ==
  ASSUME OctreeTypeOK, LeavesOK, NEW l \in DOMAIN holds, NEW c \in Cells, IsPrefix(c, l)
  PROVE  c \in split \/ c = l
<1>1. l \in Cells /\ Around(l) \subseteq split
  BY DEF OctreeTypeOK, LeavesOK
<1>2. Len(c) <= Len(l) /\ Len(c) \in Nat /\ Len(l) \in Nat
  BY <1>1, PrefixIs DEF Cells
<1>3. CASE Len(c) < Len(l)
  BY <1>1, <1>3, AroundIs
<1>4. CASE Len(c) = Len(l)
  <2>1. IsPrefix(l, l)
    BY <1>1, PrefixIs
  <2> QED BY <1>1, <1>4, <2>1, PrefixTotal
<1> QED BY <1>2, <1>3, <1>4

\* A particle has one leaf.
LEMMA OneLeaf ==
  ASSUME OctreeTypeOK, LeavesOK, NEW l \in DOMAIN holds, NEW m \in DOMAIN holds,
         IsPrefix(l, at[holds[m]])
  PROVE  l = m
<1>1. /\ l \in Cells /\ m \in Cells /\ holds[m] \in Particles
      /\ at \in [Particles -> Positions]
  BY DEF OctreeTypeOK
<1>2. PICK t \in Cells : t = at[holds[m]]
  BY <1>1, AtIs
<1>3. IsPrefix(l, t) /\ IsPrefix(m, t)
  BY <1>2 DEF LeavesOK
<1>4. Len(l) \in Nat /\ Len(m) \in Nat
  BY <1>1 DEF Cells
<1>5. CASE Len(l) <= Len(m)
  BY <1>1, <1>3, <1>5, PrefixTotal, LeavesApart DEF LeavesOK
<1>6. CASE Len(m) <= Len(l)
  BY <1>1, <1>3, <1>6, PrefixTotal, LeavesApart DEF LeavesOK
<1> QED BY <1>4, <1>5, <1>6

------------------------------------------------------------------------------
(* Insertion.                                                              *)

Records == [cell : Cells, particle : Particles]

\* The particles of the calls under the innermost.
Rest == {calls[k].particle : k \in 2..Len(calls)}

\* The innermost call, and the others.
LEMMA InnermostCall ==
  ASSUME OctreeTypeOK, CallsOK, Inserting
  PROVE  /\ Cell \in Cells /\ Particle \in Inserted \ Held /\ Particle \in Particles
         /\ IsPrefix(Cell, at[Particle]) /\ Around(Cell) \subseteq split
         /\ Len(Cell) \in Nat /\ Len(Cell) <= MaxDepth + 1
         /\ Tail(calls) \in Seq(Records)
         /\ Len(calls) \in Nat /\ Len(calls) > 0 /\ Len(Tail(calls)) = Len(calls) - 1
         /\ \A k \in 1..(Len(calls) - 1) : Tail(calls)[k] = calls[k + 1]
         /\ Pending = Rest \cup {Particle} /\ Particle \notin Rest
         /\ Rest \cap Held = {}
<1>1. calls \in Seq(Records) /\ calls # <<>> /\ at \in [Particles -> Positions]
  BY DEF OctreeTypeOK, Records, Inserting
<1>2. /\ Len(calls) \in Nat /\ Len(calls) > 0 /\ 1 \in 1..Len(calls)
      /\ Head(calls) = calls[1] /\ calls[1] \in Records
      /\ Tail(calls) \in Seq(Records) /\ Len(Tail(calls)) = Len(calls) - 1
      /\ \A k \in 1..(Len(calls) - 1) : Tail(calls)[k] = calls[k + 1]
  BY <1>1
<1>3. Cell = calls[1].cell /\ Particle = calls[1].particle
  BY <1>2 DEF Cell, Particle
<1>4. Cell \in Cells /\ Particle \in Particles
  BY <1>2, <1>3 DEF Records
<1>5. /\ Particle \in Inserted \ Held /\ IsPrefix(Cell, at[Particle])
      /\ Around(Cell) \subseteq split
  BY <1>2, <1>3 DEF CallsOK
<1>6. Len(Cell) \in Nat /\ Len(Cell) <= MaxDepth + 1
  <2>1. PICK t \in Cells : t = at[Particle] /\ Len(t) = MaxDepth + 1
    BY <1>1, <1>4, AtIs
  <2>2. Len(Cell) <= Len(t)
    BY <1>4, <1>5, <2>1, PrefixIs
  <2>3. Len(Cell) \in Nat
    BY <1>4 DEF Cells
  <2> QED BY <2>1, <2>2, <2>3
<1>7. Pending = Rest \cup {Particle}
  <2>1. 1..Len(calls) = 2..Len(calls) \cup {1}
    BY <1>2
  <2> QED BY <1>3, <2>1 DEF Pending, Rest
<1>8. Particle \notin Rest
  <2>1. ASSUME NEW k \in 2..Len(calls), calls[k].particle = Particle PROVE FALSE
    <3>1. k \in 1..Len(calls) /\ k # 1
      BY <2>1
    <3> QED BY <1>2, <1>3, <2>1, <3>1 DEF CallsOK
  <2> QED BY <2>1 DEF Rest
<1>9. Rest \cap Held = {}
  <2>1. \A k \in 2..Len(calls) : k \in 1..Len(calls)
    OBVIOUS
  <2> QED BY <2>1 DEF Rest, CallsOK
<1> QED BY <1>2, <1>4, <1>5, <1>6, <1>7, <1>8, <1>9

\* Short sequences.
LEMMA EmptyPath == ASSUME NEW S PROVE <<>> \in Seq(S) /\ Len(<<>>) = 0
  OBVIOUS

LEMMA OneSeq ==
  ASSUME NEW S, NEW a \in S
  PROVE  <<a>> \in Seq(S) /\ Len(<<a>>) = 1 /\ <<a>>[1] = a
  OBVIOUS

LEMMA TwoSeq ==
  ASSUME NEW S, NEW a \in S, NEW b \in S
  PROVE  /\ <<a>> \o <<b>> \in Seq(S) /\ Len(<<a>> \o <<b>>) = 2
         /\ (<<a>> \o <<b>>)[1] = a /\ (<<a>> \o <<b>>)[2] = b
<1>1. PICK x \in Seq(S), y \in Seq(S) :
         x = <<a>> /\ Len(x) = 1 /\ x[1] = a /\ y = <<b>> /\ Len(y) = 1 /\ y[1] = b
  BY OneSeq
<1>2. x \o y \in Seq(S) /\ Len(x \o y) = 2 /\ (x \o y)[1] = x[1] /\ (x \o y)[2] = y[1]
  BY <1>1, ConcatProperties
<1> QED BY <1>1, <1>2

\* A sequence with another front in place of its head.
LEMMA FrontThenTail ==
  ASSUME NEW S, NEW q \in Seq(S), q # <<>>, NEW front \in Seq(S),
         NEW new, new = front \o Tail(q)
  PROVE  /\ new \in Seq(S) /\ Len(front) \in Nat /\ Len(q) - 1 \in Nat
         /\ (Len(q) - 1) + 1 = Len(q) /\ Len(q) \in Nat
         /\ Len(new) = Len(front) + (Len(q) - 1)
         /\ \A k \in 1..Len(front) : new[k] = front[k]
         /\ \A k \in (Len(front) + 1)..(Len(front) + (Len(q) - 1)) :
              /\ k - Len(front) + 1 \in 2..Len(q) /\ k - Len(front) + 1 \in 1..Len(q)
              /\ new[k] = q[k - Len(front) + 1]
<1>1. /\ Tail(q) \in Seq(S) /\ Len(Tail(q)) = Len(q) - 1 /\ Len(q) \in Nat /\ Len(q) > 0
      /\ \A k \in 1..(Len(q) - 1) : Tail(q)[k] = q[k + 1]
  OBVIOUS
<1>2. PICK t \in Seq(S) : t = Tail(q)
  BY <1>1
<1>3. PICK n \in Nat : n = Len(front)
  OBVIOUS
<1>4. PICK m \in Nat : m = Len(q) - 1
  <2>1. Len(q) - 1 \in Nat
    BY <1>1
  <2> QED BY <2>1
<1>5. /\ new \in Seq(S) /\ Len(new) = n + m
      /\ \A k \in 1..n : new[k] = front[k]
      /\ \A k \in (n + 1)..(n + m) : new[k] = t[k - n]
  BY <1>1, <1>2, <1>4, <1>3
<1>6. ASSUME NEW k \in (n + 1)..(n + m)
      PROVE  k - n + 1 \in 2..Len(q) /\ k - n + 1 \in 1..Len(q) /\ new[k] = q[k - n + 1]
  <2>1. k - n \in 1..(Len(q) - 1)
    BY <1>4
  <2>2. t[k - n] = q[k - n + 1]
    BY <1>1, <1>2, <2>1
  <2> QED BY <1>1, <1>4, <1>5, <2>1, <2>2
<1> QED BY <1>1, <1>4, <1>5, <1>6, <1>3

\* The innermost call gives way to others that are as they must be.
LEMMA CallsReplaced ==
  ASSUME OctreeTypeOK, CallsOK, Inserting,
         NEW front \in Seq(Records), calls' = front \o Tail(calls),
         at' = at, Inserted' = Inserted, split \subseteq split', Rest \cap Held' = {},
         \A k \in 1..Len(front) :
           /\ front[k].particle \in (Inserted \ Held') \ Rest
           /\ IsPrefix(front[k].cell, at[front[k].particle])
           /\ Around(front[k].cell) \subseteq split',
         \A j, k \in 1..Len(front) : front[j].particle = front[k].particle => j = k
  PROVE  /\ CallsOK' /\ calls' \in Seq(Records)
         /\ Pending' = Rest \cup {front[k].particle : k \in 1..Len(front)}
<1>1. calls \in Seq(Records) /\ calls # <<>>
  BY DEF OctreeTypeOK, Records, Inserting
<1>2. PICK n \in Nat, m \in Nat : n = Len(front) /\ m = Len(calls) - 1 /\ m + 1 = Len(calls)
  BY <1>1, FrontThenTail
<1>4. PICK new \in Seq(Records) : new = calls'
  BY <1>1, FrontThenTail
<1>5. /\ Len(new) = n + m
      /\ \A k \in 1..n : new[k] = front[k]
      /\ \A k \in (n + 1)..(n + m) : /\ k - n + 1 \in 2..Len(calls) /\ k - n + 1 \in 1..Len(calls)
                                     /\ new[k] = calls[k - n + 1]
  BY <1>1, <1>2, <1>4, FrontThenTail
<1>6. ASSUME NEW k \in 1..(n + m)
      PROVE  (k \in 1..n /\ new[k] = front[k])
               \/ (k \in (n + 1)..(n + m) /\ k - n + 1 \in 2..Len(calls)
                   /\ k - n + 1 \in 1..Len(calls) /\ new[k] = calls[k - n + 1])
  BY <1>5
<1>7. ASSUME NEW k \in 1..(n + m)
      PROVE  /\ new[k].particle \in Inserted \ Held'
             /\ IsPrefix(new[k].cell, at[new[k].particle])
             /\ Around(new[k].cell) \subseteq split'
  <2>1. CASE k \in 1..n /\ new[k] = front[k]
    BY <1>2, <2>1
  <2>2. CASE ~(k \in 1..n /\ new[k] = front[k])
    <3>1. PICK i \in 2..Len(calls) : i \in 1..Len(calls) /\ new[k] = calls[i]
      BY <1>6, <2>2
    <3>2. calls[i].particle \in Rest
      BY <3>1 DEF Rest
    <3> QED BY <3>1, <3>2 DEF CallsOK
  <2> QED BY <2>1, <2>2
<1>8. ASSUME NEW j \in 1..(n + m), NEW k \in 1..(n + m), new[j].particle = new[k].particle
      PROVE  j = k
  <2>1. CASE j \in 1..n /\ k \in 1..n
    BY <1>2, <1>5, <1>8, <2>1
  <2>2. CASE j \in 1..n /\ k \notin 1..n
    <3>1. PICK i \in 2..Len(calls) : new[k] = calls[i]
      BY <1>6, <2>2
    <3>2. new[k].particle \in Rest /\ new[j] = front[j]
      BY <1>5, <2>2, <3>1 DEF Rest
    <3> QED BY <1>2, <1>8, <2>2, <3>2
  <2>3. CASE j \notin 1..n /\ k \in 1..n
    <3>1. PICK i \in 2..Len(calls) : new[j] = calls[i]
      BY <1>6, <2>3
    <3>2. new[j].particle \in Rest /\ new[k] = front[k]
      BY <1>5, <2>3, <3>1 DEF Rest
    <3> QED BY <1>2, <1>8, <2>3, <3>2
  <2>4. CASE j \notin 1..n /\ k \notin 1..n
    <3>1. /\ j - n + 1 \in 1..Len(calls) /\ new[j] = calls[j - n + 1]
          /\ k - n + 1 \in 1..Len(calls) /\ new[k] = calls[k - n + 1]
      BY <1>6, <2>4
    <3>2. j - n + 1 = k - n + 1
      BY <1>8, <3>1 DEF CallsOK
    <3> QED BY <3>2
  <2> QED BY <2>1, <2>2, <2>3, <2>4
<1>9. {new[k].particle : k \in 1..(n + m)} = Rest \cup {front[k].particle : k \in 1..n}
  <2>1. ASSUME NEW k \in 1..(n + m)
        PROVE  new[k].particle \in Rest \cup {front[i].particle : i \in 1..n}
    BY <1>6 DEF Rest
  <2>2. ASSUME NEW k \in 1..n PROVE front[k].particle \in {new[i].particle : i \in 1..(n + m)}
    <3>1. k \in 1..(n + m)
      OBVIOUS
    <3> QED BY <1>5, <3>1
  <2>3. ASSUME NEW k \in 2..Len(calls)
        PROVE  calls[k].particle \in {new[i].particle : i \in 1..(n + m)}
    <3>1. /\ k + n - 1 \in (n + 1)..(n + m) /\ k + n - 1 \in 1..(n + m)
          /\ (k + n - 1) - n + 1 = k
      BY <1>2
    <3>2. PICK i \in 1..(n + m) : i \in (n + 1)..(n + m) /\ i - n + 1 = k
      BY <3>1
    <3>3. new[i] = calls[k]
      BY <1>5, <3>2
    <3> QED BY <3>3
  <2>4. {new[k].particle : k \in 1..(n + m)} \subseteq Rest \cup {front[k].particle : k \in 1..n}
    BY <2>1
  <2>5. Rest \subseteq {new[k].particle : k \in 1..(n + m)}
    BY <2>3 DEF Rest
  <2>6. {front[k].particle : k \in 1..n} \subseteq {new[k].particle : k \in 1..(n + m)}
    BY <2>2
  <2> QED BY <2>4, <2>5, <2>6
<1>10. Pending' = Rest \cup {front[k].particle : k \in 1..Len(front)}
  <2>1. Pending' = {new[k].particle : k \in 1..Len(new)}
    BY <1>4 DEF Pending
  <2> QED BY <1>2, <1>5, <1>9, <2>1
<1>11. CallsOK'
  BY <1>4, <1>5, <1>7, <1>8 DEF CallsOK
<1> QED BY <1>4, <1>10, <1>11

\* Nothing of the forces is there while the tree is built.
LEMMA ForcesWait ==
  ASSUME TreeFirst, ~Built, UNCHANGED forceVars
  PROVE  TreeFirst' /\ ForceOK'
<1>1. target = -1 /\ visits = <<>> /\ target' = target /\ visits' = visits
  BY DEF TreeFirst, forceVars
<1>2. target' \notin Particles
  BY <1>1 DEF Particles
<1> QED BY <1>1, <1>2 DEF TreeFirst, ForceOK

\* The splits stay justified and the dropped stay dropped.
LEMMA SplitsKept ==
  ASSUME SplitsOK, at' = at, split' = split, Inserted \subseteq Inserted'
  PROVE  SplitsOK' /\ \A p : Dropped(p)' <=> Dropped(p)
<1>1. SplitsOK'
  <2> SUFFICES ASSUME NEW c \in split
               PROVE  /\ Len(c) <= MaxDepth /\ Around(c) \subseteq split
                      /\ \E p, q \in Inserted' : p # q /\ IsPrefix(c, at[p]) /\ IsPrefix(c, at[q])
    BY DEF SplitsOK
  <2>1. PICK p \in Inserted, q \in Inserted : p # q /\ IsPrefix(c, at[p]) /\ IsPrefix(c, at[q])
    BY DEF SplitsOK
  <2> QED BY <2>1 DEF SplitsOK
<1>2. \A p : Dropped(p)' <=> Dropped(p)
  BY DEF Dropped
<1> QED BY <1>1, <1>2

LEMMA LeavesKept ==
  ASSUME LeavesOK, at' = at, holds' = holds, split' = split, Inserted \subseteq Inserted'
  PROVE  LeavesOK' /\ Held' = Held
  BY DEF LeavesOK, Held

LEMMA InsertNextKeeps == OctreeInv /\ InsertNext => OctreeInv'
<1> SUFFICES ASSUME OctreeInv, InsertNext PROVE OctreeInv'
  OBVIOUS
<1> USE DEF OctreeInv, TreeOK
<1>1. /\ calls = <<>> /\ next \in 0..Bodies /\ next < Bodies /\ next' = next + 1
      /\ calls' = (IF next \in off THEN <<>> ELSE <<Call(Root, next)>>)
      /\ at' = at /\ off' = off /\ split' = split /\ holds' = holds /\ UNCHANGED forceVars
      /\ Particles \subseteq Nat /\ next \in Particles
  BY DEF InsertNext, inputVars, OctreeTypeOK, Particles
<1>2. TreeFirst' /\ ForceOK'
  <2>1. ~Built
    BY <1>1 DEF Built
  <2> QED BY <1>1, <2>1, ForcesWait
<1>3. Inserted' = IF next \in off THEN Inserted ELSE Inserted \cup {next}
  <2>1. \A p \in Particles : p < next + 1 <=> p < next \/ p = next
    BY <1>1
  <2> QED BY <1>1, <2>1 DEF Inserted
<1>4. next \notin Inserted
  BY <1>1 DEF Inserted
<1>5. LeavesOK' /\ Held' = Held /\ SplitsOK' /\ \A p : Dropped(p)' <=> Dropped(p)
  BY <1>1, <1>3, SplitsKept, LeavesKept
<1>6. Held \subseteq Inserted
  BY DEF LeavesOK, Held
<1>7. Pending = {}
  BY <1>1 DEF Pending
<1>8. CASE next \in off
  <2>1. calls' = calls /\ Inserted' = Inserted /\ Pending' = Pending
    BY <1>1, <1>3, <1>8 DEF Pending
  <2>2. OctreeTypeOK'
    BY <1>1, <2>1 DEF OctreeTypeOK, forceVars
  <2>3. CallsOK'
    BY <1>1, <1>5, <2>1 DEF CallsOK
  <2>4. NoneLost'
    BY <1>5, <2>1 DEF NoneLost
  <2> QED BY <1>2, <1>5, <2>2, <2>3, <2>4
<1>9. CASE next \notin off
  <2>1. PICK r \in Records : r = Call(Root, next) /\ r.cell = Root /\ r.particle = next
    <3>1. Root \in Cells
      BY DEF Root, Cells
    <3>2. [cell |-> Root, particle |-> next] \in Records
      BY <1>1, <3>1 DEF Records
    <3> QED BY <3>2 DEF Call
  <2>2. calls' = <<r>> /\ Inserted' = Inserted \cup {next}
    BY <1>1, <1>3, <1>9, <2>1
  <2>3. calls' \in Seq(Records) /\ Len(calls') = 1 /\ calls'[1] = r
    BY <2>2
  <2>4. OctreeTypeOK'
    BY <1>1, <2>3 DEF OctreeTypeOK, forceVars, Records
  <2>5. IsPrefix(Root, at[next]) /\ Around(Root) = {}
    <3>1. Root \in Cells /\ Len(Root) = 0
      BY DEF Root, Cells
    <3>2. at[next] \in Cells /\ Len(at[next]) = MaxDepth + 1
      BY <1>1, AtIs DEF OctreeTypeOK
    <3>3. IsPrefix(Root, at[next])
      BY <3>1, <3>2, PrefixIs
    <3> QED BY <3>1, <3>3 DEF Around
  <2>6. CallsOK'
    BY <1>1, <1>4, <1>5, <1>6, <2>1, <2>2, <2>3, <2>5 DEF CallsOK
  <2>7. Pending' = {next}
    BY <2>1, <2>3 DEF Pending
  <2>8. NoneLost'
    BY <1>5, <1>7, <2>2, <2>7 DEF NoneLost
  <2> QED BY <1>2, <1>5, <2>4, <2>6, <2>8
<1> QED BY <1>8, <1>9

LEMMA DropExcessKeeps == OctreeInv /\ DropExcess => OctreeInv'
<1> SUFFICES ASSUME OctreeInv, DropExcess PROVE OctreeInv'
  OBVIOUS
<1> USE DEF OctreeInv, TreeOK
<1>1. /\ Inserting /\ TooDeep /\ calls' = Tail(calls) /\ next' = next
      /\ at' = at /\ off' = off /\ split' = split /\ holds' = holds /\ UNCHANGED forceVars
  BY DEF DropExcess, inputVars
<1>2. TreeFirst' /\ ForceOK'
  BY <1>1, ForcesWait DEF Built, Inserting
<1>3. Inserted' = Inserted
  BY <1>1 DEF Inserted
<1>4. LeavesOK' /\ Held' = Held /\ SplitsOK' /\ \A p : Dropped(p)' <=> Dropped(p)
  BY <1>1, <1>3, SplitsKept, LeavesKept
<1>5. CallsOK' /\ calls' \in Seq(Records) /\ Pending' = Rest
  <2>1. Tail(calls) \in Seq(Records) /\ Rest \cap Held = {}
    BY <1>1, InnermostCall
  <2>2. PICK front \in Seq(Records) : front = <<>> /\ Len(front) = 0
    BY EmptyPath
  <2>3. calls' = front \o Tail(calls)
    BY <1>1, <2>1, <2>2
  <2>4. \A k \in 1..Len(front) : FALSE
    BY <2>2
  <2>5. {front[k].particle : k \in 1..Len(front)} = {}
    BY <2>4
  <2>6. /\ CallsOK' /\ calls' \in Seq(Records)
        /\ Pending' = Rest \cup {front[k].particle : k \in 1..Len(front)}
    BY <1>1, <1>3, <1>4, <2>1, <2>3, <2>4, CallsReplaced
  <2> QED BY <2>5, <2>6
<1>6. OctreeTypeOK'
  BY <1>1, <1>5 DEF OctreeTypeOK, forceVars, Records
<1>7. Dropped(Particle)
  <2>1. /\ Cell \in Cells /\ Particle \in Particles /\ IsPrefix(Cell, at[Particle])
        /\ Around(Cell) \subseteq split /\ Len(Cell) = MaxDepth + 1
    BY <1>1, InnermostCall DEF TooDeep
  <2>2. at[Particle] \in Cells
    BY <2>1, AtIs DEF OctreeTypeOK
  <2>3. PICK c : c = SubSeq(Cell, 1, MaxDepth)
    OBVIOUS
  <2>4. c \in Cells /\ Len(c) = MaxDepth /\ c \in Around(Cell)
    BY <2>1, <2>3 DEF Around, Cells
  <2>5. IsPrefix(c, Cell)
    BY <2>1, <2>4, AroundIs
  <2>6. IsPrefix(c, at[Particle])
    BY <2>1, <2>2, <2>4, <2>5, PrefixTrans
  <2> QED BY <2>1, <2>4, <2>6 DEF Dropped
<1>8. NoneLost'
  <2>1. Pending = Rest \cup {Particle}
    BY <1>1, InnermostCall
  <2> QED BY <1>3, <1>4, <1>5, <1>7, <2>1 DEF NoneLost
<1> QED BY <1>2, <1>4, <1>5, <1>6, <1>8

LEMMA TakeLeafKeeps == OctreeInv /\ TakeLeaf => OctreeInv'
<1> SUFFICES ASSUME OctreeInv, TakeLeaf PROVE OctreeInv'
  OBVIOUS
<1> USE DEF OctreeInv, TreeOK
<1>1. /\ Inserting /\ ~TooDeep /\ Cell \notin split \cup DOMAIN holds
      /\ calls' = Tail(calls) /\ next' = next
      /\ holds' = [c \in DOMAIN holds \cup {Cell} |-> IF c = Cell THEN Particle ELSE holds[c]]
      /\ at' = at /\ off' = off /\ split' = split /\ UNCHANGED forceVars
  BY DEF TakeLeaf, inputVars
<1>2. TreeFirst' /\ ForceOK'
  BY <1>1, ForcesWait DEF Built, Inserting
<1>3. Inserted' = Inserted
  BY <1>1 DEF Inserted
<1>4. SplitsOK' /\ \A p : Dropped(p)' <=> Dropped(p)
  BY <1>1, <1>3, SplitsKept
<1>5. PICK cell \in Cells, particle \in Particles : cell = Cell /\ particle = Particle
  BY <1>1, InnermostCall
<1>6. /\ particle \in Inserted \ Held /\ IsPrefix(cell, at[particle]) /\ Around(cell) \subseteq split
      /\ Len(cell) <= MaxDepth
      /\ Pending = Rest \cup {particle} /\ particle \notin Rest /\ Rest \cap Held = {}
      /\ Tail(calls) \in Seq(Records)
  BY <1>1, <1>5, InnermostCall DEF TooDeep
<1>7. /\ DOMAIN holds' = DOMAIN holds \cup {cell} /\ holds'[cell] = particle
      /\ \A c \in DOMAIN holds : holds'[c] = holds[c]
      /\ cell \notin split
      /\ holds' = [c \in DOMAIN holds' |-> holds'[c]]
  BY <1>1, <1>5
<1>8. Held' = Held \cup {particle}
  BY <1>7 DEF Held
<1>9. LeavesOK'
  BY <1>1, <1>3, <1>6, <1>7 DEF LeavesOK
<1>10. CallsOK' /\ calls' \in Seq(Records) /\ Pending' = Rest
  <2>1. PICK front \in Seq(Records) : front = <<>> /\ Len(front) = 0
    BY EmptyPath
  <2>2. calls' = front \o Tail(calls)
    BY <1>1, <1>6, <2>1
  <2>3. \A k \in 1..Len(front) : FALSE
    BY <2>1
  <2>4. {front[k].particle : k \in 1..Len(front)} = {}
    BY <2>3
  <2>5. Rest \cap Held' = {}
    BY <1>6, <1>8
  <2>6. /\ CallsOK' /\ calls' \in Seq(Records)
        /\ Pending' = Rest \cup {front[k].particle : k \in 1..Len(front)}
    BY <1>1, <1>3, <2>2, <2>3, <2>5, CallsReplaced
  <2> QED BY <2>4, <2>6
<1>11. OctreeTypeOK'
  <2>1. DOMAIN holds' \in SUBSET Cells /\ holds' \in [DOMAIN holds' -> Particles]
    BY <1>7 DEF OctreeTypeOK
  <2> QED BY <1>1, <1>10, <2>1 DEF OctreeTypeOK, forceVars, Records
<1>12. NoneLost'
  BY <1>3, <1>4, <1>6, <1>8, <1>10 DEF NoneLost
<1> QED BY <1>2, <1>4, <1>9, <1>10, <1>11, <1>12

LEMMA DescendKeeps == OctreeInv /\ Descend => OctreeInv'
<1> SUFFICES ASSUME OctreeInv, Descend PROVE OctreeInv'
  OBVIOUS
<1> USE DEF OctreeInv, TreeOK
<1>1. /\ Inserting /\ ~TooDeep /\ Cell \in split /\ next' = next
      /\ calls' = <<Call(Child(Cell, Particle), Particle)>> \o Tail(calls)
      /\ at' = at /\ off' = off /\ split' = split /\ holds' = holds /\ UNCHANGED forceVars
  BY DEF Descend, inputVars
<1>2. TreeFirst' /\ ForceOK'
  BY <1>1, ForcesWait DEF Built, Inserting
<1>3. Inserted' = Inserted
  BY <1>1 DEF Inserted
<1>4. LeavesOK' /\ Held' = Held /\ SplitsOK' /\ \A p : Dropped(p)' <=> Dropped(p)
  BY <1>1, <1>3, SplitsKept, LeavesKept
<1>5. PICK cell \in Cells, particle \in Particles : cell = Cell /\ particle = Particle
  BY <1>1, InnermostCall
<1>6. /\ particle \in Inserted \ Held /\ IsPrefix(cell, at[particle]) /\ Around(cell) \subseteq split
      /\ Len(cell) <= MaxDepth
      /\ Pending = Rest \cup {particle} /\ particle \notin Rest /\ Rest \cap Held = {}
  BY <1>1, <1>5, InnermostCall DEF TooDeep
<1>7. PICK child : child = Child(cell, particle)
  OBVIOUS
<1>8. child \in Cells /\ IsPrefix(child, at[particle]) /\ Around(child) \subseteq split
  BY <1>1, <1>5, <1>6, <1>7, ChildIs DEF OctreeTypeOK
<1>9. PICK r \in Records : r = Call(child, particle) /\ r.cell = child /\ r.particle = particle
  <2>1. [cell |-> child, particle |-> particle] \in Records
    BY <1>8 DEF Records
  <2> QED BY <2>1 DEF Call
<1>10. CallsOK' /\ calls' \in Seq(Records) /\ Pending' = Pending
  <2>1. PICK front \in Seq(Records) : front = <<r>> /\ Len(front) = 1 /\ front[1] = r
    BY OneSeq
  <2>2. calls' = front \o Tail(calls)
    BY <1>1, <1>5, <1>7, <1>9, <2>1
  <2>3. \A k \in 1..Len(front) : k = 1 /\ front[k] = r
    BY <2>1
  <2>4. {front[k].particle : k \in 1..Len(front)} = {particle}
    BY <1>9, <2>1
  <2>5. Rest \cap Held' = {}
    BY <1>4, <1>6
  <2>6. \A k \in 1..Len(front) :
           /\ front[k].particle \in (Inserted \ Held') \ Rest
           /\ IsPrefix(front[k].cell, at[front[k].particle])
           /\ Around(front[k].cell) \subseteq split'
    BY <1>1, <1>4, <1>6, <1>8, <1>9, <2>3
  <2>7. /\ CallsOK' /\ calls' \in Seq(Records)
        /\ Pending' = Rest \cup {front[k].particle : k \in 1..Len(front)}
    BY <1>1, <1>3, <2>2, <2>3, <2>5, <2>6, CallsReplaced
  <2> QED BY <1>6, <2>4, <2>7
<1>11. OctreeTypeOK'
  BY <1>1, <1>10 DEF OctreeTypeOK, forceVars, Records
<1>12. NoneLost'
  BY <1>3, <1>4, <1>10 DEF NoneLost
<1> QED BY <1>2, <1>4, <1>10, <1>11, <1>12

LEMMA SplitLeafKeeps == OctreeInv /\ SplitLeaf => OctreeInv'
<1> SUFFICES ASSUME OctreeInv, SplitLeaf PROVE OctreeInv'
  OBVIOUS
<1> USE DEF OctreeInv, TreeOK
<1>1. /\ Inserting /\ ~TooDeep /\ Cell \in DOMAIN holds /\ next' = next
      /\ split' = split \cup {Cell}
      /\ holds' = [c \in DOMAIN holds \ {Cell} |-> holds[c]]
      /\ calls' = Evicted(holds[Cell]) \o <<Call(Child(Cell, Particle), Particle)>> \o Tail(calls)
      /\ at' = at /\ off' = off /\ UNCHANGED forceVars
  BY DEF SplitLeaf, inputVars
<1>2. TreeFirst' /\ ForceOK'
  BY <1>1, ForcesWait DEF Built, Inserting
<1>3. Inserted' = Inserted
  BY <1>1 DEF Inserted
<1>4. PICK cell \in Cells, particle \in Particles : cell = Cell /\ particle = Particle
  BY <1>1, InnermostCall
<1>5. /\ particle \in Inserted \ Held /\ IsPrefix(cell, at[particle]) /\ Around(cell) \subseteq split
      /\ Len(cell) <= MaxDepth
      /\ Pending = Rest \cup {particle} /\ particle \notin Rest /\ Rest \cap Held = {}
      /\ Tail(calls) \in Seq(Records)
  BY <1>1, <1>4, InnermostCall DEF TooDeep
<1>6. PICK held \in Particles : held = holds[cell]
  BY <1>1, <1>4 DEF OctreeTypeOK
<1>7. /\ held \in Inserted /\ IsPrefix(cell, at[held]) /\ held \in Held
      /\ held # particle /\ held \notin Rest
  BY <1>1, <1>4, <1>5, <1>6 DEF LeavesOK, Held
<1>8. /\ DOMAIN holds' = DOMAIN holds \ {cell}
      /\ \A c \in DOMAIN holds' : holds'[c] = holds[c]
      /\ holds' = [c \in DOMAIN holds' |-> holds'[c]]
  BY <1>1, <1>4
<1>9. Held' = Held \ {held}
  <2>1. ASSUME NEW c \in DOMAIN holds', holds[c] = held PROVE FALSE
    <3>1. c \in DOMAIN holds /\ cell \in DOMAIN holds /\ c # cell
      BY <1>1, <1>4, <1>8
    <3>2. IsPrefix(cell, at[holds[c]])
      BY <1>7, <2>1
    <3> QED BY <3>1, <3>2, OneLeaf
  <2>2. ASSUME NEW p \in Held', p \notin Held \ {held} PROVE FALSE
    BY <1>8, <2>1, <2>2 DEF Held
  <2>3. ASSUME NEW p \in Held \ {held} PROVE p \in Held'
    <3>1. PICK c \in DOMAIN holds : p = holds[c]
      BY DEF Held
    <3>2. c \in DOMAIN holds' /\ holds'[c] = p
      BY <1>6, <1>8, <3>1
    <3> QED BY <3>2 DEF Held
  <2> QED BY <2>2, <2>3
<1>10. LeavesOK'
  BY <1>1, <1>3, <1>4, <1>8 DEF LeavesOK
<1>11. SplitsOK'
  <2>1. ASSUME NEW c \in split
        PROVE  \E p, q \in Inserted : p # q /\ IsPrefix(c, at[p]) /\ IsPrefix(c, at[q])
    BY DEF SplitsOK
  <2>2. \E p, q \in Inserted : p # q /\ IsPrefix(cell, at[p]) /\ IsPrefix(cell, at[q])
    BY <1>5, <1>7
  <2>3. \A c \in split' : \E p, q \in Inserted : p # q /\ IsPrefix(c, at[p]) /\ IsPrefix(c, at[q])
    BY <1>1, <1>4, <2>1, <2>2
  <2>4. \A c \in split' : Len(c) <= MaxDepth /\ Around(c) \subseteq split'
    BY <1>1, <1>4, <1>5 DEF SplitsOK
  <2> QED BY <1>1, <1>3, <2>3, <2>4 DEF SplitsOK
<1>12. PICK far, near : far = Child(cell, held) /\ near = Child(cell, particle)
  OBVIOUS
<1>13. /\ far \in Cells /\ IsPrefix(far, at[held]) /\ Around(far) \subseteq split'
       /\ near \in Cells /\ IsPrefix(near, at[particle]) /\ Around(near) \subseteq split'
  <2>1. at \in [Particles -> Positions]
    BY DEF OctreeTypeOK
  <2>2. /\ far \in Cells /\ IsPrefix(far, at[held]) /\ Around(far) = Around(cell) \cup {cell}
    BY <1>5, <1>7, <1>12, <2>1, ChildIs
  <2>3. /\ near \in Cells /\ IsPrefix(near, at[particle]) /\ Around(near) = Around(cell) \cup {cell}
    BY <1>5, <1>12, <2>1, ChildIs
  <2> QED BY <1>1, <1>4, <1>5, <2>2, <2>3
<1>14. PICK a \in Records, b \in Records :
         /\ a = Call(far, held) /\ a.cell = far /\ a.particle = held
         /\ b = Call(near, particle) /\ b.cell = near /\ b.particle = particle
  <2>1. [cell |-> far, particle |-> held] \in Records
    BY <1>13 DEF Records
  <2>2. [cell |-> near, particle |-> particle] \in Records
    BY <1>13 DEF Records
  <2> QED BY <2>1, <2>2 DEF Call
<1>15. CallsOK' /\ calls' \in Seq(Records) /\ Pending' = Pending \cup {held}
  <2>1. PICK front \in Seq(Records) :
           front = <<a>> \o <<b>> /\ Len(front) = 2 /\ front[1] = a /\ front[2] = b
    <3>1. /\ <<a>> \o <<b>> \in Seq(Records) /\ Len(<<a>> \o <<b>>) = 2
          /\ (<<a>> \o <<b>>)[1] = a /\ (<<a>> \o <<b>>)[2] = b
      BY TwoSeq
    <3> QED BY <3>1, Zenon
  <2>2. calls' = front \o Tail(calls)
    BY <1>1, <1>4, <1>6, <1>12, <1>14, <2>1 DEF Evicted
  <2>3. \A k \in 1..Len(front) : k = 1 \/ k = 2
    BY <2>1
  <2>4. {front[k].particle : k \in 1..Len(front)} = {held, particle}
    <3>1. 1 \in 1..Len(front) /\ 2 \in 1..Len(front)
      BY <2>1
    <3> QED BY <1>14, <2>1, <2>3, <3>1
  <2>5. Rest \cap Held' = {}
    BY <1>5, <1>9
  <2>6. \A k \in 1..Len(front) :
           /\ front[k].particle \in (Inserted \ Held') \ Rest
           /\ IsPrefix(front[k].cell, at[front[k].particle])
           /\ Around(front[k].cell) \subseteq split'
    BY <1>5, <1>7, <1>9, <1>13, <1>14, <2>1, <2>3
  <2>7. \A j, k \in 1..Len(front) : front[j].particle = front[k].particle => j = k
    BY <1>7, <1>14, <2>1, <2>3
  <2>8. split \subseteq split'
    BY <1>1
  <2>9. /\ CallsOK' /\ calls' \in Seq(Records)
        /\ Pending' = Rest \cup {front[k].particle : k \in 1..Len(front)}
    BY <1>1, <1>3, <2>2, <2>5, <2>6, <2>7, <2>8, CallsReplaced
  <2> QED BY <1>5, <2>4, <2>9
<1>16. OctreeTypeOK'
  <2>1. DOMAIN holds' \in SUBSET Cells /\ holds' \in [DOMAIN holds' -> Particles]
    BY <1>8 DEF OctreeTypeOK
  <2>2. split' \in SUBSET Cells
    BY <1>1, <1>4 DEF OctreeTypeOK
  <2> QED BY <1>1, <1>15, <2>1, <2>2 DEF OctreeTypeOK, forceVars, Records
<1>17. NoneLost'
  <2>1. \A p : Dropped(p) => Dropped(p)'
    BY <1>1 DEF Dropped
  <2> QED BY <1>3, <1>9, <1>15, <2>1 DEF NoneLost
<1> QED BY <1>2, <1>10, <1>11, <1>15, <1>16, <1>17

------------------------------------------------------------------------------
(* Forces.                                                                 *)

\* The tree rests while a force is summed.
LEMMA TreeRests ==
  ASSUME TreeOK, UNCHANGED <<inputVars, treeVars>>
  PROVE  /\ TreeOK' /\ Held' = Held /\ (Built' <=> Built)
         /\ \A c : Beneath(c)' = Beneath(c)
<1> USE DEF inputVars, treeVars
<1>1. Inserted' = Inserted /\ Held' = Held /\ Pending' = Pending
  BY DEF Inserted, Held, Pending
<1>2. \A p : Dropped(p)' <=> Dropped(p)
  BY DEF Dropped
<1>3. CallsOK' /\ LeavesOK'
  BY <1>1 DEF TreeOK, CallsOK, LeavesOK
<1>4. SplitsOK' /\ NoneLost'
  BY <1>1, <1>2 DEF TreeOK, SplitsOK, NoneLost
<1>5. Built' <=> Built
  BY DEF Built
<1>6. \A c : Beneath(c)' = Beneath(c)
  BY DEF Beneath
<1> QED BY <1>1, <1>3, <1>4, <1>5, <1>6 DEF TreeOK

\* A particle is beneath a cell if its leaf is.
LEMMA BeneathIs ==
  ASSUME NEW c, NEW p
  PROVE  p \in Beneath(c) <=> \E leaf \in DOMAIN holds : p = holds[leaf] /\ IsPrefix(c, leaf)
  BY DEF Beneath

\* The root is above every leaf, and a leaf above itself only.
LEMMA BeneathRoot ==
  ASSUME OctreeTypeOK
  PROVE  Beneath(Root) = Held
<1>1. ASSUME NEW leaf \in DOMAIN holds PROVE IsPrefix(Root, leaf)
  <2>1. leaf \in Cells /\ Root \in Cells /\ Len(Root) = 0 /\ Len(leaf) \in Nat
    BY EmptyPath DEF OctreeTypeOK, Root, Cells
  <2> QED BY <2>1, PrefixIs
<1> QED BY <1>1 DEF Beneath, Held

LEMMA BeneathLeaf ==
  ASSUME OctreeTypeOK, LeavesOK, NEW leaf \in DOMAIN holds
  PROVE  Beneath(leaf) = {holds[leaf]}
<1>1. leaf \in Cells /\ leaf \notin split
  BY DEF OctreeTypeOK, LeavesOK
<1>2. IsPrefix(leaf, leaf)
  BY <1>1, PrefixIs DEF Cells
<1>3. ASSUME NEW l \in DOMAIN holds, IsPrefix(leaf, l) PROVE l = leaf
  BY <1>1, <1>3, LeavesApart
<1> QED BY <1>2, <1>3 DEF Beneath

\* A split cell is above what exactly one of its octants is above.
LEMMA BeneathOctants ==
  ASSUME OctreeTypeOK, LeavesOK, NEW c \in split, NEW p
  PROVE  /\ p \in Beneath(c) => \E k \in 1..Fan : p \in Beneath(Append(c, k - 1))
         /\ \A k \in 1..Fan : p \in Beneath(Append(c, k - 1)) => p \in Beneath(c)
         /\ \A j, k \in 1..Fan : p \in Beneath(Append(c, j - 1)) /\ p \in Beneath(Append(c, k - 1))
                                   => j = k
<1>0. c \in Cells /\ Len(c) \in Nat
  BY DEF OctreeTypeOK, Cells
<1>1. PICK n \in Nat : n = Len(c) /\ c \in Cells
  BY <1>0
<1>2. ASSUME NEW k \in 1..Fan, NEW d, d = Append(c, k - 1)
      PROVE  /\ d \in Cells /\ Len(d) = n + 1 /\ d[n + 1] = k - 1
             /\ \A m \in 1..n : d[m] = c[m]
  <2>1. k - 1 \in Octants
    BY DEF Octants
  <2> QED BY <1>1, <1>2, <2>1 DEF Cells
<1>3. ASSUME NEW l \in DOMAIN holds, NEW k \in 1..Fan
      PROVE  IsPrefix(Append(c, k - 1), l)
               <=> IsPrefix(c, l) /\ Len(l) > n /\ l[n + 1] = k - 1
  <2>1. PICK d : d = Append(c, k - 1)
    OBVIOUS
  <2>2. l \in Cells /\ Len(l) \in Nat
    BY DEF OctreeTypeOK, Cells
  <2>3. /\ d \in Cells /\ Len(d) = n + 1 /\ d[n + 1] = k - 1
        /\ \A m \in 1..n : d[m] = c[m]
    BY <1>2, <2>1
  <2>4. IsPrefix(d, l) <=> n + 1 <= Len(l) /\ \A m \in 1..(n + 1) : d[m] = l[m]
    BY <2>2, <2>3, PrefixIs
  <2>5. IsPrefix(c, l) <=> n <= Len(l) /\ \A m \in 1..n : c[m] = l[m]
    BY <1>1, <2>2, PrefixIs
  <2>6. (\A m \in 1..(n + 1) : d[m] = l[m]) <=> (\A m \in 1..n : c[m] = l[m]) /\ l[n + 1] = k - 1
    <3>1. 1..(n + 1) = 1..n \cup {n + 1}
      OBVIOUS
    <3> QED BY <2>3, <3>1
  <2>7. n + 1 <= Len(l) <=> n <= Len(l) /\ Len(l) > n
    BY <2>2
  <2> QED BY <2>1, <2>4, <2>5, <2>6, <2>7
<1>4. ASSUME NEW l \in DOMAIN holds, IsPrefix(c, l)
      PROVE  Len(l) > n /\ l[n + 1] \in Octants
  <2>1. l \in Cells /\ Len(l) \in Nat /\ l \notin split
    BY DEF OctreeTypeOK, Cells, LeavesOK
  <2>2. n <= Len(l)
    BY <1>1, <1>4, <2>1, PrefixIs
  <2>3. n # Len(l)
    <3>1. IsPrefix(l, l)
      BY <2>1, PrefixIs
    <3> QED BY <1>1, <1>4, <2>1, <3>1, PrefixTotal
  <2>4. n + 1 \in 1..Len(l)
    BY <2>1, <2>2, <2>3
  <2> QED BY <2>1, <2>2, <2>3, <2>4 DEF Cells
<1>5. ASSUME p \in Beneath(c) PROVE \E k \in 1..Fan : p \in Beneath(Append(c, k - 1))
  <2>1. PICK l \in DOMAIN holds : p = holds[l] /\ IsPrefix(c, l)
    BY <1>5, BeneathIs
  <2>2. Len(l) > n /\ l[n + 1] \in Octants
    BY <1>4, <2>1
  <2>3. PICK k \in 1..Fan : l[n + 1] = k - 1
    <3>1. PICK o \in 0..(Fan - 1) : o = l[n + 1]
      BY <2>2 DEF Octants
    <3>2. o + 1 \in 1..Fan /\ o = (o + 1) - 1
      OBVIOUS
    <3> QED BY <3>1, <3>2
  <2>4. IsPrefix(Append(c, k - 1), l)
    BY <1>3, <2>1, <2>2, <2>3
  <2> QED BY <2>1, <2>4, BeneathIs
<1>6. ASSUME NEW k \in 1..Fan, p \in Beneath(Append(c, k - 1)) PROVE p \in Beneath(c)
  <2>1. PICK l \in DOMAIN holds : p = holds[l] /\ IsPrefix(Append(c, k - 1), l)
    BY <1>6, BeneathIs
  <2>2. IsPrefix(c, l)
    BY <1>3, <2>1
  <2> QED BY <2>1, <2>2, BeneathIs
<1>7. ASSUME NEW j \in 1..Fan, NEW k \in 1..Fan,
             p \in Beneath(Append(c, j - 1)), p \in Beneath(Append(c, k - 1))
      PROVE  j = k
  <2>1. PICK l \in DOMAIN holds : p = holds[l] /\ IsPrefix(Append(c, j - 1), l)
    BY <1>7, BeneathIs
  <2>2. PICK m \in DOMAIN holds : p = holds[m] /\ IsPrefix(Append(c, k - 1), m)
    BY <1>7, BeneathIs
  <2>3. l = m
    <3>1. IsPrefix(l, at[holds[m]])
      BY <2>1, <2>2 DEF LeavesOK
    <3> QED BY <3>1, OneLeaf
  <2>4. l[n + 1] = j - 1 /\ l[n + 1] = k - 1
    BY <1>3, <2>1, <2>2, <2>3
  <2> QED BY <2>4
<1> QED BY <1>5, <1>6, <1>7

\* The innermost visit gives way to others of cells beneath it.
LEMMA VisitsReplaced ==
  ASSUME OctreeTypeOK, Visiting, holds' = holds, NEW front \in Seq(Cells),
         visits' = front \o Tail(visits), NEW p,
         \A j, k \in Above(p) : j = k,
         \A j, k \in 1..Len(front) : p \in Beneath(front[j]) /\ p \in Beneath(front[k]) => j = k,
         \A j \in 1..Len(front) : p \in Beneath(front[j]) => p \in Beneath(Visited)
  PROVE  /\ \A j, k \in Above(p)' : j = k
         /\ Above(p)' # {} <=> \/ \E j \in 1..Len(front) : p \in Beneath(front[j])
                               \/ Above(p) # {} /\ p \notin Beneath(Visited)
         /\ p \in Beneath(Visited) => Above(p) # {}
<1>1. visits \in Seq(Cells) /\ visits # <<>>
  BY DEF OctreeTypeOK, Visiting
<1>2. PICK n \in Nat, m \in Nat : n = Len(front) /\ m = Len(visits) - 1 /\ m + 1 = Len(visits)
  BY <1>1, FrontThenTail
<1>3. PICK new \in Seq(Cells) : new = visits'
  BY <1>1, FrontThenTail
<1>4. /\ Len(new) = n + m
      /\ \A k \in 1..n : new[k] = front[k]
      /\ \A k \in (n + 1)..(n + m) : /\ k - n + 1 \in 2..Len(visits) /\ k - n + 1 \in 1..Len(visits)
                                     /\ new[k] = visits[k - n + 1]
  BY <1>1, <1>2, <1>3, FrontThenTail
<1>5. Above(p)' = {k \in 1..(n + m) : p \in Beneath(new[k])}
  BY <1>3, <1>4 DEF Above, Beneath
<1>6. Visited = visits[1] /\ 1 \in 1..Len(visits)
  <2>1. Len(visits) \in Nat /\ Len(visits) > 0 /\ Head(visits) = visits[1]
    BY <1>1
  <2> QED BY <2>1 DEF Visited
<1>7. p \in Beneath(Visited) <=> 1 \in Above(p)
  BY <1>6 DEF Above
<1>8. ASSUME NEW k \in 1..(n + m)
      PROVE  k \in 1..n \/ (k \notin 1..n /\ k \in (n + 1)..(n + m))
  OBVIOUS
<1>9. ASSUME NEW k \in (n + 1)..(n + m), p \in Beneath(new[k])
      PROVE  k - n + 1 \in Above(p) /\ k - n + 1 # 1 /\ p \notin Beneath(Visited)
  <2>1. k - n + 1 \in 1..Len(visits) /\ k - n + 1 \in 2..Len(visits) /\ new[k] = visits[k - n + 1]
    BY <1>4
  <2>2. k - n + 1 \in Above(p) /\ k - n + 1 # 1
    BY <1>9, <2>1 DEF Above
  <2> QED BY <1>7, <2>2
<1>10. ASSUME NEW j \in Above(p)', NEW k \in Above(p)' PROVE j = k
  <2>1. /\ j \in 1..(n + m) /\ p \in Beneath(new[j])
        /\ k \in 1..(n + m) /\ p \in Beneath(new[k])
    BY <1>5
  <2>2. CASE j \in 1..n /\ k \in 1..n
    BY <1>2, <1>4, <2>1, <2>2
  <2>3. CASE j \in 1..n /\ k \notin 1..n
    <3>1. p \in Beneath(Visited)
      BY <1>2, <1>4, <2>1, <2>3
    <3> QED BY <1>8, <1>9, <2>1, <2>3, <3>1
  <2>4. CASE j \notin 1..n /\ k \in 1..n
    <3>1. p \in Beneath(Visited)
      BY <1>2, <1>4, <2>1, <2>4
    <3> QED BY <1>8, <1>9, <2>1, <2>4, <3>1
  <2>5. CASE j \notin 1..n /\ k \notin 1..n
    <3>1. j - n + 1 \in Above(p) /\ k - n + 1 \in Above(p)
      BY <1>8, <1>9, <2>1, <2>5
    <3>2. j - n + 1 = k - n + 1
      BY <3>1
    <3> QED BY <2>1, <3>2
  <2> QED BY <2>2, <2>3, <2>4, <2>5
<1>11. ASSUME NEW k \in Above(p)'
       PROVE  \/ \E j \in 1..Len(front) : p \in Beneath(front[j])
              \/ Above(p) # {} /\ p \notin Beneath(Visited)
  <2>1. k \in 1..(n + m) /\ p \in Beneath(new[k])
    BY <1>5
  <2>2. CASE k \in 1..n
    BY <1>2, <1>4, <2>1, <2>2
  <2>3. CASE k \notin 1..n
    BY <1>8, <1>9, <2>1, <2>3
  <2> QED BY <2>2, <2>3
<1>12. ASSUME NEW j \in 1..Len(front), p \in Beneath(front[j]) PROVE Above(p)' # {}
  <2>1. j \in 1..n /\ j \in 1..(n + m)
    BY <1>2
  <2> QED BY <1>4, <1>5, <1>12, <2>1
<1>13. ASSUME NEW k \in Above(p), p \notin Beneath(Visited) PROVE Above(p)' # {}
  <2>1. k \in 1..Len(visits) /\ p \in Beneath(visits[k]) /\ k # 1
    BY <1>7, <1>13 DEF Above
  <2>2. PICK i \in 1..(n + m) : i \in (n + 1)..(n + m) /\ i - n + 1 = k
    <3>1. k + n - 1 \in 1..(n + m) /\ k + n - 1 \in (n + 1)..(n + m) /\ (k + n - 1) - n + 1 = k
      BY <1>2, <2>1
    <3> QED BY <3>1
  <2>3. new[i] = visits[k]
    BY <1>4, <2>2
  <2> QED BY <1>5, <2>1, <2>2, <2>3
<1> QED BY <1>7, <1>10, <1>11, <1>12, <1>13

\* The same when the innermost visit is over.
LEMMA VisitOver ==
  ASSUME OctreeTypeOK, Visiting, holds' = holds, visits' = Tail(visits), NEW p,
         \A j, k \in Above(p) : j = k
  PROVE  /\ \A j, k \in Above(p)' : j = k
         /\ Above(p)' # {} <=> Above(p) # {} /\ p \notin Beneath(Visited)
         /\ p \in Beneath(Visited) => Above(p) # {}
<1>1. PICK front \in Seq(Cells) : front = <<>> /\ Len(front) = 0
  BY EmptyPath
<1>2. visits' = front \o Tail(visits)
  <2>1. Tail(visits) \in Seq(Cells)
    BY DEF OctreeTypeOK, Visiting
  <2> QED BY <1>1, <2>1
<1>3. \A k \in 1..Len(front) : FALSE
  BY <1>1
<1> QED BY <1>2, <1>3, VisitsReplaced

\* A step of the second loop keeps the invariant if it keeps types and forces.
LEMMA ForcesStep ==
  ASSUME OctreeInv, UNCHANGED <<inputVars, treeVars>>, Built,
         target' \in -1..(Bodies - 1), visits' \in Seq(Cells), felt' \in [Particles -> Nat],
         ForceOK'
  PROVE  OctreeInv'
<1>1. TreeOK' /\ (Built' <=> Built)
  BY TreeRests DEF OctreeInv
<1>2. TreeFirst'
  BY <1>1 DEF TreeFirst
<1>3. OctreeTypeOK'
  BY DEF OctreeInv, OctreeTypeOK, inputVars, treeVars
<1> QED BY <1>1, <1>2, <1>3 DEF OctreeInv

LEMMA NextTargetKeeps == OctreeInv /\ NextTarget => OctreeInv'
<1> SUFFICES ASSUME OctreeInv, NextTarget PROVE OctreeInv'
  OBVIOUS
<1> USE DEF OctreeInv
<1>1. /\ Built /\ UNCHANGED <<inputVars, treeVars>> /\ target' \in -1..(Bodies - 1)
      /\ visits' = (IF target' \in off THEN <<>> ELSE <<Root>>)
      /\ felt' = [p \in Particles |-> 0]
  <2>1. target \in -1..(Bodies - 1) /\ target < Bodies - 1 /\ target' = target + 1
    BY DEF NextTarget, OctreeTypeOK
  <2>2. target' \in -1..(Bodies - 1)
    BY <2>1
  <2> QED BY <2>2 DEF NextTarget
<1>2. felt' \in [Particles -> Nat] /\ \A p \in Particles : felt'[p] = 0
  BY <1>1
<1>3. PICK one : one \in Seq(Cells) /\ one = <<Root>> /\ Len(one) = 1 /\ one[1] = Root
  <2>1. Root \in Cells
    BY EmptyPath DEF Root, Cells
  <2> QED BY <2>1, OneSeq
<1>4. visits' \in Seq(Cells)
  BY <1>1, <1>3, EmptyPath
<1>5. ForceOK'
  <2>1. /\ Held' = Held /\ off' = off /\ holds' = holds
    BY <1>1, TreeRests DEF inputVars, treeVars
  <2>2. ASSUME target' \in Particles \ off, NEW p \in Particles
        PROVE  /\ p \in Held => Above(p)' # {}
               /\ \A j, k \in Above(p)' : j = k
    <3>1. visits' = one
      BY <1>1, <1>3, <2>2
    <3>2. Above(p)' = {k \in 1..1 : p \in Beneath(one[k])}
      BY <1>3, <2>1, <3>1 DEF Above, Beneath
    <3>3. \A k \in 1..1 : k = 1
      OBVIOUS
    <3>4. p \in Held <=> p \in Beneath(one[1])
      BY <1>3, BeneathRoot
    <3>5. 1 \in 1..1
      OBVIOUS
    <3> QED BY <3>2, <3>3, <3>4, <3>5
  <2> QED BY <1>2, <2>1, <2>2 DEF ForceOK
<1> QED BY <1>1, <1>2, <1>4, <1>5, ForcesStep

LEMMA NoMassKeeps == OctreeInv /\ NoMass => OctreeInv'
<1> SUFFICES ASSUME OctreeInv, NoMass PROVE OctreeInv'
  OBVIOUS
<1> USE DEF OctreeInv
<1>1. /\ Visiting /\ Beneath(Visited) = {} /\ visits' = Tail(visits)
      /\ UNCHANGED <<inputVars, treeVars>> /\ target' = target /\ felt' = felt
      /\ holds' = holds /\ off' = off
  BY DEF NoMass, inputVars, treeVars
<1>2. Built /\ visits' \in Seq(Cells)
  BY <1>1 DEF TreeFirst, Visiting, OctreeTypeOK
<1>3. Held' = Held
  BY <1>1, TreeRests
<1>4. ForceOK'
  <2> SUFFICES ASSUME target \in Particles \ off, NEW p \in Particles \ {target}
               PROVE  /\ felt[p] = 0 \/ felt[p] = 1
                      /\ felt[p] = 1 => p \in Held /\ Above(p)' = {}
                      /\ felt[p] = 0 /\ p \in Held => Above(p)' # {}
                      /\ \A j, k \in Above(p)' : j = k
    BY <1>1, <1>3 DEF ForceOK
  <2>1. /\ felt[p] = 0 \/ felt[p] = 1
        /\ felt[p] = 1 => p \in Held /\ Above(p) = {}
        /\ felt[p] = 0 /\ p \in Held => Above(p) # {}
        /\ \A j, k \in Above(p) : j = k
    BY DEF ForceOK
  <2>2. /\ \A j, k \in Above(p)' : j = k
        /\ Above(p)' # {} <=> Above(p) # {} /\ p \notin Beneath(Visited)
    BY <1>1, <2>1, VisitOver
  <2> QED BY <1>1, <2>1, <2>2
<1> QED BY <1>1, <1>2, <1>4, ForcesStep DEF OctreeTypeOK

\* A push, of a set of particles beneath the visited cell, ends the visit.
LEMMA PushKeeps ==
  ASSUME OctreeInv, Visiting, NEW by, visits' = Tail(visits), felt' = Pushed(by),
         UNCHANGED <<inputVars, treeVars, target>>,
         target \in Particles \ off => by \ {target} = Beneath(Visited) \ {target}
  PROVE  OctreeInv'
<1> USE DEF OctreeInv
<1>1. Built /\ visits' \in Seq(Cells)
  BY DEF TreeFirst, Visiting, OctreeTypeOK
<1>2. Held' = Held /\ off' = off /\ holds' = holds
  BY TreeRests DEF inputVars, treeVars
<1>3. /\ felt \in [Particles -> Nat] /\ felt' \in [Particles -> Nat]
      /\ \A p \in Particles : felt'[p] = IF p \in by THEN felt[p] + 1 ELSE felt[p]
  BY DEF Pushed, OctreeTypeOK
<1>4. ForceOK'
  <2> SUFFICES ASSUME target \in Particles \ off, NEW p \in Particles \ {target}
               PROVE  /\ felt'[p] = 0 \/ felt'[p] = 1
                      /\ felt'[p] = 1 => p \in Held /\ Above(p)' = {}
                      /\ felt'[p] = 0 /\ p \in Held => Above(p)' # {}
                      /\ \A j, k \in Above(p)' : j = k
    BY <1>2 DEF ForceOK
  <2>1. /\ felt[p] = 0 \/ felt[p] = 1
        /\ felt[p] = 1 => p \in Held /\ Above(p) = {}
        /\ felt[p] = 0 /\ p \in Held => Above(p) # {}
        /\ \A j, k \in Above(p) : j = k
    BY DEF ForceOK
  <2>2. /\ \A j, k \in Above(p)' : j = k
        /\ Above(p)' # {} <=> Above(p) # {} /\ p \notin Beneath(Visited)
        /\ p \in Beneath(Visited) => Above(p) # {}
    BY <1>2, <2>1, VisitOver
  <2>3. p \in by <=> p \in Beneath(Visited)
    OBVIOUS
  <2>4. CASE p \in Beneath(Visited)
    <3>1. felt[p] = 0 /\ felt'[p] = 1
      BY <1>3, <2>1, <2>2, <2>3, <2>4
    <3>2. p \in Held
      BY <2>4 DEF Beneath, Held
    <3> QED BY <2>2, <2>4, <3>1, <3>2
  <2>5. CASE p \notin Beneath(Visited)
    BY <1>3, <2>1, <2>2, <2>3, <2>5
  <2> QED BY <2>4, <2>5
<1> QED BY <1>1, <1>3, <1>4, ForcesStep DEF OctreeTypeOK

LEMMA PushesKeep == OctreeInv /\ (PushOfLeaf \/ PushOfCell) => OctreeInv'
<1> SUFFICES ASSUME OctreeInv, PushOfLeaf \/ PushOfCell PROVE OctreeInv'
  OBVIOUS
<1>1. CASE PushOfLeaf
  <2>1. PICK by : by = {holds[Visited]} \ {target}
    OBVIOUS
  <2>2. /\ Visiting /\ visits' = Tail(visits) /\ felt' = Pushed(by)
        /\ UNCHANGED <<inputVars, treeVars, target>> /\ Visited \in DOMAIN holds
    BY <1>1, <2>1 DEF PushOfLeaf
  <2>3. Beneath(Visited) = {holds[Visited]}
    BY <2>2, BeneathLeaf DEF OctreeInv, TreeOK
  <2>4. by \ {target} = Beneath(Visited) \ {target}
    BY <2>1, <2>3
  <2> QED BY <2>2, <2>4, PushKeeps
<1>2. CASE PushOfCell
  <2>1. PICK by : by = Beneath(Visited)
    OBVIOUS
  <2>2. /\ Visiting /\ visits' = Tail(visits) /\ felt' = Pushed(by)
        /\ UNCHANGED <<inputVars, treeVars, target>>
    BY <1>2, <2>1 DEF PushOfCell, AfterWhole
  <2> QED BY <2>1, <2>2, PushKeeps
<1> QED BY <1>1, <1>2

LEMMA OpenCellKeeps == OctreeInv /\ OpenCell => OctreeInv'
<1> SUFFICES ASSUME OctreeInv, OpenCell PROVE OctreeInv'
  OBVIOUS
<1> USE DEF OctreeInv
<1>1. PICK front : front = [k \in 1..Fan |-> Append(Visited, k - 1)]
  OBVIOUS
<1>2. /\ Visiting /\ Visited \in split /\ visits' = front \o Tail(visits)
      /\ UNCHANGED <<inputVars, treeVars>> /\ target' = target /\ felt' = felt
      /\ holds' = holds /\ off' = off
  BY <1>1 DEF OpenCell, inputVars, treeVars
<1>3. PICK c \in split : c = Visited
  BY <1>2
<1>4. front \in Seq(Cells) /\ Len(front) = Fan /\ \A k \in 1..Fan : front[k] = Append(c, k - 1)
  <2>1. ASSUME NEW k \in 1..Fan PROVE Append(c, k - 1) \in Cells
    <3>1. k - 1 \in Octants /\ c \in Cells
      BY DEF Octants, OctreeTypeOK
    <3> QED BY <3>1 DEF Cells
  <2>2. front \in [1..Fan -> Cells]
    BY <1>1, <1>3, <2>1
  <2>3. front \in Seq(Cells) /\ Len(front) = Fan
    BY <2>2
  <2> QED BY <1>1, <1>3, <2>3
<1>5. Built /\ visits' \in Seq(Cells)
  <2>1. visits \in Seq(Cells) /\ visits # <<>>
    BY <1>2 DEF Visiting, OctreeTypeOK
  <2>2. visits' \in Seq(Cells)
    BY <1>2, <1>4, <2>1, FrontThenTail
  <2> QED BY <2>1, <2>2 DEF TreeFirst
<1>6. Held' = Held
  BY <1>2, TreeRests
<1>7. ForceOK'
  <2> SUFFICES ASSUME target \in Particles \ off, NEW p \in Particles \ {target}
               PROVE  /\ felt[p] = 0 \/ felt[p] = 1
                      /\ felt[p] = 1 => p \in Held /\ Above(p)' = {}
                      /\ felt[p] = 0 /\ p \in Held => Above(p)' # {}
                      /\ \A j, k \in Above(p)' : j = k
    BY <1>2, <1>6 DEF ForceOK
  <2>1. /\ felt[p] = 0 \/ felt[p] = 1
        /\ felt[p] = 1 => p \in Held /\ Above(p) = {}
        /\ felt[p] = 0 /\ p \in Held => Above(p) # {}
        /\ \A j, k \in Above(p) : j = k
    BY DEF ForceOK
  <2>2. /\ p \in Beneath(c) => \E k \in 1..Len(front) : p \in Beneath(front[k])
        /\ \A k \in 1..Len(front) : p \in Beneath(front[k]) => p \in Beneath(Visited)
        /\ \A j, k \in 1..Len(front) : p \in Beneath(front[j]) /\ p \in Beneath(front[k]) => j = k
    <3>1. OctreeTypeOK /\ LeavesOK
      BY DEF TreeOK
    <3>2. /\ p \in Beneath(c) => \E k \in 1..Fan : p \in Beneath(Append(c, k - 1))
          /\ \A k \in 1..Fan : p \in Beneath(Append(c, k - 1)) => p \in Beneath(c)
          /\ \A j, k \in 1..Fan :
               p \in Beneath(Append(c, j - 1)) /\ p \in Beneath(Append(c, k - 1)) => j = k
      BY <3>1, BeneathOctants
    <3>3. \A k \in 1..Fan : p \in Beneath(front[k]) <=> p \in Beneath(Append(c, k - 1))
      BY <1>4
    <3> QED BY <1>3, <1>4, <3>2, <3>3
  <2>3. /\ \A j, k \in Above(p)' : j = k
        /\ Above(p)' # {} <=> \/ \E j \in 1..Len(front) : p \in Beneath(front[j])
                              \/ Above(p) # {} /\ p \notin Beneath(Visited)
        /\ p \in Beneath(Visited) => Above(p) # {}
    BY <1>2, <1>4, <2>1, <2>2, VisitsReplaced
  <2>4. Above(p)' # {} <=> Above(p) # {}
    BY <1>3, <2>2, <2>3
  <2> QED BY <2>1, <2>3, <2>4
<1> QED BY <1>2, <1>5, <1>7, ForcesStep DEF OctreeTypeOK

------------------------------------------------------------------------------
(* The theorem.                                                            *)

LEMMA OctreeStutter == OctreeInv /\ UNCHANGED octreeVars => OctreeInv'
<1> SUFFICES ASSUME OctreeInv, UNCHANGED octreeVars PROVE OctreeInv'
  OBVIOUS
<1>1. /\ UNCHANGED <<inputVars, treeVars>> /\ UNCHANGED <<target, visits, felt>>
      /\ holds' = holds /\ off' = off
  BY DEF octreeVars, inputVars, treeVars, forceVars
<1>2. TreeOK' /\ Held' = Held /\ (Built' <=> Built)
  BY <1>1, TreeRests DEF OctreeInv
<1>3. \A p : Above(p)' = Above(p)
  BY <1>1 DEF Above, Beneath
<1>4. ForceOK' /\ TreeFirst'
  BY <1>1, <1>2, <1>3 DEF OctreeInv, ForceOK, TreeFirst
<1>5. OctreeTypeOK'
  BY <1>1 DEF OctreeInv, OctreeTypeOK, inputVars, treeVars
<1> QED BY <1>2, <1>4, <1>5 DEF OctreeInv

LEMMA InitOctree == OctreeInit => OctreeInv
<1> SUFFICES ASSUME OctreeInit PROVE OctreeInv
  OBVIOUS
<1>1. /\ at \in [Particles -> Positions] /\ off \in SUBSET Particles
      /\ next = 0 /\ calls = <<>> /\ split = {} /\ holds = <<>>
      /\ target = -1 /\ visits = <<>> /\ felt = [p \in Particles |-> 0]
  BY DEF OctreeInit
<1>2. DOMAIN holds = {} /\ holds = [c \in {} |-> holds[c]] /\ Len(calls) = 0 /\ Len(visits) = 0
  BY <1>1
<1>3. OctreeTypeOK
  <2>1. next \in 0..Bodies /\ target \in -1..(Bodies - 1)
    BY <1>1
  <2>2. calls \in Seq([cell : Cells, particle : Particles]) /\ visits \in Seq(Cells)
    BY <1>1, EmptyPath
  <2>3. DOMAIN holds \in SUBSET Cells /\ holds \in [DOMAIN holds -> Particles]
    BY <1>2
  <2>4. felt \in [Particles -> Nat] /\ split \in SUBSET Cells
    BY <1>1
  <2> QED BY <1>1, <2>1, <2>2, <2>3, <2>4 DEF OctreeTypeOK
<1>4. Inserted = {}
  BY <1>1 DEF Inserted, Particles
<1>5. CallsOK /\ LeavesOK /\ SplitsOK /\ NoneLost
  BY <1>1, <1>2, <1>4 DEF CallsOK, LeavesOK, SplitsOK, NoneLost
<1>6. TreeFirst /\ ForceOK
  BY <1>1 DEF TreeFirst, ForceOK, Particles
<1> QED BY <1>3, <1>5, <1>6 DEF OctreeInv, TreeOK

LEMMA OctreeInvHolds == OctreeSpec => []OctreeInv
<1>1. OctreeInit => OctreeInv
  BY InitOctree
<1>2. OctreeInv /\ [OctreeNext]_octreeVars => OctreeInv'
  BY InsertNextKeeps, DropExcessKeeps, TakeLeafKeeps, SplitLeafKeeps, DescendKeeps,
     NextTargetKeeps, NoMassKeeps, PushesKeep, OpenCellKeeps, OctreeStutter DEF OctreeNext
<1> QED BY <1>1, <1>2, PTL DEF OctreeSpec

\* When the tree is built, the crowded are the dropped, and the others have a leaf.
LEMMA CrowdedAreDropped ==
  ASSUME OctreeInv, Built, NEW p \in Particles \ off
  PROVE  Crowded(p) <=> p \notin Held
<1> USE DEF OctreeInv, TreeOK
<1>1. Inserted = Particles \ off /\ Pending = {}
  BY DEF Built, Inserted, Pending, Particles, OctreeTypeOK
<1>2. ASSUME NEW q \in Particles
      PROVE  /\ at[q] \in Cells /\ SubSeq(at[q], 1, MaxDepth) \in Cells
             /\ Len(SubSeq(at[q], 1, MaxDepth)) = MaxDepth
             /\ IsPrefix(SubSeq(at[q], 1, MaxDepth), at[q])
  <2>1. PICK t \in Cells : t = at[q] /\ Len(t) = MaxDepth + 1
    BY AtIs DEF OctreeTypeOK
  <2>2. PICK c : c = SubSeq(t, 1, MaxDepth)
    OBVIOUS
  <2>3. c \in Cells /\ Len(c) = MaxDepth /\ c \in Around(t)
    BY <2>1, <2>2 DEF Around, Cells
  <2>4. IsPrefix(c, t)
    BY <2>1, <2>3, AroundIs
  <2> QED BY <2>1, <2>2, <2>3, <2>4
<1>3. PICK c \in Cells : c = SubSeq(at[p], 1, MaxDepth)
  BY <1>2
<1>4. Len(c) = MaxDepth /\ IsPrefix(c, at[p])
  BY <1>2, <1>3
<1>5. ASSUME p \notin Held PROVE Crowded(p)
  <2>1. PICK d \in split : Len(d) = MaxDepth /\ IsPrefix(d, at[p])
    BY <1>1, <1>5 DEF NoneLost, Dropped
  <2>2. d = c
    BY <1>2, <1>4, <2>1, PrefixTotal DEF OctreeTypeOK
  <2>3. PICK a \in Inserted, b \in Inserted : a # b /\ IsPrefix(c, at[a]) /\ IsPrefix(c, at[b])
    BY <2>1, <2>2 DEF SplitsOK
  <2>4. PICK q \in Particles \ (off \cup {p}) : IsPrefix(c, at[q])
    BY <1>1, <2>3
  <2>5. SubSeq(at[q], 1, MaxDepth) = c
    BY <1>2, <1>4, <2>4, PrefixTotal
  <2> QED BY <1>3, <2>5 DEF Crowded
<1>6. ASSUME Crowded(p), p \in Held PROVE FALSE
  <2>1. PICK q \in Particles \ (off \cup {p}) : SubSeq(at[q], 1, MaxDepth) = c
    BY <1>3, <1>6 DEF Crowded
  <2>2. IsPrefix(c, at[q]) /\ at[q] \in Cells /\ at[p] \in Cells
    BY <1>2, <2>1
  <2>3. ASSUME NEW l \in DOMAIN holds, NEW r \in {p, q}, holds[l] = r
        PROVE  l \in Cells /\ IsPrefix(l, c) /\ c \notin split
    <3>1. /\ l \in Cells /\ Len(l) <= MaxDepth /\ IsPrefix(l, at[r]) /\ l \notin split
          /\ Around(l) \subseteq split
      BY <2>3 DEF LeavesOK, OctreeTypeOK
    <3>2. IsPrefix(c, at[r]) /\ at[r] \in Cells
      BY <1>4, <2>2
    <3>3. IsPrefix(l, c)
      BY <1>4, <3>1, <3>2, PrefixTotal
    <3>4. ASSUME c \in split PROVE FALSE
      <4>1. Around(c) \subseteq split
        BY <3>4 DEF SplitsOK
      <4>2. (Len(l) \in Nat /\ Len(l) < MaxDepth) \/ Len(l) = MaxDepth
        BY <3>1 DEF Cells
      <4>3. CASE Len(l) = MaxDepth
        BY <1>4, <3>1, <3>2, <3>4, <4>3, PrefixTotal
      <4>4. CASE Len(l) < MaxDepth
        BY <1>4, <3>1, <3>3, <4>1, <4>4, AroundIs
      <4> QED BY <4>2, <4>3, <4>4
    <3> QED BY <3>1, <3>3, <3>4
  <2>4. PICK l \in DOMAIN holds : holds[l] = p
    BY <1>6 DEF Held
  <2>5. c \notin split /\ IsPrefix(l, c) /\ l \in Cells
    BY <2>3, <2>4
  <2>6. ~Dropped(q)
    <3>1. ASSUME NEW d \in split, Len(d) = MaxDepth, IsPrefix(d, at[q]) PROVE FALSE
      <4>1. d = c
        BY <1>4, <2>2, <3>1, PrefixTotal DEF OctreeTypeOK
      <4> QED BY <2>5, <4>1
    <3> QED BY <3>1 DEF Dropped
  <2>7. q \in Held
    BY <1>1, <2>6 DEF NoneLost
  <2>8. PICK m \in DOMAIN holds : holds[m] = q
    BY <2>7 DEF Held
  <2>9. IsPrefix(l, at[q])
    BY <2>2, <2>5, PrefixTrans
  <2>10. l = m
    BY <2>8, <2>9, OneLeaf
  <2> QED BY <2>1, <2>4, <2>8, <2>10
<1> QED BY <1>5, <1>6

\* For any number of particles, any positions, any fan and depth limit, whichever cells
\* count as far: the force on a particle has the push of each other enabled particle
\* once, and of none that another shares all octants with (barnes_hut.cpp:41-160).
THEOREM EachFeltOnce == OctreeSpec => []FeltOnce
<1>1. OctreeInv => FeltOnce
  <2> SUFFICES ASSUME OctreeInv, Built, visits = <<>>, target \in Particles \ off,
                      NEW p \in Particles \ {target}
               PROVE  felt[p] = IF p \in off \/ Crowded(p) THEN 0 ELSE 1
    BY DEF FeltOnce
  <2> USE DEF OctreeInv, TreeOK
  <2>1. Above(p) = {}
    BY DEF Above
  <2>2. /\ felt[p] = 0 \/ felt[p] = 1
        /\ felt[p] = 1 => p \in Held
        /\ felt[p] = 0 => p \notin Held
    BY <2>1 DEF ForceOK
  <2>3. p \in off => p \notin Held
    BY DEF LeavesOK, Held, Inserted
  <2>4. p \notin off => (Crowded(p) <=> p \notin Held)
    BY CrowdedAreDropped
  <2> QED BY <2>2, <2>3, <2>4
<1> QED BY <1>1, OctreeInvHolds, PTL

==================================================================================
