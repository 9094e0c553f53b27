------------------------- MODULE GraphAlgorithms_proofs -------------------------
(***************************************************************************)
(* Proofs about label propagation and the walk of personalised PageRank,   *)
(* for any graph, any tombstones and any caps.                             *)
(*                                                                         *)
(* GraphInv is inductive: labels stay within what the edges join, a sweep  *)
(* that has changed nothing so far has left settled nodes behind it, and   *)
(* the ranked nodes are those within as many hops as iterations were made. *)
(* That relabelling raises the agreement is a count of edges: those of the *)
(* node that is relabelled, and the others, whose ends keep their labels.  *)
(***************************************************************************)
EXTENDS GraphAlgorithms, FiniteSetTheorems, WellFoundedInduction, TLAPS

LEMMA SizesAreNatural ==
  NodeCount \in Nat /\ MaxParallel \in Nat /\ MaxIters \in Nat /\ Iterations \in Nat
  BY GraphAssumption

USE SizesAreNatural

------------------------------------------------------------------------------
(* Numbers and finite sets.                                                *)

\* A set of naturals has a least one.
LEMMA LeastNatural ==
  ASSUME NEW S \in SUBSET Nat, S # {}
  PROVE  \E x \in S : \A y \in S : x <= y
<1> DEFINE Below(x) == 1..x
           Family == {Below(x) : x \in S}
<1>1. Family \subseteq FiniteSubsetsOf(Nat) /\ Family # {}
  <2>1. ASSUME NEW x \in S PROVE Below(x) \in FiniteSubsetsOf(Nat)
    BY FS_Interval DEF FiniteSubsetsOf
  <2> QED BY <2>1
<1>2. IsWellFoundedOn(StrictSubsetOrdering(Nat), FiniteSubsetsOf(Nat))
  BY FS_StrictSubsetOrderingWellFounded
<1> HIDE DEF Family
<1>3. PICK A \in Family : \A B \in Family : ~(<<B, A>> \in StrictSubsetOrdering(Nat))
  BY <1>1, <1>2, WFMin
<1>4. PICK x \in S : A = Below(x)
  BY DEF Family
<1>5. ASSUME NEW y \in S, ~(x <= y) PROVE FALSE
  <2>1. Below(y) \in Family /\ Below(y) \subseteq A /\ Below(y) # A
    <3>1. x \in Below(x) /\ x \notin Below(y) /\ Below(y) \subseteq Below(x)
      BY <1>5
    <3> QED BY <1>4, <3>1 DEF Family
  <2>2. <<Below(y), A>> \in StrictSubsetOrdering(Nat)
    BY <2>1, <1>4 DEF StrictSubsetOrdering
  <2> QED BY <1>3, <2>1, <2>2
<1> QED BY <1>5

\* So does a set of them that is bounded have a greatest.
LEMMA GreatestNatural ==
  ASSUME NEW S \in SUBSET Nat, S # {}, NEW b \in Nat, \A y \in S : y <= b
  PROVE  \E x \in S : \A y \in S : y <= x
<1> DEFINE T == {b - y : y \in S}
<1>1. T \in SUBSET Nat /\ T # {}
  <2>1. ASSUME NEW y \in S PROVE b - y \in Nat
    <3>1. y \in Nat /\ y <= b
      OBVIOUS
    <3> QED BY <3>1
  <2> QED BY <2>1
<1>2. PICK t \in T : \A u \in T : t <= u
  BY <1>1, LeastNatural
<1>3. PICK x \in S : t = b - x
  OBVIOUS
<1>4. ASSUME NEW y \in S PROVE y <= x
  <2>1. b - x <= b - y /\ x \in Nat /\ y \in Nat
    BY <1>2, <1>3
  <2> QED BY <2>1
<1> QED BY <1>4

\* Min of FiniteSetsExt.
LEMMA MinIs ==
  ASSUME NEW S \in SUBSET Nat, S # {}
  PROVE  Min(S) \in S /\ \A y \in S : Min(S) <= y
  BY LeastNatural DEF Min

\* Two nodes, and the sets of two.
LEMMA PairIs ==
  ASSUME NEW s
  PROVE  IsFiniteSet(s) /\ Cardinality(s) = 2 <=> \E a, b : a # b /\ s = {a, b}
<1>1. ASSUME NEW a, NEW b, a # b PROVE IsFiniteSet({a, b}) /\ Cardinality({a, b}) = 2
  <2>1. IsFiniteSet({a}) /\ Cardinality({a}) = 1
    BY FS_Singleton
  <2>2. {a, b} = {a} \cup {b}
    OBVIOUS
  <2>3. IsFiniteSet({a} \cup {b}) /\ Cardinality({a} \cup {b}) = 1 + 1
    BY <1>1, <2>1, FS_AddElement
  <2> QED BY <2>2, <2>3
<1>2. ASSUME IsFiniteSet(s), Cardinality(s) = 2 PROVE \E a, b : a # b /\ s = {a, b}
  <2>1. s # {}
    BY <1>2, FS_EmptySet
  <2>2. PICK a : a \in s
    BY <2>1
  <2>3. IsFiniteSet(s \ {a}) /\ Cardinality(s \ {a}) = 1
    BY <1>2, <2>2, FS_RemoveElement
  <2>4. PICK b : s \ {a} = {b}
    BY <2>3, FS_Singleton
  <2>5. b \in s \ {a}
    BY <2>4
  <2>6. a # b /\ s = {a, b}
    BY <2>2, <2>4, <2>5
  <2> QED BY <2>6
<1>3. ASSUME \E a, b : a # b /\ s = {a, b} PROVE IsFiniteSet(s) /\ Cardinality(s) = 2
  <2>1. PICK a, b : a # b /\ s = {a, b}
    BY <1>3
  <2>2. IsFiniteSet({a, b}) /\ Cardinality({a, b}) = 2
    BY <1>1, <2>1
  <2> QED BY <2>1, <2>2
<1> QED BY <1>2, <1>3

\* A finite set in two parts.
LEMMA PartsAdd ==
  ASSUME NEW S, IsFiniteSet(S), NEW T \in SUBSET S
  PROVE  /\ Cardinality(S) = Cardinality(T) + Cardinality(S \ T)
         /\ Cardinality(T) \in Nat /\ Cardinality(S \ T) \in Nat /\ Cardinality(S) \in Nat
<1>1. IsFiniteSet(T) /\ IsFiniteSet(S \ T) /\ Cardinality(S) \in Nat
      /\ Cardinality(T) \in Nat /\ Cardinality(S \ T) \in Nat
  BY FS_Subset, FS_CardinalityType
<1>2. Cardinality(S \ T) = Cardinality(S) - Cardinality(S \cap T)
  BY FS_Difference
<1>3. Cardinality(S \cap T) = Cardinality(T)
  <2>1. S \cap T = T
    OBVIOUS
  <2> QED BY <2>1
<1>4. PICK s \in Nat, t \in Nat, d \in Nat :
        s = Cardinality(S) /\ t = Cardinality(T) /\ d = Cardinality(S \ T)
  BY <1>1
<1>5. s = t + d
  BY <1>2, <1>3, <1>4
<1> QED BY <1>4, <1>5

------------------------------------------------------------------------------
(* Edges, neighbours and votes.                                            *)

GraphOK ==
  /\ parallel \in [kSubset(2, Nodes) -> 0..MaxParallel]
  /\ alive \in SUBSET Nodes

LabelsOK == labels \in [Nodes -> Nodes]

\* Of a set of edges: those of a node, those by which its neighbours vote for a label
\* under a labelling, and those whose ends carry one label.
Touching(E, i) == {x \in E : i \in x[1]}
Ballot(E, i, label, f) == {x \in E : i \in x[1] /\ \A n \in x[1] \ {i} : f[n] = label}
Agreeing(E, f) == {x \in E : \A a, b \in x[1] : f[a] = f[b]}

LEMMA NodesFinite == IsFiniteSet(Nodes)
  BY FS_Interval DEF Nodes

LEMMA LiveEdgesFinite ==
  ASSUME GraphOK
  PROVE  IsFiniteSet(LiveEdges)
<1>2. IsFiniteSet(SUBSET alive)
  BY NodesFinite, FS_Subset, FS_SUBSET DEF GraphOK
<1>3. IsFiniteSet(kSubset(2, alive))
  BY <1>2, FS_Subset DEF kSubset
<1>4. IsFiniteSet(1..MaxParallel)
  BY FS_Interval
<1>5. IsFiniteSet(kSubset(2, alive) \X (1..MaxParallel))
  BY <1>3, <1>4, FS_Product
<1> QED BY <1>5, FS_Subset DEF LiveEdges

LEMMA VotesOK ==
  ASSUME GraphOK, NEW i, NEW l
  PROVE  /\ Votes(i, l) = Cardinality(Ballot(LiveEdges, i, l, labels))
         /\ Votes(i, l) \in Nat
         /\ Votes(i, l) <= Cardinality(LiveEdges)
         /\ Cardinality(LiveEdges) \in Nat
<1>1. Ballot(LiveEdges, i, l, labels) \in SUBSET LiveEdges
  BY DEF Ballot
<1>2. IsFiniteSet(LiveEdges)
  BY LiveEdgesFinite
<1>3. Votes(i, l) = Cardinality(Ballot(LiveEdges, i, l, labels))
  BY DEF Votes, Ballot
<1>4. /\ Cardinality(Ballot(LiveEdges, i, l, labels)) \in Nat /\ Cardinality(LiveEdges) \in Nat
      /\ Cardinality(Ballot(LiveEdges, i, l, labels)) <= Cardinality(LiveEdges)
  BY <1>1, <1>2, FS_Subset, FS_CardinalityType
<1> QED BY <1>3, <1>4

\* Each neighbour has a live edge, and an edge of i leads to a neighbour.
LEMMA EdgesJoin ==
  ASSUME GraphOK, NEW i \in Nodes
  PROVE  /\ \A b \in Neighbors(i) : b # i /\ <<{i, b}, 1>> \in LiveEdges
         /\ \A x \in Touching(LiveEdges, i) : \E b \in Neighbors(i) : b # i /\ x[1] = {i, b}
<1>1. ASSUME NEW b \in Neighbors(i) PROVE b # i /\ <<{i, b}, 1>> \in LiveEdges
  <2>1. b # i /\ {i, b} \subseteq alive /\ parallel[{i, b}] > 0
    BY <1>1 DEF Neighbors, Weight
  <2>2. Cardinality({i, b}) = 2
    BY <2>1, PairIs
  <2>3. {i, b} \in kSubset(2, alive) /\ {i, b} \in kSubset(2, Nodes)
    BY <2>1, <2>2 DEF kSubset, GraphOK
  <2>4. parallel[{i, b}] \in 0..MaxParallel
    BY <2>3 DEF GraphOK
  <2>5. 1 \in 1..MaxParallel /\ 1 <= parallel[{i, b}]
    BY <2>1, <2>4
  <2> QED BY <2>1, <2>3, <2>5 DEF LiveEdges
<1>2. ASSUME NEW x \in Touching(LiveEdges, i)
      PROVE  \E b \in Neighbors(i) : b # i /\ x[1] = {i, b}
  <2>1. /\ x[1] \in kSubset(2, alive) /\ x[2] \in 1..MaxParallel
        /\ x[2] <= parallel[x[1]] /\ i \in x[1]
    BY DEF Touching, LiveEdges
  <2>2. x[1] \in SUBSET Nodes /\ Cardinality(x[1]) = 2 /\ x[1] \in SUBSET alive
    BY <2>1 DEF kSubset, GraphOK
  <2>3. IsFiniteSet(x[1])
    BY <2>2, NodesFinite, FS_Subset
  <2>4. PICK a, b : a # b /\ x[1] = {a, b}
    BY <2>2, <2>3, PairIs
  <2>5. PICK c : c # i /\ x[1] = {i, c}
    BY <2>1, <2>4
  <2>6. x[1] \in kSubset(2, Nodes)
    BY <2>2 DEF kSubset
  <2>7. parallel[{i, c}] \in 0..MaxParallel /\ parallel[{i, c}] > 0
    BY <2>1, <2>5, <2>6 DEF GraphOK
  <2>8. c \in Nodes /\ Weight(i, c) > 0
    BY <2>2, <2>5, <2>7 DEF Weight
  <2> QED BY <2>5, <2>8 DEF Neighbors
<1> QED BY <1>1, <1>2

\* The best label of a node with neighbours leads, and is the least that does.
LEMMA BestLeads ==
  ASSUME GraphOK, LabelsOK, NEW i \in Nodes, Neighbors(i) # {}
  PROVE  /\ BestLabel(i) \in Leading(i) /\ BestLabel(i) \in Nodes
         /\ \A l \in Leading(i) : BestLabel(i) <= l
         /\ \E n \in Neighbors(i) : BestLabel(i) = labels[n]
<1> DEFINE Counts == {Votes(i, labels[n]) : n \in Neighbors(i)}
<1>1. Counts \in SUBSET Nat /\ Counts # {}
  <2>1. \A n \in Neighbors(i) : Votes(i, labels[n]) \in Nat
    BY VotesOK
  <2> QED BY <2>1
<1>2. Cardinality(LiveEdges) \in Nat /\ \A c \in Counts : c <= Cardinality(LiveEdges)
  BY VotesOK
<1>3. PICK c \in Counts : \A d \in Counts : d <= c
  BY <1>1, <1>2, GreatestNatural
<1>4. PICK m \in Neighbors(i) : c = Votes(i, labels[m])
  OBVIOUS
<1>5. labels[m] \in Leading(i)
  BY <1>3, <1>4 DEF Leading
<1>6. \A n \in Neighbors(i) : labels[n] \in Nodes
  BY DEF Neighbors, LabelsOK
<1>7. Leading(i) \subseteq {labels[n] : n \in Neighbors(i)}
  BY DEF Leading
<1>8. Nodes \subseteq Nat
  BY DEF Nodes
<1>9. Leading(i) \in SUBSET Nat /\ Leading(i) # {}
  BY <1>5, <1>6, <1>7, <1>8
<1>10. Min(Leading(i)) \in Leading(i) /\ \A l \in Leading(i) : Min(Leading(i)) <= l
  BY <1>9, MinIs
<1> QED BY <1>6, <1>7, <1>10 DEF BestLabel
------------------------------------------------------------------------------
(* Relabelling one node.                                                   *)

\* The label that a node takes has more votes than the one it had, or as many and
\* is smaller.
LEMMA BestBeatsOld ==
  ASSUME GraphOK, LabelsOK, NEW i \in Nodes, Neighbors(i) # {}, BestLabel(i) # labels[i]
  PROVE  \/ Votes(i, labels[i]) < Votes(i, BestLabel(i))
         \/ /\ Votes(i, labels[i]) = Votes(i, BestLabel(i))
            /\ BestLabel(i) < labels[i]
<1> DEFINE old == labels[i]
           new == BestLabel(i)
<1>1. new \in Leading(i) /\ \A l \in Leading(i) : new <= l
  BY BestLeads
<1>2. PICK n \in Neighbors(i) : new = labels[n]
  BY BestLeads
<1>3. Votes(i, old) \in Nat /\ Votes(i, new) \in Nat
  BY VotesOK
<1>4. old \in Nat /\ new \in Nat
  <2>1. old \in Nodes /\ new \in Nodes
    BY BestLeads DEF LabelsOK
  <2> QED BY <2>1 DEF Nodes
<1>5. \A m \in Neighbors(i) : Votes(i, labels[m]) <= Votes(i, new)
  BY <1>1 DEF Leading
<1>6. CASE \E m \in Neighbors(i) : labels[m] = old
  <2>1. Votes(i, old) <= Votes(i, new)
    BY <1>5, <1>6
  <2>2. ASSUME Votes(i, old) = Votes(i, new) PROVE new <= old
    <3>1. old \in Leading(i)
      BY <1>5, <1>6, <2>2 DEF Leading
    <3> QED BY <1>1, <3>1
  <2>3. new # old
    OBVIOUS
  <2> HIDE DEF old, new
  <2>4. PICK v \in Nat, w \in Nat : v = Votes(i, old) /\ w = Votes(i, new)
    BY <1>3
  <2>5. v < w \/ (v = w /\ new < old)
    BY <2>1, <2>2, <2>3, <2>4, <1>4
  <2>6. Votes(i, old) < Votes(i, new) \/ (Votes(i, old) = Votes(i, new) /\ new < old)
    BY <2>4, <2>5
  <2> QED BY <2>6 DEF old, new
<1>7. CASE ~ \E m \in Neighbors(i) : labels[m] = old
  <2>1. Ballot(LiveEdges, i, old, labels) = {}
    <3>1. ASSUME NEW x \in Ballot(LiveEdges, i, old, labels) PROVE FALSE
      <4>1. x \in Touching(LiveEdges, i)
        BY DEF Ballot, Touching
      <4>2. PICK b \in Neighbors(i) : b # i /\ x[1] = {i, b}
        BY <4>1, EdgesJoin
      <4>3. labels[b] = old
        BY <4>2 DEF Ballot
      <4> QED BY <1>7, <4>3
    <3> QED BY <3>1
  <2>2. Votes(i, old) = 0
    BY <2>1, VotesOK, FS_EmptySet
  <2>3. <<{i, n}, 1>> \in Ballot(LiveEdges, i, new, labels)
    <3>1. n # i /\ <<{i, n}, 1>> \in LiveEdges
      BY EdgesJoin
    <3> QED BY <1>2, <3>1 DEF Ballot
  <2>4. Votes(i, new) # 0
    <3>1. IsFiniteSet(Ballot(LiveEdges, i, new, labels))
      BY LiveEdgesFinite, FS_Subset DEF Ballot
    <3>2. Cardinality(Ballot(LiveEdges, i, new, labels)) # 0
      BY <2>3, <3>1, FS_EmptySet
    <3> QED BY <3>2, VotesOK
  <2>5. Votes(i, old) < Votes(i, new)
    BY <1>3, <2>2, <2>4
  <2> QED BY <2>5
<1> QED BY <1>6, <1>7

\* Of the edges that agree, those of one node are the votes for its own label.
LEMMA AgreeingParts ==
  ASSUME NEW E, IsFiniteSet(E), NEW i, NEW f, NEW l, l = f[i]
  PROVE  /\ Cardinality(Agreeing(E, f))
              = Cardinality(Ballot(E, i, l, f)) + Cardinality(Agreeing(E, f) \ Touching(E, i))
         /\ Cardinality(Agreeing(E, f) \ Touching(E, i)) \in Nat
<1>1. Agreeing(E, f) \cap Touching(E, i) = Ballot(E, i, l, f)
  <2>1. ASSUME NEW x \in Agreeing(E, f) \cap Touching(E, i) PROVE x \in Ballot(E, i, l, f)
    BY DEF Agreeing, Touching, Ballot
  <2>2. ASSUME NEW x \in Ballot(E, i, l, f) PROVE x \in Agreeing(E, f) \cap Touching(E, i)
    <3>1. x \in E /\ i \in x[1] /\ \A n \in x[1] \ {i} : f[n] = f[i]
      BY DEF Ballot
    <3>2. \A n \in x[1] : f[n] = f[i]
      BY <3>1
    <3> QED BY <3>1, <3>2 DEF Agreeing, Touching
  <2> QED BY <2>1, <2>2
<1> DEFINE S == Agreeing(E, f)
           T == Ballot(E, i, l, f)
<1>2. IsFiniteSet(S)
  BY FS_Subset DEF Agreeing
<1>3. T \in SUBSET S /\ S \ T = Agreeing(E, f) \ Touching(E, i)
  BY <1>1
<1> HIDE DEF S, T
<1>4. Cardinality(S) = Cardinality(T) + Cardinality(S \ T) /\ Cardinality(S \ T) \in Nat
  BY <1>2, <1>3, PartsAdd
<1> QED BY <1>3, <1>4 DEF S, T

\* What one node's relabelling does to the agreement: its old votes go, its new come.
LEMMA RelabelMoves ==
  ASSUME GraphOK, LabelsOK, NEW i \in Nodes, NEW l \in Nodes,
         UNCHANGED graphVars, labels' = [labels EXCEPT ![i] = l]
  PROVE  \E rest \in Nat : /\ Agreement = Votes(i, labels[i]) + rest
                           /\ Agreement' = Votes(i, l) + rest
<1>1. PICK E : E = LiveEdges
  OBVIOUS
<1>2. PICK f : f = labels
  OBVIOUS
<1>3. PICK g : g = [f EXCEPT ![i] = l]
  OBVIOUS
<1>4. LiveEdges' = E /\ labels' = g
  BY <1>1, <1>2, <1>3 DEF graphVars, LiveEdges
<1>5. IsFiniteSet(E)
  BY <1>1, LiveEdgesFinite
<1>6. g[i] = l /\ \A n \in Nodes \ {i} : g[n] = f[n]
  BY <1>2, <1>3 DEF LabelsOK
<1>7. \A x \in E : x[1] \in SUBSET Nodes
  BY <1>1 DEF LiveEdges, kSubset, GraphOK
<1>8. Agreeing(E, g) \ Touching(E, i) = Agreeing(E, f) \ Touching(E, i)
  <2>1. ASSUME NEW x \in E, i \notin x[1]
        PROVE  (\A a, b \in x[1] : g[a] = g[b]) <=> (\A a, b \in x[1] : f[a] = f[b])
    <3>1. \A n \in x[1] : g[n] = f[n]
      BY <1>6, <1>7, <2>1
    <3> QED BY <3>1
  <2> QED BY <2>1 DEF Agreeing, Touching
<1>9. Ballot(E, i, l, g) = Ballot(E, i, l, f)
  <2>1. ASSUME NEW x \in E
        PROVE  (\A n \in x[1] \ {i} : g[n] = l) <=> (\A n \in x[1] \ {i} : f[n] = l)
    <3>1. \A n \in x[1] \ {i} : g[n] = f[n]
      BY <1>6, <1>7
    <3> QED BY <3>1
  <2> QED BY <2>1 DEF Ballot
<1>10. PICK m : m = f[i]
  OBVIOUS
<1>11. PICK rest : rest = Cardinality(Agreeing(E, f) \ Touching(E, i))
  OBVIOUS
<1>12. Cardinality(Agreeing(E, f)) = Cardinality(Ballot(E, i, m, f)) + rest /\ rest \in Nat
  BY <1>5, <1>10, <1>11, AgreeingParts
<1>13. Cardinality(Agreeing(E, g)) = Cardinality(Ballot(E, i, l, f)) + rest
  BY <1>5, <1>6, <1>8, <1>9, <1>11, AgreeingParts
<1>14. /\ Votes(i, labels[i]) = Cardinality(Ballot(E, i, m, f))
       /\ Votes(i, l) = Cardinality(Ballot(E, i, l, f))
  BY <1>1, <1>2, <1>10 DEF Votes, Ballot
<1>15. Agreement = Cardinality(Agreeing(E, f))
  BY <1>1, <1>2 DEF Agreement, Agreeing
<1>16. Agreement' = Cardinality(Agreeing(E, g))
  <2>1. Agreement' = Cardinality({x \in LiveEdges' : \A a, b \in x[1] : labels'[a] = labels'[b]})
    BY DEF Agreement
  <2>2. {x \in LiveEdges' : \A a, b \in x[1] : labels'[a] = labels'[b]} = Agreeing(E, g)
    BY <1>4 DEF Agreeing
  <2> QED BY <2>1, <2>2
<1> QED BY <1>12, <1>13, <1>14, <1>15, <1>16

------------------------------------------------------------------------------
(* The invariant.                                                          *)

\* job takes these values; "none" is a call of another module.
JobOK ==
  /\ job \in {"cluster", "clustered", "rank", "ranked"}
  /\ node \in 0..NodeCount /\ changed \in BOOLEAN /\ iter \in Nat
  /\ job = "rank" \/ job = "ranked" => anchor \in Nodes /\ walked \in 0..Iterations
  /\ job = "ranked" => walked = Iterations

\* A label never leaves what the edges join.
LabelsStay ==
  \A i \in Nodes : \A S \in SUBSET Nodes :
    i \in S /\ (\A s \in S : Neighbors(s) \subseteq S) => labels[i] \in S

\* The nodes that a sweep has passed without a change have their best label.
SweepSettles ==
  /\ ~changed => \A i \in 0..(node - 1) : Neighbors(i) # {} => labels[i] = BestLabel(i)
  /\ job = "clustered" => iter = MaxIters \/ (node = NodeCount /\ ~changed)

\* v is reached from the anchor in at most n hops.
WithinHops(v, n) ==
  \E m \in 0..n : \E path \in [0..m -> Nodes] :
     /\ path[0] = anchor /\ path[m] = v
     /\ \A k \in 1..m : path[k] \in Neighbors(path[k - 1])

RankedInHops ==
  job = "rank" \/ job = "ranked" => ranked = {v \in Nodes : WithinHops(v, walked)}

GraphInv == GraphOK /\ LabelsOK /\ JobOK /\ LabelsStay /\ SweepSettles /\ RankedInHops

LEMMA InitGraph == GraphInit => GraphInv
<1> SUFFICES ASSUME GraphInit PROVE GraphInv
  OBVIOUS
<1>1. GraphOK /\ LabelsOK
  BY DEF GraphInit, GraphOK, LabelsOK
<1>2. JobOK
  <2>1. /\ node = 0 /\ changed = FALSE /\ iter = 0 /\ walked = 0
        /\ job = "cluster" \/ (job = "rank" /\ anchor \in Nodes)
    BY <1>1 DEF GraphInit, GraphOK
  <2>2. node \in 0..NodeCount /\ walked \in 0..Iterations
    BY <2>1
  <2>3. changed \in BOOLEAN /\ iter \in Nat
    BY <2>1
  <2> QED BY <2>1, <2>2, <2>3 DEF JobOK
<1>3. LabelsStay /\ SweepSettles
  BY DEF GraphInit, LabelsStay, SweepSettles
<1>4. ASSUME job = "rank" \/ job = "ranked" PROVE ranked = {v \in Nodes : WithinHops(v, 0)}
  <2>1. anchor \in Nodes /\ ranked = {anchor}
    BY <1>4 DEF GraphInit
  <2>2. WithinHops(anchor, 0)
    <3> DEFINE path == [k \in 0..0 |-> anchor]
    <3>1. path \in [0..0 -> Nodes] /\ path[0] = anchor
      BY <2>1
    <3>2. \A k \in 1..0 : path[k] \in Neighbors(path[k - 1])
      OBVIOUS
    <3>3. 0 \in 0..0
      OBVIOUS
    <3> QED BY <3>1, <3>2, <3>3 DEF WithinHops
  <2>3. ASSUME NEW v, WithinHops(v, 0) PROVE v = anchor
    <3>1. \A m \in 0..0 : m = 0
      OBVIOUS
    <3> QED BY <2>3, <3>1 DEF WithinHops
  <2> QED BY <2>1, <2>2, <2>3
<1>5. RankedInHops
  BY <1>4 DEF RankedInHops, GraphInit
<1> QED BY <1>1, <1>2, <1>3, <1>5 DEF GraphInv
\* One more iteration reaches the anchor and the neighbours of what was reached.
LEMMA OneHopMore ==
  ASSUME NEW n \in Nat, anchor \in Nodes, NEW v \in Nodes
  PROVE  WithinHops(v, n + 1)
           <=> v = anchor \/ \E u \in Nodes : WithinHops(u, n) /\ v \in Neighbors(u)
<1>1. ASSUME v = anchor PROVE WithinHops(v, n + 1)
  <2> DEFINE path == [k \in 0..0 |-> anchor]
  <2>1. path \in [0..0 -> Nodes] /\ path[0] = anchor
    OBVIOUS
  <2>2. \A k \in 1..0 : path[k] \in Neighbors(path[k - 1])
    OBVIOUS
  <2>3. 0 \in 0..(n + 1)
    OBVIOUS
  <2> QED BY <1>1, <2>1, <2>2, <2>3 DEF WithinHops
<1>2. ASSUME NEW u \in Nodes, WithinHops(u, n), v \in Neighbors(u)
      PROVE  WithinHops(v, n + 1)
  <2>1. PICK m \in 0..n : \E path \in [0..m -> Nodes] :
               /\ path[0] = anchor /\ path[m] = u
               /\ \A k \in 1..m : path[k] \in Neighbors(path[k - 1])
    BY <1>2 DEF WithinHops
  <2>2. PICK path \in [0..m -> Nodes] :
               /\ path[0] = anchor /\ path[m] = u
               /\ \A k \in 1..m : path[k] \in Neighbors(path[k - 1])
    BY <2>1
  <2> DEFINE longer == [k \in 0..(m + 1) |-> IF k = m + 1 THEN v ELSE path[k]]
  <2>3. longer \in [0..(m + 1) -> Nodes] /\ longer[0] = anchor /\ longer[m + 1] = v
    BY <2>2
  <2>4. ASSUME NEW k \in 1..(m + 1) PROVE longer[k] \in Neighbors(longer[k - 1])
    <3>1. CASE k = m + 1
      <4>1. longer[k] = v /\ k - 1 = m /\ m \in 0..(m + 1) /\ m # m + 1
        BY <3>1
      <4>2. longer[m] = u
        BY <2>2, <4>1
      <4> QED BY <1>2, <4>1, <4>2
    <3>2. CASE k # m + 1
      <4>1. k \in 1..m /\ k - 1 \in 0..m /\ k - 1 # m + 1
        BY <3>2
      <4>2. longer[k] = path[k] /\ longer[k - 1] = path[k - 1]
        BY <3>2, <4>1
      <4> QED BY <2>2, <4>1, <4>2
    <3> QED BY <3>1, <3>2
  <2>5. m + 1 \in 0..(n + 1)
    OBVIOUS
  <2> HIDE DEF longer
  <2> QED BY <2>3, <2>4, <2>5 DEF WithinHops
<1>3. ASSUME WithinHops(v, n + 1), v # anchor
      PROVE  \E u \in Nodes : WithinHops(u, n) /\ v \in Neighbors(u)
  <2>1. PICK m \in 0..(n + 1) : \E path \in [0..m -> Nodes] :
               /\ path[0] = anchor /\ path[m] = v
               /\ \A k \in 1..m : path[k] \in Neighbors(path[k - 1])
    BY <1>3 DEF WithinHops
  <2>2. PICK path \in [0..m -> Nodes] :
               /\ path[0] = anchor /\ path[m] = v
               /\ \A k \in 1..m : path[k] \in Neighbors(path[k - 1])
    BY <2>1
  <2>3. m # 0
    BY <1>3, <2>2
  <2>4. m \in 1..m /\ m - 1 \in 0..n /\ m - 1 \in 0..m
    BY <2>3
  <2> DEFINE shorter == [k \in 0..(m - 1) |-> path[k]]
  <2>5. /\ shorter \in [0..(m - 1) -> Nodes] /\ shorter[0] = anchor
        /\ shorter[m - 1] = path[m - 1]
    BY <2>2, <2>4
  <2>6. ASSUME NEW k \in 1..(m - 1) PROVE shorter[k] \in Neighbors(shorter[k - 1])
    <3>1. k \in 1..m /\ k \in 0..(m - 1) /\ k - 1 \in 0..(m - 1)
      OBVIOUS
    <3>2. shorter[k] = path[k] /\ shorter[k - 1] = path[k - 1]
      BY <3>1
    <3> QED BY <2>2, <3>1, <3>2
  <2>7. v \in Neighbors(path[m - 1]) /\ path[m - 1] \in Nodes
    BY <2>2, <2>4
  <2> HIDE DEF shorter
  <2>8. WithinHops(path[m - 1], n)
    BY <2>4, <2>5, <2>6 DEF WithinHops
  <2> QED BY <2>7, <2>8
<1> QED BY <1>1, <1>2, <1>3

\* Neighbours and best labels follow the graph and the labels.
LEMMA SameGraph ==
  ASSUME UNCHANGED graphVars, NEW i
  PROVE  /\ Neighbors(i)' = Neighbors(i)
         /\ labels' = labels => BestLabel(i)' = BestLabel(i)
<1>1. LiveEdges' = LiveEdges /\ Neighbors(i)' = Neighbors(i)
  BY DEF LiveEdges, Neighbors, Weight, graphVars
<1>2. ASSUME labels' = labels PROVE BestLabel(i)' = BestLabel(i)
  <2>1. ASSUME NEW l PROVE Votes(i, l)' = Votes(i, l)
    BY <1>1, <1>2 DEF Votes
  <2>2. Leading(i)' = Leading(i)
    BY <1>1, <1>2, <2>1 DEF Leading
  <2> QED BY <2>2 DEF BestLabel
<1> QED BY <1>1, <1>2

LEMMA RelabelKeeps == GraphInv /\ Relabel => GraphInv'
<1> SUFFICES ASSUME GraphInv, Relabel PROVE GraphInv'
  OBVIOUS
<1> USE DEF GraphInv
<1>1. /\ GraphOK' /\ UNCHANGED <<graphVars, job, iter, rankVars>>
      /\ job = "cluster" /\ node < NodeCount /\ node' = node + 1
      /\ changed' = AnyChange(labels' # labels)
      /\ labels' = IF Neighbors(node) = {} THEN labels
                                           ELSE [labels EXCEPT ![node] = BestLabel(node)]
  BY DEF Relabel, GraphOK, graphVars
<1>2. node \in Nodes /\ node \in Nat
  BY <1>1 DEF JobOK, Nodes
<1>3. PICK here : here = node
  OBVIOUS
<1>4. here \in Nodes /\ here \in Nat /\ here' = here
  BY <1>2, <1>3
<1>5. Neighbors(here) # {} => BestLabel(here) \in Nodes
                              /\ \E n \in Neighbors(here) : BestLabel(here) = labels[n]
  BY <1>4, BestLeads
<1>6. LabelsOK'
  BY <1>1, <1>3, <1>5 DEF LabelsOK
<1>7. JobOK'
  BY <1>1, <1>2 DEF JobOK, AnyChange, rankVars
<1>9. LabelsStay'
  <2>1. ASSUME NEW i \in Nodes, NEW S \in SUBSET Nodes, i \in S,
               \A s \in S : Neighbors(s) \subseteq S
        PROVE  labels'[i] \in S
    <3>1. labels[i] \in S
      BY <2>1 DEF LabelsStay
    <3>2. CASE i = here /\ Neighbors(here) # {}
      <4>1. PICK n \in Neighbors(here) : BestLabel(here) = labels[n]
        BY <1>5, <3>2
      <4>2. n \in S /\ n \in Nodes
        BY <2>1, <3>2, <4>1
      <4>3. labels[n] \in S
        BY <2>1, <4>2 DEF LabelsStay
      <4>4. labels'[i] = BestLabel(here)
        BY <1>1, <1>3, <3>2 DEF LabelsOK
      <4> QED BY <4>1, <4>3, <4>4
    <3>3. CASE ~(i = here /\ Neighbors(here) # {})
      <4>1. labels'[i] = labels[i]
        BY <1>1, <1>3, <3>3 DEF LabelsOK
      <4> QED BY <3>1, <4>1
    <3> QED BY <3>2, <3>3
  <2>2. ASSUME NEW s PROVE Neighbors(s)' = Neighbors(s)
    BY <1>1, SameGraph
  <2> QED BY <2>1, <2>2 DEF LabelsStay
<1>10. SweepSettles'
  <2>1. ASSUME ~changed', NEW i \in 0..here, Neighbors(i)' # {}
        PROVE  labels'[i] = BestLabel(i)'
    <3>1. labels' = labels /\ ~changed
      BY <1>1, <2>1 DEF AnyChange
    <3>2. BestLabel(i)' = BestLabel(i) /\ Neighbors(i)' = Neighbors(i)
      BY <1>1, <3>1, SameGraph
    <3>3. CASE i = here
      <4>1. labels'[here] = BestLabel(here)
        BY <1>1, <1>3, <1>4, <2>1, <3>2, <3>3 DEF LabelsOK
      <4> QED BY <3>2, <3>3, <4>1
    <3>4. CASE i # here
      <4>1. i \in 0..(here - 1)
        BY <1>4, <3>4
      <4>2. labels[i] = BestLabel(i)
        BY <1>3, <2>1, <3>1, <3>2, <4>1 DEF SweepSettles
      <4> QED BY <3>1, <3>2, <4>2
    <3> QED BY <3>3, <3>4
  <2>2. node' - 1 = here /\ job' = "cluster"
    BY <1>1, <1>3, <1>4
  <2> QED BY <2>1, <2>2 DEF SweepSettles
<1>11. RankedInHops'
  BY <1>1 DEF RankedInHops
<1> QED BY <1>1, <1>6, <1>7, <1>9, <1>10, <1>11

LEMMA SweepKeeps == GraphInv /\ (NextSweep \/ ReturnLabels) => GraphInv'
<1> SUFFICES ASSUME GraphInv, NextSweep \/ ReturnLabels PROVE GraphInv'
  OBVIOUS
<1> USE DEF GraphInv
<1>1. /\ UNCHANGED graphVars /\ UNCHANGED labels /\ UNCHANGED rankVars
      /\ job = "cluster" /\ job' \in {"cluster", "clustered"}
      /\ iter \in Nat /\ iter' \in {iter, iter + 1}
  BY DEF NextSweep, ReturnLabels, clusterVars, JobOK
<1>2. GraphOK' /\ LabelsOK'
  BY <1>1 DEF GraphOK, LabelsOK, graphVars
<1>3. /\ node' = 0 \/ node' = node
      /\ changed' = FALSE \/ changed' = changed
  BY DEF NextSweep, ReturnLabels, clusterVars
<1>4. JobOK'
  <2>1. node' \in 0..NodeCount
    BY <1>3 DEF JobOK
  <2>2. changed' \in BOOLEAN
    BY <1>3 DEF JobOK
  <2>3. iter' \in Nat
    BY <1>1
  <2> QED BY <1>1, <2>1, <2>2, <2>3 DEF JobOK
<1>5. ASSUME NEW i PROVE Neighbors(i)' = Neighbors(i) /\ BestLabel(i)' = BestLabel(i)
  BY <1>1, SameGraph
<1>6. LabelsStay'
  BY <1>1, <1>5 DEF LabelsStay
<1>7. SweepSettles'
  <2>1. CASE NextSweep
    <3>1. node' = 0 /\ job' = "cluster"
      BY <2>1 DEF NextSweep
    <3>2. \A i \in 0..(node' - 1) : FALSE
      BY <3>1
    <3> QED BY <3>1, <3>2 DEF SweepSettles
  <2>2. CASE ReturnLabels
    <3>1. UNCHANGED <<node, changed, iter, labels>> /\ (iter = MaxIters \/ (node = NodeCount /\ ~changed))
      BY <2>2 DEF ReturnLabels, clusterVars
    <3> QED BY <3>1, <1>5 DEF SweepSettles
  <2> QED BY <2>1, <2>2
<1>8. RankedInHops'
  BY <1>1 DEF RankedInHops
<1> QED BY <1>2, <1>4, <1>6, <1>7, <1>8

LEMMA WalkKeeps == GraphInv /\ Walk => GraphInv'
<1> SUFFICES ASSUME GraphInv, Walk PROVE GraphInv'
  OBVIOUS
<1> USE DEF GraphInv
<1>1. /\ UNCHANGED graphVars /\ UNCHANGED clusterVars /\ UNCHANGED labels
      /\ UNCHANGED <<job, anchor, node, changed, iter>>
      /\ job = "rank" /\ walked \in 0..Iterations /\ walked < Iterations
      /\ ranked' = {anchor} \cup UNION {Neighbors(u) : u \in ranked}
      /\ walked' = walked + 1 /\ anchor \in Nodes
  BY DEF Walk, clusterVars, JobOK
<1>2. GraphOK' /\ LabelsOK'
  BY <1>1 DEF GraphOK, LabelsOK, graphVars
<1>3. JobOK'
  BY <1>1 DEF JobOK
<1>4. ASSUME NEW i PROVE Neighbors(i)' = Neighbors(i) /\ BestLabel(i)' = BestLabel(i)
  BY <1>1, SameGraph
<1>5. LabelsStay'
  BY <1>1, <1>4 DEF LabelsStay
<1>6. SweepSettles'
  BY <1>1, <1>4 DEF SweepSettles
<1>7. RankedInHops'
  <2>1. ranked = {v \in Nodes : WithinHops(v, walked)}
    BY <1>1 DEF RankedInHops
  <2>2. ASSUME NEW v PROVE v \in ranked' <=> v \in Nodes /\ WithinHops(v, walked + 1)
    <3>1. v \in ranked' => v \in Nodes
      BY <1>1 DEF Neighbors
    <3>2. v \in ranked' <=> v = anchor \/ \E u \in Nodes : WithinHops(u, walked) /\ v \in Neighbors(u)
      BY <1>1, <2>1
    <3>3. walked \in Nat
      BY <1>1
    <3>4. v \in Nodes => (WithinHops(v, walked + 1)
             <=> v = anchor \/ \E u \in Nodes : WithinHops(u, walked) /\ v \in Neighbors(u))
      BY <1>1, <3>3, OneHopMore
    <3> QED BY <3>1, <3>2, <3>4
  <2>3. ASSUME NEW v PROVE WithinHops(v, walked)' <=> WithinHops(v, walked + 1)
    BY <1>1, <1>4 DEF WithinHops
  <2>4. ranked' = {v \in Nodes : WithinHops(v, walked)'}
    BY <2>2, <2>3
  <2> QED BY <2>4 DEF RankedInHops
<1> QED BY <1>2, <1>3, <1>5, <1>6, <1>7

LEMMA ReturnRanksKeeps == GraphInv /\ ReturnRanks => GraphInv'
<1> SUFFICES ASSUME GraphInv, ReturnRanks PROVE GraphInv'
  OBVIOUS
<1> USE DEF GraphInv
<1>1. /\ UNCHANGED graphVars /\ UNCHANGED labels
      /\ UNCHANGED <<anchor, ranked, walked, node, changed, iter>>
      /\ job = "rank" /\ job' = "ranked" /\ walked = Iterations
  BY DEF ReturnRanks, clusterVars, rankVars
<1>2. GraphOK' /\ LabelsOK'
  BY <1>1 DEF GraphOK, LabelsOK, graphVars
<1>3. JobOK'
  BY <1>1 DEF JobOK
<1>4. ASSUME NEW i PROVE Neighbors(i)' = Neighbors(i) /\ BestLabel(i)' = BestLabel(i)
  BY <1>1, SameGraph
<1>5. LabelsStay' /\ SweepSettles'
  BY <1>1, <1>4 DEF LabelsStay, SweepSettles
<1>6. RankedInHops'
  <2>1. ASSUME NEW v PROVE WithinHops(v, walked)' <=> WithinHops(v, walked)
    BY <1>1, <1>4 DEF WithinHops
  <2> QED BY <1>1, <2>1 DEF RankedInHops
<1> QED BY <1>2, <1>3, <1>5, <1>6

LEMMA GraphStutter == GraphInv /\ UNCHANGED algorithmVars => GraphInv'
<1> SUFFICES ASSUME GraphInv, UNCHANGED algorithmVars PROVE GraphInv'
  OBVIOUS
<1> USE DEF GraphInv
<1>1. /\ UNCHANGED graphVars /\ UNCHANGED labels
      /\ UNCHANGED <<job, anchor, ranked, walked, node, changed, iter>>
  BY DEF algorithmVars, clusterVars, rankVars
<1>2. GraphOK' /\ LabelsOK'
  BY <1>1 DEF GraphOK, LabelsOK, graphVars
<1>3. JobOK'
  BY <1>1 DEF JobOK
<1>4. ASSUME NEW i PROVE Neighbors(i)' = Neighbors(i) /\ BestLabel(i)' = BestLabel(i)
  BY <1>1, SameGraph
<1>5. LabelsStay' /\ SweepSettles'
  BY <1>1, <1>4 DEF LabelsStay, SweepSettles
<1>6. RankedInHops'
  <2>1. ASSUME NEW v PROVE WithinHops(v, walked)' <=> WithinHops(v, walked)
    BY <1>1, <1>4 DEF WithinHops
  <2> QED BY <1>1, <2>1 DEF RankedInHops
<1> QED BY <1>2, <1>3, <1>5, <1>6

LEMMA GraphNextKeeps == GraphInv /\ [GraphNext]_algorithmVars => GraphInv'
  BY RelabelKeeps, SweepKeeps, WalkKeeps, ReturnRanksKeeps, GraphStutter DEF GraphNext

LEMMA GraphInvHolds == GraphSpec => []GraphInv
<1>1. GraphInit => GraphInv
  BY InitGraph
<1>2. GraphInv /\ [GraphNext]_algorithmVars => GraphInv'
  BY GraphNextKeeps
<1> QED BY <1>1, <1>2, PTL DEF GraphSpec

------------------------------------------------------------------------------
(* What follows from it.                                                   *)

\* For any graph and any caps: labels stay within what the edges join, clusters are
\* settled unless the cap cut them short, and exactly the live nodes within as many
\* hops as there are iterations are ranked (cluster.cpp:8-73, ppr.cpp:8-66).
THEOREM ResultsAreRight == GraphSpec => []ResultsRight
<1>1. GraphInv => ResultsRight
  <2> SUFFICES ASSUME GraphInv PROVE ResultsRight
    OBVIOUS
  <2> USE DEF GraphInv
  <2>1. \A i \in Nodes : ~Apart(i, labels[i])
    BY DEF LabelsStay, Apart
  <2>2. ASSUME job = "clustered", iter # MaxIters, NEW i \in Nodes, Neighbors(i) # {}
        PROVE  labels[i] = BestLabel(i)
    <3>1. node = NodeCount /\ ~changed
      BY <2>2 DEF SweepSettles
    <3>2. i \in 0..(node - 1)
      BY <3>1 DEF Nodes
    <3> QED BY <2>2, <3>1, <3>2 DEF SweepSettles
  <2>3. ASSUME job = "ranked" PROVE ranked = {v \in Nodes : InHops(v)}
    <3>1. walked = Iterations
      BY <2>3 DEF JobOK
    <3>2. \A v : WithinHops(v, walked) <=> InHops(v)
      BY <3>1 DEF WithinHops, InHops
    <3> QED BY <2>3, <3>2 DEF RankedInHops
  <2> QED BY <2>1, <2>2, <2>3 DEF ResultsRight
<1> QED BY <1>1, GraphInvHolds, PTL

\* Every relabelling raises the agreement, or keeps it and lowers the label, for any
\* graph and any order of the nodes: why clustering cannot go round for ever
\* (cluster.cpp:36-57).
THEOREM RelabellingRises == GraphSpec => RelabelRises
<1>1. GraphInv /\ [GraphNext]_algorithmVars =>
        [\A i \in Nodes : labels'[i] # labels[i] =>
           Agreement' > Agreement \/ (Agreement' = Agreement /\ labels'[i] < labels[i])]_algorithmVars
  <2> SUFFICES ASSUME GraphInv, [GraphNext]_algorithmVars,
                      NEW i \in Nodes, labels'[i] # labels[i]
               PROVE  Agreement' > Agreement
                        \/ (Agreement' = Agreement /\ labels'[i] < labels[i])
    OBVIOUS
  <2> USE DEF GraphInv
  <2>1. Relabel
    BY DEF GraphNext, NextSweep, ReturnLabels, Walk, ReturnRanks, clusterVars, algorithmVars
  <2>2. /\ UNCHANGED graphVars /\ node \in Nodes
        /\ labels' = IF Neighbors(node) = {} THEN labels
                                             ELSE [labels EXCEPT ![node] = BestLabel(node)]
    BY <2>1 DEF Relabel, JobOK, Nodes
  <2>3. node = i /\ Neighbors(i) # {} /\ labels' = [labels EXCEPT ![i] = BestLabel(i)]
    BY <2>2 DEF LabelsOK
  <2>4. PICK l : l = BestLabel(i)
    OBVIOUS
  <2>5. l \in Nodes /\ labels[i] \in Nodes /\ labels'[i] = l /\ l # labels[i]
    BY <2>3, <2>4, BestLeads DEF LabelsOK
  <2>6. PICK rest \in Nat : /\ Agreement = Votes(i, labels[i]) + rest
                            /\ Agreement' = Votes(i, l) + rest
    BY <2>2, <2>3, <2>4, <2>5, RelabelMoves
  <2>7. \/ Votes(i, labels[i]) < Votes(i, l)
        \/ Votes(i, labels[i]) = Votes(i, l) /\ l < labels[i]
    BY <2>3, <2>4, <2>5, BestBeatsOld
  <2>8. Votes(i, labels[i]) \in Nat /\ Votes(i, l) \in Nat
    BY VotesOK
  <2> QED BY <2>5, <2>6, <2>7, <2>8
<1> QED BY <1>1, GraphInvHolds, PTL DEF GraphSpec, RelabelRises

=================================================================================
