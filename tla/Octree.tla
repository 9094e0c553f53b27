--------------------------------- MODULE Octree ---------------------------------
(***************************************************************************)
(* One pass of apply_barnes_hut_repulsion (physics/barnes_hut.cpp): the    *)
(* enabled particles are inserted one by one into an octree, which splits  *)
(* a leaf that is taken and gives up below a depth limit; then each walks  *)
(* the tree and is pushed by a far cell as a whole and by the rest leaf by *)
(* leaf.                                                                   *)
(*                                                                         *)
(* A cell is the sequence of octants that leads to it from the root, and a *)
(* position is the octant it falls in at each level.  Which cells are far  *)
(* is any choice; of a force only matters whose push is in it.             *)
(***************************************************************************)
EXTENDS Integers, SequencesExt

CONSTANTS
  Bodies,     \* number of particles
  Fan,        \* octants of a cell, 8 in the code
  MaxDepth    \* kMaxDepth, 30 in the code

ASSUME OctreeAssumption == /\ Bodies \in Nat \ {0, 1}   \* fewer: an early return
                           /\ Fan \in Nat \ {0} /\ MaxDepth \in Nat

Particles == 0..(Bodies - 1)
Octants == 0..(Fan - 1)
Positions == [1..(MaxDepth + 1) -> Octants]
Root == <<>>

VARIABLES
  at, off,    \* the arguments: positions, and who is disabled
  next,       \* the particle the first loop is at
  calls,      \* insert's pending calls, the innermost first
  split,      \* the cells that have children
  holds,      \* the particle in each leaf that has one
  target,     \* the particle the second loop is at, -1 before it
  visits,     \* force_from_cell's pending calls, the innermost first
  felt        \* how often the force on target has each particle's push

inputVars == <<at, off>>
treeVars == <<next, calls, split, holds>>
forceVars == <<target, visits, felt>>
octreeVars == <<inputVars, treeVars, forceVars>>

OctreeInit ==
  /\ at \in [Particles -> Positions] /\ off \in SUBSET Particles
  /\ next = 0 /\ calls = <<>> /\ split = {} /\ holds = <<>>
  /\ target = -1 /\ visits = <<>> /\ felt = [p \in Particles |-> 0]

------------------------------------------------------------------------------
(* Insertion.                                                              *)

Call(cell, particle) == [cell |-> cell, particle |-> particle]
Child(cell, particle) == Append(cell, at[particle][Len(cell) + 1])   \* octant_of

InsertNext ==
  /\ calls = <<>> /\ next < Bodies
  /\ next' = next + 1
  /\ calls' = IF next \in off THEN <<>> ELSE <<Call(Root, next)>>
  /\ UNCHANGED <<inputVars, split, holds, forceVars>>

Inserting == calls # <<>>
Cell == Head(calls).cell
Particle == Head(calls).particle
TooDeep == Len(Cell) > MaxDepth

DropExcess ==
  /\ Inserting /\ TooDeep
  /\ calls' = Tail(calls)
  /\ UNCHANGED <<inputVars, next, split, holds, forceVars>>

TakeLeaf ==
  /\ Inserting /\ ~TooDeep /\ Cell \notin split \cup DOMAIN holds
  /\ holds' = [c \in DOMAIN holds \cup {Cell} |-> IF c = Cell THEN Particle ELSE holds[c]]
  /\ calls' = Tail(calls)
  /\ UNCHANGED <<inputVars, next, split, forceVars>>

Forgotten(held) == <<>>          \* mutant: the held particle is not inserted again
Evicted(held) == <<Call(Child(Cell, held), held)>>

\* The held particle goes first, then the new one, both one level down.
SplitLeaf ==
  /\ Inserting /\ ~TooDeep /\ Cell \in DOMAIN holds
  /\ split' = split \cup {Cell}
  /\ holds' = [c \in DOMAIN holds \ {Cell} |-> holds[c]]
  /\ calls' = Evicted(holds[Cell]) \o <<Call(Child(Cell, Particle), Particle)>> \o Tail(calls)
  /\ UNCHANGED <<inputVars, next, forceVars>>

Descend ==
  /\ Inserting /\ ~TooDeep /\ Cell \in split
  /\ calls' = <<Call(Child(Cell, Particle), Particle)>> \o Tail(calls)
  /\ UNCHANGED <<inputVars, next, split, holds, forceVars>>

------------------------------------------------------------------------------
(* Forces.  The mass of a cell is what the leaves beneath it hold.         *)

Built == next = Bodies /\ calls = <<>>
Beneath(cell) == {holds[leaf] : leaf \in {l \in DOMAIN holds : IsPrefix(cell, l)}}

NextTarget ==
  /\ Built /\ visits = <<>> /\ target < Bodies - 1
  /\ target' = target + 1
  /\ visits' = IF target' \in off THEN <<>> ELSE <<Root>>
  /\ felt' = [p \in Particles |-> 0]
  /\ UNCHANGED <<inputVars, treeVars>>

Visiting == visits # <<>>
Visited == Head(visits)
Pushed(by) == [p \in Particles |-> IF p \in by THEN felt[p] + 1 ELSE felt[p]]

NoMass ==
  /\ Visiting /\ Beneath(Visited) = {}
  /\ visits' = Tail(visits)
  /\ UNCHANGED <<inputVars, treeVars, target, felt>>

PushOfLeaf ==
  /\ Visiting /\ Visited \in DOMAIN holds
  /\ felt' = Pushed({holds[Visited]} \ {target})
  /\ visits' = Tail(visits)
  /\ UNCHANGED <<inputVars, treeVars, target>>

ChildrenToo == [k \in 1..Fan |-> Append(Visited, k - 1)] \o Tail(visits)  \* mutant: no return
AfterWhole == Tail(visits)

\* A far cell is one body, also one that the target is in.
PushOfCell ==
  /\ Visiting /\ Visited \in split /\ Beneath(Visited) # {}
  /\ felt' = Pushed(Beneath(Visited))
  /\ visits' = AfterWhole
  /\ UNCHANGED <<inputVars, treeVars, target>>

OpenCell ==
  /\ Visiting /\ Visited \in split /\ Beneath(Visited) # {}
  /\ visits' = [k \in 1..Fan |-> Append(Visited, k - 1)] \o Tail(visits)
  /\ UNCHANGED <<inputVars, treeVars, target, felt>>

OctreeNext == \/ InsertNext \/ DropExcess \/ TakeLeaf \/ SplitLeaf \/ Descend
              \/ NextTarget \/ NoMass \/ PushOfLeaf \/ PushOfCell \/ OpenCell

OctreeSpec == OctreeInit /\ [][OctreeNext]_octreeVars

------------------------------------------------------------------------------
(* Properties.                                                             *)

\* Another enabled particle falls in the same octants down to the depth limit.
Crowded(p) == \E q \in Particles \ (off \cup {p}) :
                SubSeq(at[p], 1, MaxDepth) = SubSeq(at[q], 1, MaxDepth)

\* Whatever is far and in whatever order the particles come, the force on a particle
\* has the push of each other enabled one exactly once, but for the crowded: those
\* push nobody, all of them and not the excess only (barnes_hut.cpp:46, and
\* barnes_hut.h:13-14, where theta = 0 is the exact pairwise sum).
FeltOnce ==
  Built /\ visits = <<>> /\ target \in Particles \ off =>
    \A p \in Particles \ {target} : felt[p] = IF p \in off \/ Crowded(p) THEN 0 ELSE 1
===============================================================================
