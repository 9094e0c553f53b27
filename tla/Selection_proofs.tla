---------------------------- MODULE Selection_proofs ----------------------------
(***************************************************************************)
(* Proofs about Selection, for any projects, any sizes and bounds, and     *)
(* rides of any length: what is kept over frames indexes the open project, *)
(* a ride is never read past its path, only macros select tombstones, and  *)
(* the confirm button deletes what was armed.                              *)
(*                                                                         *)
(* TypeOK, IndicesInRange and DeadAreStored are inductive together: a      *)
(* ride's hops were places when they were picked, places only grow while   *)
(* the project is open, a switch takes every index with it, and a new      *)
(* node's index is not yet a tombstone.                                    *)
(***************************************************************************)
EXTENDS Selection, SequenceTheorems, TLAPS

USE HomeAssumption, LoadedAssumption, BoundsAssumption
USE DEF vars, graphVars, bonesVars, None, Self

\* Only what is stored can be a tombstone.
DeadAreStored == \A p \in Projects : dead[p] \subseteq 0..(size[p] - 1)

SelInv == TypeOK /\ IndicesInRange /\ DeadAreStored

\* The paths of a ride are sequences of its places.
LEMMA BoundedPaths ==
  ASSUME NEW D, NEW n \in Nat, NEW w
  PROVE  w \in BoundedSeq(D, n) <=> w \in Seq(D) /\ Len(w) <= n
<1>1. w \in BoundedSeq(D, n) <=> \E m \in 0..n : w \in [1..m -> D]
  BY DEF BoundedSeq, SeqOf
<1>2. ASSUME NEW m \in 0..n, w \in [1..m -> D]
      PROVE  w \in Seq(D) /\ Len(w) <= n
  BY <1>2
<1>3. ASSUME w \in Seq(D), Len(w) <= n
      PROVE  Len(w) \in 0..n /\ w \in [1..Len(w) -> D]
  BY <1>3
<1> QED BY <1>1, <1>2, <1>3

\* A path is read within its bounds.
LEMMA PathEnds ==
  ASSUME NEW D, NEW w \in Seq(D), Len(w) >= 2
  PROVE  /\ ToSet(w) \subseteq D
         /\ Last(w) \in ToSet(w)
<1>1. DOMAIN w = 1..Len(w) /\ \A k \in 1..Len(w) : w[k] \in D
  BY LenProperties, ElementOfSeq
<1> QED BY <1>1 DEF ToSet, Last

\* More indices.
LEMMA IndicesGrow ==
  ASSUME NEW m \in Int, NEW n \in Int, m <= n
  PROVE  0..(m - 1) \subseteq 0..(n - 1)
  OBVIOUS

\* The first state: nothing is kept, everything loaded is shown.
LEMMA InvInit == Init => SelInv
<1> SUFFICES ASSUME Init PROVE SelInv
  OBVIOUS
<1>1. Loaded \in [Projects -> 0..MaxNodes] /\ Loaded[Home] \in 0..MaxNodes
      /\ MaxNodes \in Nat /\ MaxSwitches \in Nat
  OBVIOUS
<1>2. TypeOK
  <2>1. dead \in [Projects -> SUBSET Nodes] /\ project \in Projects /\ size \in [Projects -> 0..MaxNodes]
    BY <1>1 DEF Init
  <2>2. shown \in 0..MaxNodes /\ switches \in 0..MaxSwitches
    BY <1>1 DEF Init
  <2>3. chosen \subseteq Nodes /\ open \in BOOLEAN /\ flying \in BOOLEAN /\ ride = NoRide
        /\ armed \in Armed \cup {NoArm} /\ selected \in Nodes \cup {None} /\ part = "keys"
    BY DEF Init
  <2> QED BY <2>1, <2>2, <2>3 DEF TypeOK
<1>3. IndicesInRange /\ DeadAreStored
  BY <1>1 DEF Init, IndicesInRange, DeadAreStored, Placed, Stored
<1> QED BY <1>2, <1>3 DEF SelInv

\* A ride that sets out has a first segment, all of places.
LEMMA PressHInv == SelInv /\ PressH => SelInv'
<1> SUFFICES ASSUME SelInv, PressH PROVE SelInv'
  OBVIOUS
<1>1. PICK w \in Walks : ride' = [path |-> w, segment |-> 0]
  BY DEF PressH
<1>2. HopCount \in Nat /\ MaxNodes \in Nat
  OBVIOUS
<1>3. w \in Seq(Live \cap Placed) /\ Len(w) <= HopCount + 1 /\ Len(w) >= 2 /\ Len(w) \in Nat
  BY <1>2, BoundedPaths, LenProperties DEF Walks
<1>4. Live \cap Placed \subseteq Nodes /\ Live \cap Placed \subseteq Placed
  BY <1>2 DEF SelInv, TypeOK, Live, Stored, Placed, Nodes
<1>5. w \in BoundedSeq(Nodes, HopCount + 1)
  <2>1. w \in Seq(Nodes)
    BY <1>3, <1>4, SeqMonotonic
  <2> QED BY <1>2, <1>3, <2>1, BoundedPaths
<1>6. ToSet(w) \subseteq Placed
  BY <1>3, <1>4, PathEnds
<1>7. ride' \in Ride /\ ride'.segment + 2 <= Len(ride'.path) /\ ride'.path = w
  BY <1>1, <1>2, <1>3, <1>5 DEF Ride
<1>8. TypeOK'
  BY <1>7 DEF PressH, SelInv, TypeOK
<1>9. IndicesInRange'
  BY <1>6, <1>7 DEF PressH, SelInv, IndicesInRange, Placed, Stored
<1> QED BY <1>8, <1>9 DEF PressH, SelInv, DeadAreStored

\* A throw chooses of its candidates.
LEMMA ThrowInv ==
  ASSUME SelInv, NEW candidates \in SUBSET Placed, Throw(candidates), part' \in {"keys", "macros"},
         UNCHANGED <<graphVars, shown, selected, ride, armed>>
  PROVE  SelInv'
<1>1. chosen' \subseteq candidates /\ open' \in BOOLEAN /\ flying' \in BOOLEAN
  BY DEF Throw, kSubset
<1>2. Placed \subseteq Nodes
  BY DEF SelInv, TypeOK, Placed, Nodes
<1>3. TypeOK'
  BY <1>1, <1>2 DEF SelInv, TypeOK
<1>4. IndicesInRange'
  BY <1>1 DEF SelInv, IndicesInRange, Placed, Stored
<1> QED BY <1>3, <1>4 DEF SelInv, DeadAreStored

\* A ride ends within its path or goes on within it.
LEMMA FollowRideInv == SelInv /\ FollowRide => SelInv'
<1> SUFFICES ASSUME SelInv, FollowRide PROVE SelInv'
  OBVIOUS
<1>1. ride \in Ride /\ ride.segment + 2 <= Len(ride.path) /\ HopCount \in Nat
  BY DEF FollowRide, SelInv, TypeOK
<1>2. ride.path \in Seq(Nodes) /\ Len(ride.path) \in Nat /\ Len(ride.path) <= HopCount + 1
      /\ ride.segment \in Nat
  <2>1. ride.path \in BoundedSeq(Nodes, HopCount + 1) /\ ride.segment \in 0..(HopCount - 1)
    BY <1>1 DEF Ride
  <2> QED BY <1>1, <2>1, BoundedPaths, LenProperties
<1>3. PICK passed \in 0..HopCount :
        LET r == [ride EXCEPT !.segment = @ + passed] IN
          IF AtEnd(r)
            THEN /\ selected' = IF Last(r.path) \in Placed THEN Last(r.path) ELSE selected
                 /\ ride' = NoRide
            ELSE /\ ride' = IF Ends(r) \subseteq Placed THEN r ELSE NoRide
                 /\ UNCHANGED selected
  BY DEF FollowRide
<1> DEFINE r == [ride EXCEPT !.segment = @ + passed]
<1>4. r.path = ride.path /\ r.segment = ride.segment + passed
      /\ r = [path |-> ride.path, segment |-> ride.segment + passed]
  BY <1>1 DEF Ride
<1>5. UNCHANGED <<graphVars, shown, bonesVars, armed>> /\ part' = "pick"
  BY DEF FollowRide
<1>6. Placed \subseteq Nodes /\ Placed \subseteq Stored
  BY DEF SelInv, TypeOK, IndicesInRange, Placed, Nodes
<1>7. CASE AtEnd(r)
  <2>1. ride' = NoRide /\ selected' \in Placed \cup {selected}
    BY <1>3, <1>7
  <2>2. TypeOK'
    BY <1>5, <1>6, <2>1 DEF SelInv, TypeOK
  <2>3. IndicesInRange'
    BY <1>5, <1>6, <2>1 DEF SelInv, IndicesInRange, Placed, Stored
  <2> QED BY <1>5, <2>2, <2>3 DEF SelInv, DeadAreStored
<1>8. CASE ~AtEnd(r)
  <2>1. ride' \in {r, NoRide} /\ selected' = selected
    BY <1>3, <1>8
  <2>2. r.segment + 2 <= Len(r.path) /\ r.segment \in 0..(HopCount - 1)
    BY <1>2, <1>4, <1>8 DEF AtEnd
  <2>3. r \in Ride
    BY <1>1, <1>4, <2>2 DEF Ride
  <2>4. TypeOK'
    BY <1>5, <2>1, <2>2, <2>3 DEF SelInv, TypeOK
  <2>5. ride # NoRide /\ r.path = ride.path
    BY <1>4 DEF FollowRide
  <2>6. IndicesInRange'
    BY <1>5, <2>1, <2>5 DEF SelInv, IndicesInRange, Placed, Stored
  <2> QED BY <1>5, <2>4, <2>6 DEF SelInv, DeadAreStored
<1> QED BY <1>7, <1>8

\* Places only grow, up to what is stored, while clicks select live places and pins
\* the node they store.
LEMMA PickInv == SelInv /\ (NoClick \/ PickNode \/ PickPhantom) => SelInv'
<1> SUFFICES ASSUME SelInv, NoClick \/ PickNode \/ PickPhantom PROVE SelInv'
  OBVIOUS
<1>1. project \in Projects /\ size[project] \in Nat /\ size[project] <= MaxNodes
      /\ MaxNodes \in Nat /\ shown \in Nat
  BY DEF SelInv, TypeOK
<1>2. part = "pick" /\ Snapshot /\ project' = project /\ dead' = dead /\ switches' = switches
      /\ UNCHANGED <<ride, bonesVars, armed>>
  BY DEF NoClick, PickNode, PickPhantom
<1>3. /\ size' = size \/ (size[project] < MaxNodes /\ Append1)
      /\ size' \in [Projects -> 0..MaxNodes] /\ size'[project] >= size[project]
      /\ \A p \in Projects : size'[p] >= size[p]
  <2>1. CASE NoClick \/ PickNode
    BY <1>1, <2>1 DEF NoClick, PickNode, SelInv, TypeOK
  <2>2. CASE PickPhantom
    BY <1>1, <2>2 DEF PickPhantom, Append1, SelInv, TypeOK
  <2> QED BY <2>1, <2>2
<1>4. shown' \in Nat /\ shown <= shown' /\ shown' <= size[project]
  <2>1. shown' \in shown..size'[project] \/ shown' \in shown..size[project]
    BY <1>2 DEF Snapshot
  <2> QED BY <1>1, <1>2 DEF Snapshot
<1>5. selected' \in (0..(size'[project] - 1)) \cup {selected, None}
  <2>1. CASE NoClick
    BY <2>1 DEF NoClick
  <2>2. CASE PickNode
    <3>1. selected' \in 0..(shown' - 1) \/ selected' = None
      BY <2>2 DEF PickNode
    <3>2. size' = size
      BY <2>2 DEF PickNode
    <3> QED BY <1>1, <1>4, <3>1, <3>2
  <2>3. CASE PickPhantom
    BY <1>1, <2>3 DEF PickPhantom, Append1, SelInv, TypeOK
  <2> QED BY <2>1, <2>2, <2>3
<1>6. TypeOK'
  <2>1. 0..(size'[project] - 1) \subseteq Nodes
    BY <1>1, <1>3 DEF Nodes, SelInv, TypeOK
  <2> QED BY <1>1, <1>2, <1>3, <1>4, <1>5, <2>1 DEF SelInv, TypeOK, Snapshot
<1>7. IndicesInRange'
  <2>1. Placed \subseteq Placed' /\ Placed' \subseteq Stored' /\ Stored \subseteq Stored'
    <3>1. PICK m \in Nat, n \in Nat :
            /\ m = shown' /\ n = size'[project]
            /\ shown <= m /\ m <= size[project] /\ size[project] <= n
      BY <1>1, <1>3, <1>4
    <3>2. Placed' = 0..(m - 1) /\ Stored' = 0..(n - 1)
      BY <1>2, <3>1 DEF Placed, Stored
    <3>3. 0..(shown - 1) \subseteq 0..(m - 1)
      <4>1. shown \in Int /\ shown <= m
        BY <1>1, <3>1
      <4> QED BY <4>1, IndicesGrow
    <3>4. m <= n
      BY <1>1, <3>1
    <3>5. 0..(m - 1) \subseteq 0..(n - 1)
      BY <3>4, IndicesGrow
    <3>6. 0..(size[project] - 1) \subseteq 0..(n - 1)
      BY <1>1, <3>1, IndicesGrow
    <3> QED BY <3>2, <3>3, <3>5, <3>6 DEF Placed, Stored
  <2>2. selected' # None => selected' \in Stored'
    BY <1>2, <1>5, <2>1 DEF SelInv, IndicesInRange, Stored
  <2> QED BY <1>2, <2>1, <2>2 DEF SelInv, IndicesInRange
<1>8. DeadAreStored'
  BY <1>2, <1>3 DEF SelInv, TypeOK, DeadAreStored
<1> QED BY <1>6, <1>7, <1>8 DEF SelInv

\* What a command does to the indices: nodes are only added, what is selected is
\* stored, what is buried was stored.
LEMMA TabInv == SelInv /\ Tab => SelInv'
<1> SUFFICES ASSUME SelInv, Tab PROVE SelInv'
  OBVIOUS
<1>1. project \in Projects /\ size[project] \in Nat /\ size[project] <= MaxNodes
      /\ MaxNodes \in Nat /\ shown \in Nat /\ MaxSwitches \in Nat
  BY DEF SelInv, TypeOK
<1>2. Stored \subseteq Nodes
  BY <1>1 DEF Stored, Nodes
<1>3. CASE NoCommand
  BY <1>3 DEF NoCommand, SelInv, TypeOK, IndicesInRange, Placed, Stored, DeadAreStored
<1>4. CASE Select
  <2>1. selected' \in Stored \cup {None}
    BY <1>4 DEF Select, Live
  <2>2. TypeOK'
    BY <1>2, <1>4, <2>1 DEF Select, SelInv, TypeOK
  <2>3. IndicesInRange' /\ DeadAreStored'
    BY <1>4, <2>1 DEF Select, SelInv, IndicesInRange, Placed, Stored, DeadAreStored
  <2> QED BY <2>2, <2>3 DEF SelInv
<1>5. CASE CreateNode
  <2>1. /\ size'[project] = size[project] + 1
        /\ size' \in [Projects -> 0..MaxNodes] /\ \A p \in Projects : size'[p] >= size[p]
    BY <1>1, <1>5 DEF CreateNode, Append1, SelInv, TypeOK
  <2>2. selected' \in {selected, size[project]} /\ size[project] \in Nodes
    BY <1>1, <1>5 DEF CreateNode, Nodes
  <2>3. TypeOK'
    BY <1>5, <2>1, <2>2 DEF CreateNode, SelInv, TypeOK
  <2>4. Stored \subseteq Stored' /\ size[project] \in Stored' /\ Placed' = Placed
    BY <1>1, <1>5, <2>1 DEF CreateNode, Stored, Placed
  <2>5. IndicesInRange'
    BY <1>5, <2>2, <2>4 DEF CreateNode, SelInv, IndicesInRange
  <2>6. DeadAreStored'
    BY <1>5, <2>1 DEF CreateNode, SelInv, TypeOK, DeadAreStored
  <2> QED BY <2>3, <2>5, <2>6 DEF SelInv
<1>6. CASE Arm \/ Disarm
  <2>1. armed' \in Armed \cup {NoArm}
    BY <1>1, <1>2, <1>6 DEF Arm, Disarm, Armed, Inspected
  <2>2. UNCHANGED <<graphVars, shown, selected, ride, bonesVars>> /\ part' = "panel"
    BY <1>6 DEF Arm, Disarm
  <2> QED BY <2>1, <2>2 DEF SelInv, TypeOK, IndicesInRange, Placed, Stored, DeadAreStored
<1>7. ASSUME NEW n \in Stored, Bury(n), selected' \in {None, selected},
             armed' \in {NoArm, armed}, part' = "panel",
             UNCHANGED <<project, size, switches, shown, ride, bonesVars>>
      PROVE  SelInv'
  <2>1. dead' \in [Projects -> SUBSET Nodes]
    BY <1>1, <1>2, <1>7 DEF Bury, SelInv, TypeOK
  <2>2. TypeOK'
    BY <1>7, <2>1 DEF SelInv, TypeOK
  <2>3. IndicesInRange'
    BY <1>7 DEF SelInv, IndicesInRange, Placed, Stored
  <2>4. DeadAreStored'
    BY <1>1, <1>7 DEF Bury, SelInv, TypeOK, DeadAreStored, Stored
  <2> QED BY <2>2, <2>3, <2>4 DEF SelInv
<1>8. CASE Confirm
  BY <1>7, <1>8 DEF Confirm, Inspected
<1>9. CASE DeleteByName
  <2>1. PICK n \in Live \ {Self} : Bury(n) /\ selected' = Deselected(n)
    BY <1>9 DEF DeleteByName
  <2> QED BY <1>7, <1>9, <2>1 DEF DeleteByName, Deselected, Live
<1>10. CASE SwitchProject
  <2>1. project' \in Projects /\ shown' = size[project'] /\ size' = size /\ dead' = dead
        /\ ride' = NoRide /\ chosen' = {} /\ open' = FALSE /\ selected' = None
        /\ flying' = flying /\ armed' = armed /\ part' = "panel"
        /\ switches < MaxSwitches /\ switches' = switches + 1
    BY <1>10 DEF SwitchProject, MacrosClosed
  <2>2. TypeOK'
    <3>1. shown' \in 0..MaxNodes /\ switches' \in 0..MaxSwitches
      BY <1>1, <2>1 DEF SelInv, TypeOK
    <3> QED BY <2>1, <3>1 DEF SelInv, TypeOK
  <2>3. IndicesInRange' /\ DeadAreStored'
    BY <2>1 DEF SelInv, TypeOK, IndicesInRange, Placed, Stored, DeadAreStored
  <2> QED BY <2>2, <2>3 DEF SelInv
<1> QED BY <1>3, <1>4, <1>5, <1>6, <1>8, <1>9, <1>10 DEF Tab

\* Every step keeps the invariant.
LEMMA InvStep == SelInv /\ [Next]_vars => SelInv'
<1> SUFFICES ASSUME SelInv, [Next]_vars PROVE SelInv'
  OBVIOUS
<1>1. CASE PressH
  BY <1>1, PressHInv
<1>2. CASE PressB
  <2>1. Live \cap Placed \in SUBSET Placed
    OBVIOUS
  <2> QED BY <1>2, <2>1, ThrowInv DEF PressB
<1>3. CASE NoKey \/ FollowBones
  BY <1>3 DEF NoKey, FollowBones, SelInv, TypeOK, IndicesInRange, Placed, Stored, DeadAreStored
<1>4. CASE FollowRide
  BY <1>4, FollowRideInv
<1>5. CASE Pick
  BY <1>5, PickInv DEF Pick
<1>6. CASE Tab
  BY <1>6, TabInv
<1>7. CASE NoRow
  BY <1>7 DEF NoRow, SelInv, TypeOK, IndicesInRange, Placed, Stored, DeadAreStored
<1>8. CASE ClickRow
  <2>1. PICK n \in chosen \cap Stored : selected' = n /\ flying' = (flying \/ n \in Placed)
    BY <1>8 DEF ClickRow
  <2>2. n \in Nodes /\ n \in Stored /\ flying' \in BOOLEAN
    BY <2>1 DEF SelInv, TypeOK
  <2>3. TypeOK'
    BY <1>8, <2>1, <2>2 DEF ClickRow, SelInv, TypeOK
  <2> QED BY <1>8, <2>1, <2>2, <2>3 DEF ClickRow, SelInv, IndicesInRange, Placed, Stored, DeadAreStored
<1>9. CASE ThrowAgain
  <2>1. Placed \in SUBSET Placed
    OBVIOUS
  <2> QED BY <1>9, <2>1, ThrowInv DEF ThrowAgain
<1>10. CASE UNCHANGED vars
  BY <1>10 DEF SelInv, TypeOK, IndicesInRange, Placed, Stored, DeadAreStored
<1> QED BY <1>1, <1>2, <1>3, <1>4, <1>5, <1>6, <1>7, <1>8, <1>9, <1>10
        DEF Next, Keys, Macros, Panel

\* TypeOK, IndicesInRange and DeadAreStored always hold.
THEOREM SelInvHolds == Spec => []SelInv
<1>1. SelInv /\ [Next]_vars => SelInv'
  BY InvStep
<1> QED BY InvInit, <1>1, PTL DEF Spec

\* The types hold, and a ride's segment has both its ends in the path, so that
\* update_rabbit_hole never reads past it.
THEOREM SelTypeCorrect == Spec => []TypeOK
<1>1. SelInv => TypeOK
  BY DEF SelInv
<1> QED BY SelInvHolds, <1>1, PTL

\* Selection, ride and triple index the open project, whatever is created, deleted
\* or switched while they are kept.
THEOREM KeptIndicesInRange == Spec => []IndicesInRange
<1>1. SelInv => IndicesInRange
  BY DEF SelInv
<1> QED BY SelInvHolds, <1>1, PTL

\* One step outside the macros and the panel leaves no live selection on a tombstone.
LEMMA SelectsLive ==
  ASSUME SelInv, [Next]_vars, selected' # None, selected' \in dead'[project'],
         part \notin {"macros", "panel"}
  PROVE  selected \in dead[project]
<1>1. project \in Projects /\ dead[project] \subseteq 0..(size[project] - 1) /\ size[project] \in Nat
      /\ dead \in [Projects -> SUBSET Nodes]
  BY DEF SelInv, TypeOK, DeadAreStored
<1>2. CASE PressH \/ PressB \/ NoKey \/ NoCommand \/ Arm \/ Disarm \/ NoClick \/ UNCHANGED vars
  BY <1>2 DEF PressH, PressB, NoKey, NoCommand, Arm, Disarm, NoClick
<1>3. CASE PickNode
  BY <1>3 DEF PickNode
<1>4. CASE PickPhantom \/ CreateNode
  <2>1. selected' \in {selected, size[project]} /\ dead' = dead /\ project' = project
    BY <1>4 DEF PickPhantom, CreateNode
  <2>2. size[project] \notin dead[project]
    BY <1>1
  <2> QED BY <2>1, <2>2
<1>5. CASE Select
  BY <1>5 DEF Select, Live
<1>6. CASE Confirm \/ SwitchProject
  BY <1>6 DEF Confirm, SwitchProject
<1>7. CASE DeleteByName
  <2>1. PICK n \in Live \ {Self} : Bury(n) /\ selected' = Deselected(n)
    BY <1>7 DEF DeleteByName
  <2>2. selected' = selected /\ selected # n
    BY <2>1 DEF Deselected
  <2>3. dead'[project] = dead[project] \cup {n} /\ project' = project
    BY <1>1, <1>7, <2>1 DEF Bury, DeleteByName
  <2> QED BY <2>2, <2>3
<1>8. CASE FollowRide \/ FollowBones \/ NoRow \/ ClickRow \/ ThrowAgain
  BY <1>8 DEF FollowRide, FollowBones, NoRow, ClickRow, ThrowAgain
<1> QED BY <1>2, <1>3, <1>4, <1>5, <1>6, <1>7, <1>8
        DEF Next, Keys, Macros, Pick, Tab, Panel

\* Only the end of a ride and a row of the panel select a tombstone.
THEOREM TombstonesByMacrosOnly == Spec => OnlyMacrosSelectTombstones
<1>1. SelInv /\ [Next]_vars =>
        [selected' # None /\ selected' \in dead'[project'] =>
           part \in {"macros", "panel"} \/ selected \in dead[project]]_vars
  BY SelectsLive
<1> QED BY SelInvHolds, <1>1, PTL DEF Spec, OnlyMacrosSelectTombstones

\* The confirm button deletes the node, of the project, that was armed.
THEOREM DeletesTheArmed == Spec => DeletesWhatWasArmed
<1>1. SelInv /\ [Next]_vars =>
        [armed # NoArm /\ armed' = NoArm /\ dead' # dead =>
           dead' = [dead EXCEPT ![armed.project] = @ \cup {armed.id}]]_vars
  <2> SUFFICES ASSUME SelInv, Next, armed # NoArm, armed' = NoArm, dead' # dead
               PROVE  dead' = [dead EXCEPT ![armed.project] = @ \cup {armed.id}]
    OBVIOUS
  <2>1. CASE Confirm
    <3>1. armed = [project |-> project, id |-> selected] /\ Bury(selected)
      BY <2>1 DEF Confirm, ArmedHere
    <3>2. armed.project = project /\ armed.id = selected
      BY <3>1
    <3> QED BY <3>1, <3>2 DEF Bury
  <2>2. CASE Keys \/ Macros \/ Pick \/ Panel
    BY <2>2 DEF Keys, Macros, Pick, Panel, PressH, PressB, NoKey, FollowRide, FollowBones,
                NoClick, PickNode, PickPhantom, NoRow, ClickRow, ThrowAgain
  <2>3. CASE NoCommand \/ Select \/ CreateNode \/ Arm \/ Disarm \/ DeleteByName \/ SwitchProject
    BY <2>3 DEF NoCommand, Select, CreateNode, Arm, Disarm, DeleteByName, SwitchProject
  <2> QED BY <2>1, <2>2, <2>3 DEF Next, Tab
<1> QED BY SelInvHolds, <1>1, PTL DEF Spec, DeletesWhatWasArmed
===============================================================================
