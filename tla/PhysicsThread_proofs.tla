------------------------ MODULE PhysicsThread_proofs ------------------------
(***************************************************************************)
(* Proofs about PhysicsThread, for any set of places, any number of nodes  *)
(* and edges, any freeze threshold and any interleaving of the two threads.*)
(*                                                                         *)
(* Inv is inductive: each lemma below treats one action and the conjuncts  *)
(* it can disturb, and InvInductive puts them together.                    *)
(***************************************************************************)
EXTENDS PhysicsThread, SequenceTheorems, TLAPS

USE NodesAssumption, EdgesAssumption, BoundsAssumption, SelfAssumption, NoPinAssumption
USE DEF InReach, RenderPC, WorkerPC, workerVars, requestVars, renderVars, bufferVars,
        LoopGoesOn, ExitPoints, Perturbed, SkipsIntegration, Movable, EdgesToShow,
        AfterUnlock, Queued, Linkable

\* A function on 1..n is a sequence of length n.
LEMMA FunIsSeq ==
  ASSUME NEW S, NEW n \in Nat, NEW f \in [1..n -> S]
  PROVE  f \in Seq(S) /\ Len(f) = n
<1>1. f \in Seq(S)
  BY SeqDef
<1>2. DOMAIN f = 1..Len(f) /\ Len(f) \in Nat
  BY <1>1, LenProperties
<1>3. DOMAIN f = 1..n
  OBVIOUS
<1> QED BY <1>1, <1>2, <1>3

\* What is queued is an edge like those that were loaded.
LEMMA PendingAreEdges ==
  ASSUME TypeOK PROVE pendingEdges \in Seq(Edge)
<1>1. /\ pendingEdges \in [1..Len(pendingEdges) -> EdgesAmong(MaxNodes)]
      /\ Len(pendingEdges) \in Nat
  BY LenProperties DEF TypeOK
<1>2. pendingEdges \in [1..Len(pendingEdges) -> Edge]
  BY <1>1 DEF Edge
<1> QED BY <1>1, <1>2, FunIsSeq

\* The constructor's state satisfies the invariant.
LEMMA InvInit == Init => Inv
<1> SUFFICES ASSUME Init PROVE Inv
  OBVIOUS
<1>1. positions \in Seq(Places) /\ Len(positions) = InitNodes
  <2>1. positions \in [1..InitNodes -> Places]
    BY DEF Init
  <2> QED BY <2>1, FunIsSeq
<1>2. <<>> \in Seq(EdgesAmong(MaxNodes)) /\ <<>> \in Seq(Places)
  BY EmptySeq
<1>2a. edges \in Seq(Edge) /\ Len(edges) = InitEdges
  <2>1. edges \in [1..InitEdges -> Edge]
    BY DEF Init, Edge
  <2> QED BY <2>1, FunIsSeq
<1>3. TypeOK
  <2>1. pins \in [1..MaxNodes -> Pin] /\ held \in [1..MaxNodes -> Pin]
    BY DEF Init, Pin
  <2>2. /\ positions \in Seq(Places) /\ buf \in Seq(Places) /\ pendingNodes \in Seq(Places)
        /\ edges \in Seq(Edge) /\ bufEdges \in Seq(Edge)
        /\ pendingEdges \in Seq(EdgesAmong(MaxNodes))
    BY <1>1, <1>2, <1>2a DEF Init
  <2>3. /\ restTicks \in 0..FreezeAfter /\ nodes \in InitNodes..MaxNodes
        /\ view \in Nat /\ cursor \in 0..MaxNodes
    BY DEF Init
  <2>4. /\ edgesDirty \in BOOLEAN /\ frozen \in BOOLEAN /\ active \in BOOLEAN
        /\ ranBH \in BOOLEAN /\ useBH \in BOOLEAN /\ dirty \in BOOLEAN
        /\ running \in BOOLEAN /\ timeline \in BOOLEAN /\ phantoms \in BOOLEAN
    BY DEF Init
  <2>5. disabled \subseteq 1..MaxNodes /\ mask \subseteq 1..MaxNodes
        /\ wpc \in WorkerPC /\ rpc \in RenderPC
    BY DEF Init
  <2> QED BY <2>1, <2>2, <2>3, <2>4, <2>5 DEF TypeOK
<1>4. NodesAligned /\ EdgesInRange /\ RequestsStored
  BY <1>1, <1>2a DEF Init, NodesAligned, EdgesInRange, RequestsStored
<1>5. BufferCurrent /\ FreezeCounted /\ ReadsCurrent /\ ThreadsInStep
  BY DEF Init, BufferCurrent, FreezeCounted, ReadsCurrent, ThreadsInStep,
         Unperturbed, LayoutCurrent
<1> QED BY <1>3, <1>4, <1>5 DEF Inv

\* Taking dirty_ at the loop head: a worker left frozen had read everything.
LEMMA BeginTickKeeps == Inv /\ BeginTick => Inv'
<1> SUFFICES ASSUME Inv, BeginTick PROVE Inv'
  OBVIOUS
<1>1. TypeOK'
  <2>1. restTicks' \in 0..FreezeAfter
    BY DEF Inv, TypeOK, BeginTick
  <2>2. frozen' \in BOOLEAN /\ dirty' \in BOOLEAN
    BY Zenon DEF Inv, TypeOK, BeginTick
  <2> QED BY <2>1, <2>2 DEF Inv, TypeOK, BeginTick
<1>2. NodesAligned' /\ EdgesInRange' /\ RequestsStored'
  BY DEF Inv, BeginTick, NodesAligned, EdgesInRange, RequestsStored
<1>3. BufferCurrent' /\ ThreadsInStep'
  BY DEF Inv, BeginTick, BufferCurrent, ThreadsInStep
<1>4. FreezeCounted'
  BY DEF Inv, TypeOK, BeginTick, FreezeCounted
<1>5. ReadsCurrent'
  BY DEF Inv, TypeOK, BeginTick, ReadsCurrent, Unperturbed, LayoutCurrent
<1> QED BY <1>1, <1>2, <1>3, <1>4, <1>5 DEF Inv

\* Both queues are taken together, so every drained edge finds its endpoints.
LEMMA DrainPendingKeeps == Inv /\ DrainPending => Inv'
<1> SUFFICES ASSUME Inv, DrainPending PROVE Inv'
  OBVIOUS
<1>1. /\ Len(positions') = nodes /\ nodes \in Nat
      /\ Len(edges') = Len(edges) + Len(pendingEdges)
      /\ Len(edges) \in Nat /\ Len(pendingEdges) \in Nat /\ Len(positions) \in Nat
      /\ \A k \in 1..Len(edges') :
          edges'[k] = IF k <= Len(edges) THEN edges[k] ELSE pendingEdges[k - Len(edges)]
  <2>1. /\ edges \in Seq(Edge) /\ pendingEdges \in Seq(Edge)
        /\ positions \in Seq(Places) /\ pendingNodes \in Seq(Places)
        /\ Len(positions) + Len(pendingNodes) = nodes /\ nodes \in Nat
        /\ edges' = edges \o pendingEdges /\ positions' = positions \o pendingNodes
    BY PendingAreEdges DEF Inv, TypeOK, NodesAligned, DrainPending
  <2>2. Len(positions') = nodes /\ Len(positions) \in Nat
    BY <2>1, ConcatProperties, LenProperties
  <2>3. /\ Len(edges') = Len(edges) + Len(pendingEdges)
        /\ Len(edges) \in Nat /\ Len(pendingEdges) \in Nat
    BY <2>1, ConcatProperties, LenProperties
  <2>4. \A k \in 1..Len(edges') :
          edges'[k] = IF k <= Len(edges) THEN edges[k] ELSE pendingEdges[k - Len(edges)]
    BY <2>1, <2>3, ConcatProperties
  <2> QED BY <2>1, <2>2, <2>3, <2>4
<1>2. /\ pendingNodes = <<>> => positions' = positions
      /\ pendingEdges = <<>> => edges' = edges
  BY ConcatEmptySeq DEF Inv, TypeOK, DrainPending
<1>3. TypeOK'
  BY PendingAreEdges, ConcatProperties, EmptySeq DEF Inv, TypeOK, DrainPending
<1>4. NodesAligned'
  BY <1>1, EmptySeq DEF Inv, TypeOK, NodesAligned, DrainPending
<1>5. EdgesInRange'
  <2> SUFFICES ASSUME NEW k \in InitEdges + 1..Len(edges')
               PROVE  edges'[k][1] <= nodes /\ edges'[k][2] <= nodes
    BY <1>1 DEF Inv, EdgesInRange, InReach
  <2>1. CASE k <= Len(edges)
    <3>1. k \in 1..Len(edges) /\ edges'[k] = edges[k]
      BY <1>1, <2>1
    <3>2. edges[k][1] \in Nat /\ edges[k][2] \in Nat
      <4>1. edges[k] \in Edge
        BY <3>1, ElementOfSeq DEF Inv, TypeOK
      <4> QED BY <4>1 DEF Edge, EdgesAmong
    <3>3. Len(positions) \in Nat /\ Len(positions) <= nodes
      BY LenProperties DEF Inv, NodesAligned, TypeOK
    <3>4. edges[k][1] <= Len(positions) /\ edges[k][2] <= Len(positions)
      BY <3>1 DEF Inv, EdgesInRange, InReach
    <3> QED BY <1>1, <3>1, <3>2, <3>3, <3>4
  <2>2. CASE k > Len(edges)
    <3>1. k - Len(edges) \in 1..Len(pendingEdges) /\ edges'[k] = pendingEdges[k - Len(edges)]
      BY <1>1, <2>2
    <3> QED BY <3>1 DEF Inv, RequestsStored
  <2> QED BY <1>1, <2>1, <2>2
<1>6. RequestsStored'
  BY EmptySeq DEF Inv, RequestsStored, DrainPending
<1>7. BufferCurrent'
  <2>1. edgesDirty' \/ bufEdges' = edges'
    <3>1. CASE pendingEdges = <<>>
      BY <1>2, <3>1 DEF DrainPending, Inv, BufferCurrent
    <3>2. CASE pendingEdges # <<>>
      BY <3>2 DEF DrainPending
    <3> QED BY <3>1, <3>2
  <2>2. ~active' => buf' = positions' /\ ~edgesDirty'
    BY <1>2 DEF DrainPending, Inv, BufferCurrent
  <2> QED BY <2>1, <2>2 DEF DrainPending, BufferCurrent
<1>8. FreezeCounted' /\ ThreadsInStep'
  BY DEF Inv, DrainPending, FreezeCounted, ThreadsInStep
<1>9. ReadsCurrent'
  BY DEF Inv, DrainPending, ReadsCurrent, Unperturbed, LayoutCurrent
<1> QED BY <1>3, <1>4, <1>5, <1>6, <1>7, <1>8, <1>9 DEF Inv

\* With the queues empty every tombstone is in range, so the mask misses none.
LEMMA ReadDisabledKeeps == Inv /\ ReadDisabled => Inv'
<1> SUFFICES ASSUME Inv, ReadDisabled PROVE Inv'
  OBVIOUS
<1>1. TypeOK'
  BY DEF Inv, TypeOK, ReadDisabled
<1>2. NodesAligned'
  BY DEF Inv, TypeOK, ReadDisabled, NodesAligned
<1>3. EdgesInRange'
  BY DEF Inv, TypeOK, ReadDisabled, EdgesInRange
<1>4. RequestsStored'
  BY DEF Inv, TypeOK, ReadDisabled, RequestsStored
<1>5. BufferCurrent'
  BY DEF Inv, TypeOK, ReadDisabled, BufferCurrent
<1>6. FreezeCounted'
  BY DEF Inv, TypeOK, ReadDisabled, FreezeCounted
<1>7. ReadsCurrent'
  <2> SUFFICES ASSUME Unperturbed
               PROVE  /\ pendingNodes = <<>> /\ pendingEdges = <<>>
                      /\ mask' = disabled /\ (frozen => held = pins)
    BY DEF ReadDisabled, ReadsCurrent, Unperturbed, LayoutCurrent
  <2>1. pendingNodes = <<>> /\ pendingEdges = <<>> /\ (frozen => held = pins)
    BY DEF ReadDisabled, Inv, ReadsCurrent, LayoutCurrent
  <2>2. Len(positions) = nodes
    BY <2>1, LenProperties DEF Inv, TypeOK, NodesAligned
  <2> QED BY <2>1, <2>2 DEF ReadDisabled, Inv, RequestsStored
<1>8. ThreadsInStep'
  BY DEF Inv, TypeOK, ReadDisabled, ThreadsInStep
<1> QED BY <1>1, <1>2, <1>3, <1>4, <1>5, <1>6, <1>7, <1>8 DEF Inv

\* Integration moves nodes and adds or drops none.
LEMMA IntegrateKeeps == Inv /\ Integrate => Inv'
<1> SUFFICES ASSUME Inv, Integrate PROVE Inv'
  OBVIOUS
<1>1. positions' \in Seq(Places) /\ Len(positions') = Len(positions)
  <2>1. positions' \in [1..Len(positions) -> Places] /\ Len(positions) \in Nat
    BY LenProperties DEF Integrate, Inv, TypeOK
  <2> QED BY <2>1, FunIsSeq
<1>2. TypeOK'
  BY <1>1 DEF Integrate, Inv, TypeOK
<1>3. NodesAligned'
  BY <1>1 DEF Integrate, Inv, NodesAligned
<1>4. EdgesInRange'
  BY <1>1 DEF Integrate, Inv, EdgesInRange
<1>5. RequestsStored'
  BY DEF Inv, TypeOK, Integrate, RequestsStored
<1>6. BufferCurrent'
  BY DEF Inv, TypeOK, Integrate, BufferCurrent
<1>7. FreezeCounted'
  BY DEF Inv, TypeOK, Integrate, FreezeCounted
<1>8. ReadsCurrent'
  BY DEF Inv, TypeOK, Integrate, ReadsCurrent, Unperturbed, LayoutCurrent
<1>9. ThreadsInStep'
  BY DEF Inv, TypeOK, Integrate, ThreadsInStep
<1> QED BY <1>2, <1>3, <1>4, <1>5, <1>6, <1>7, <1>8, <1>9 DEF Inv

\* With the queues empty every pin is in range, so none is skipped.
LEMMA ReapplyPinsKeeps == Inv /\ ReapplyPins => Inv'
<1> SUFFICES ASSUME Inv, ReapplyPins PROVE Inv'
  OBVIOUS
<1>1. positions' \in Seq(Places) /\ Len(positions') = Len(positions)
  <2>1. /\ Len(positions) \in Nat /\ Len(positions) <= MaxNodes
        /\ \A i \in 1..Len(positions) : positions[i] \in Places
    BY LenProperties, ElementOfSeq DEF Inv, TypeOK, NodesAligned
  <2>2. positions' \in [1..Len(positions) -> Places]
    BY <2>1 DEF ReapplyPins, Inv, TypeOK, Pin
  <2> QED BY <2>1, <2>2, FunIsSeq
<1>2. held' \in [1..MaxNodes -> Pin]
  BY DEF ReapplyPins, Inv, TypeOK, Pin
<1>3. TypeOK'
  BY <1>1, <1>2 DEF ReapplyPins, Inv, TypeOK
<1>4. NodesAligned'
  BY <1>1 DEF ReapplyPins, Inv, NodesAligned
<1>5. EdgesInRange'
  BY <1>1 DEF ReapplyPins, Inv, EdgesInRange
<1>6. RequestsStored'
  BY DEF Inv, TypeOK, ReapplyPins, RequestsStored
<1>7. BufferCurrent'
  BY DEF Inv, TypeOK, ReapplyPins, BufferCurrent
<1>8. FreezeCounted'
  BY DEF Inv, TypeOK, ReapplyPins, FreezeCounted
<1>9. ReadsCurrent'
  <2> SUFFICES ASSUME Unperturbed
               PROVE  pendingNodes = <<>> /\ pendingEdges = <<>> /\ mask = disabled /\ held' = pins
    BY DEF ReapplyPins, ReadsCurrent, Unperturbed, LayoutCurrent
  <2>1. pendingNodes = <<>> /\ pendingEdges = <<>> /\ mask = disabled
    BY DEF ReapplyPins, Inv, ReadsCurrent, LayoutCurrent
  <2>2. Len(positions) = nodes /\ nodes \in Nat
    BY <2>1, LenProperties DEF Inv, TypeOK, NodesAligned
  <2>3. \A i \in 1..MaxNodes : held'[i] = pins[i]
    BY <2>2 DEF ReapplyPins, Inv, RequestsStored
  <2>4. held' = pins
    BY <1>2, <2>3 DEF Inv, TypeOK
  <2> QED BY <2>1, <2>4
<1>10. ThreadsInStep'
  BY DEF Inv, TypeOK, ReapplyPins, ThreadsInStep
<1> QED BY <1>3, <1>4, <1>5, <1>6, <1>7, <1>8, <1>9, <1>10 DEF Inv

\* The freeze count stays below the threshold until the worker freezes.
LEMMA AccountRestKeeps == Inv /\ AccountRest => Inv'
<1> SUFFICES ASSUME Inv, AccountRest PROVE Inv'
  OBVIOUS
<1>1. /\ restTicks' \in 0..FreezeAfter
      /\ frozen' \in BOOLEAN
      /\ frozen' \/ restTicks' = 0 \/ restTicks' < FreezeAfter
  <2>1. restTicks \in 0..FreezeAfter /\ frozen \in BOOLEAN
    BY DEF Inv, TypeOK
  <2>2. CASE frozen' = FALSE /\ restTicks' = 0
    <3>1. restTicks' \in 0..FreezeAfter
      BY <2>2
    <3>2. frozen' \in BOOLEAN
      BY <2>2
    <3> QED BY <2>2, <3>1, <3>2
  <2>3. CASE /\ ~active /\ FreezeAfter > 0
             /\ restTicks' = restTicks + 1
             /\ frozen' = (frozen \/ restTicks' >= FreezeAfter)
    <3>1. ~frozen
      BY <2>3 DEF Inv, FreezeCounted, AccountRest
    <3>2. restTicks < FreezeAfter
      BY <3>1, <2>3 DEF Inv, FreezeCounted
    <3>3. restTicks' \in 0..FreezeAfter
      BY <2>1, <2>3, <3>2
    <3>4. frozen' \in BOOLEAN
      BY <2>1, <2>3
    <3>5. frozen' \/ restTicks' < FreezeAfter
      <4>1. CASE restTicks' >= FreezeAfter
        BY <2>3, <4>1
      <4>2. CASE ~(restTicks' >= FreezeAfter)
        BY <3>3, <4>2
      <4> QED BY <4>1, <4>2
    <3> QED BY <3>3, <3>4, <3>5
  <2>4. CASE restTicks' = 0 /\ frozen' = frozen
    <3>1. restTicks' \in 0..FreezeAfter
      BY <2>4
    <3>2. frozen' \in BOOLEAN
      BY <2>1, <2>4
    <3> QED BY <2>4, <3>1, <3>2
  <2> QED BY <2>2, <2>3, <2>4 DEF AccountRest
<1>2. TypeOK'
  BY <1>1 DEF AccountRest, Inv, TypeOK
<1>3. NodesAligned'
  BY DEF Inv, TypeOK, AccountRest, NodesAligned
<1>4. EdgesInRange'
  BY DEF Inv, TypeOK, AccountRest, EdgesInRange
<1>5. RequestsStored'
  BY DEF Inv, TypeOK, AccountRest, RequestsStored
<1>6. BufferCurrent'
  BY DEF Inv, TypeOK, AccountRest, BufferCurrent
<1>7. FreezeCounted'
  BY <1>1 DEF AccountRest, FreezeCounted
<1>8. ReadsCurrent'
  BY DEF Inv, TypeOK, AccountRest, ReadsCurrent, Unperturbed, LayoutCurrent
<1>9. ThreadsInStep'
  BY DEF Inv, TypeOK, AccountRest, ThreadsInStep
<1> QED BY <1>2, <1>3, <1>4, <1>5, <1>6, <1>7, <1>8, <1>9 DEF Inv

\* Leaving timeline mode clears pins only.
LEMMA TimelineClearKeeps == Inv /\ TimelineClear => Inv'
<1> SUFFICES ASSUME Inv, TimelineClear PROVE Inv'
  OBVIOUS
<1>1. cursor' \in 0..MaxNodes /\ cursor' <= nodes
  BY DEF Inv, TypeOK, TimelineClear, NextNode, RequestsStored
<1>2. pins' \in [1..MaxNodes -> Pin] /\ rpc' \in RenderPC
  BY DEF Inv, TypeOK, TimelineClear, Pin
<1>3. TypeOK'
  BY <1>1, <1>2 DEF Inv, TypeOK, TimelineClear
<1>4. NodesAligned'
  BY DEF Inv, TypeOK, TimelineClear, NodesAligned
<1>5. EdgesInRange'
  BY DEF Inv, TypeOK, TimelineClear, EdgesInRange
<1>6. RequestsStored'
  BY <1>1 DEF Inv, TypeOK, TimelineClear, RequestsStored
<1>7. BufferCurrent'
  BY DEF Inv, TypeOK, TimelineClear, BufferCurrent
<1>8. FreezeCounted'
  BY DEF Inv, TypeOK, TimelineClear, FreezeCounted
<1>9. ReadsCurrent'
  BY DEF Inv, TypeOK, TimelineClear, ReadsCurrent, Unperturbed, LayoutCurrent
<1>10. ThreadsInStep'
  BY DEF Inv, TypeOK, TimelineClear, ThreadsInStep
<1> QED BY <1>3, <1>4, <1>5, <1>6, <1>7, <1>8, <1>9, <1>10 DEF Inv

\* The stored list and the queue grow by the same node.
LEMMA EnqueueNodeKeeps == Inv /\ EnqueueNode => Inv'
<1> SUFFICES ASSUME Inv, EnqueueNode PROVE Inv'
  OBVIOUS
<1>1. PICK p \in Places : pendingNodes' = Append(pendingNodes, p)
  BY Zenon DEF EnqueueNode
<1>2. pendingNodes' \in Seq(Places) /\ Len(pendingNodes') = Len(pendingNodes) + 1
  BY <1>1, AppendProperties DEF Inv, TypeOK
<1>3. /\ Len(positions) \in Nat /\ Len(pendingNodes) \in Nat /\ Len(buf) \in Nat
      /\ nodes \in Nat
  BY LenProperties DEF Inv, TypeOK
<1>4. TypeOK'
  BY <1>2 DEF Inv, TypeOK, EnqueueNode
<1>5. NodesAligned'
  <2>1. nodes' = nodes + 1 /\ positions' = positions /\ buf' = buf /\ view' = view
    BY DEF EnqueueNode
  <2> QED BY <1>2, <1>3, <2>1 DEF Inv, NodesAligned
<1>6. EdgesInRange'
  BY DEF Inv, TypeOK, EnqueueNode, EdgesInRange
<1>7. RequestsStored'
  <2>1. \A k \in 1..Len(pendingEdges) :
          pendingEdges[k][1] \in Nat /\ pendingEdges[k][2] \in Nat
    BY ElementOfSeq DEF Inv, TypeOK, EdgesAmong
  <2> QED BY <1>3, <2>1 DEF Inv, TypeOK, RequestsStored, EnqueueNode
<1>8. BufferCurrent'
  BY DEF Inv, TypeOK, EnqueueNode, BufferCurrent
<1>9. FreezeCounted'
  BY DEF Inv, TypeOK, EnqueueNode, FreezeCounted
<1>10. ReadsCurrent'
  BY DEF Inv, TypeOK, EnqueueNode, RenderFree, ReadsCurrent, Unperturbed, LayoutCurrent
<1>11. ThreadsInStep'
  BY DEF Inv, TypeOK, EnqueueNode, RenderFree, ThreadsInStep
<1> QED BY <1>4, <1>5, <1>6, <1>7, <1>8, <1>9, <1>10, <1>11 DEF Inv

\* An edge joins stored nodes, which are in the simulation or in the queue.
LEMMA EnqueueEdgeKeeps == Inv /\ EnqueueEdge => Inv'
<1> SUFFICES ASSUME Inv, EnqueueEdge PROVE Inv'
  OBVIOUS
<1>1. PICK e \in EdgesAmong(nodes) : pendingEdges' = Append(pendingEdges, e)
  BY Zenon DEF EnqueueEdge
<1>2. e \in EdgesAmong(MaxNodes) /\ e[1] <= nodes /\ e[2] <= nodes
  BY DEF EdgesAmong, Inv, TypeOK
<1>3. /\ pendingEdges' \in Seq(EdgesAmong(MaxNodes))
      /\ Len(pendingEdges') = Len(pendingEdges) + 1 /\ Len(pendingEdges) \in Nat
      /\ pendingEdges'[Len(pendingEdges) + 1] = e
      /\ \A k \in 1..Len(pendingEdges) : pendingEdges'[k] = pendingEdges[k]
  BY <1>1, <1>2, AppendProperties, LenProperties DEF Inv, TypeOK
<1>4. TypeOK'
  BY <1>3 DEF Inv, TypeOK, EnqueueEdge
<1>5. NodesAligned'
  BY DEF Inv, TypeOK, EnqueueEdge, NodesAligned
<1>6. EdgesInRange'
  BY DEF Inv, TypeOK, EnqueueEdge, EdgesInRange
<1>7. RequestsStored'
  <2>1. \A k \in 1..Len(pendingEdges') :
          pendingEdges'[k][1] <= nodes /\ pendingEdges'[k][2] <= nodes
    BY <1>2, <1>3 DEF Inv, RequestsStored
  <2> QED BY <2>1 DEF Inv, RequestsStored, EnqueueEdge
<1>8. BufferCurrent'
  BY DEF Inv, TypeOK, EnqueueEdge, BufferCurrent
<1>9. FreezeCounted'
  BY DEF Inv, TypeOK, EnqueueEdge, FreezeCounted
<1>10. ReadsCurrent'
  BY DEF Inv, TypeOK, EnqueueEdge, RenderFree, ReadsCurrent, Unperturbed, LayoutCurrent
<1>11. ThreadsInStep'
  BY DEF Inv, TypeOK, EnqueueEdge, RenderFree, ThreadsInStep
<1> QED BY <1>4, <1>5, <1>6, <1>7, <1>8, <1>9, <1>10, <1>11 DEF Inv

\* Clearing running_ touches nothing the invariant relates.
LEMMA StopKeeps == Inv /\ Stop => Inv'
<1> SUFFICES ASSUME Inv, Stop PROVE Inv'
  OBVIOUS
<1>1. TypeOK'
  <2>1. running' \in BOOLEAN /\ rpc' \in RenderPC
    BY DEF Stop
  <2> QED BY <2>1 DEF Inv, TypeOK, Stop
<1>2. NodesAligned'
  BY DEF Inv, TypeOK, Stop, NodesAligned
<1>3. EdgesInRange'
  BY DEF Inv, TypeOK, Stop, EdgesInRange
<1>4. RequestsStored'
  BY DEF Inv, TypeOK, Stop, RequestsStored
<1>5. BufferCurrent'
  BY DEF Inv, TypeOK, Stop, BufferCurrent
<1>6. FreezeCounted'
  BY DEF Inv, TypeOK, Stop, FreezeCounted
<1>7. ReadsCurrent'
  BY DEF Inv, TypeOK, Stop, RenderFree, ReadsCurrent, Unperturbed, LayoutCurrent
<1>8. ThreadsInStep'
  BY DEF Inv, TypeOK, Stop, RenderFree, ThreadsInStep
<1> QED BY <1>1, <1>2, <1>3, <1>4, <1>5, <1>6, <1>7, <1>8 DEF Inv

\* Every step of either thread keeps the invariant.
LEMMA InvInductive == Inv /\ [Next]_vars => Inv'
<1> SUFFICES ASSUME Inv, [Next]_vars PROVE Inv'
  OBVIOUS
<1> USE DEF NodesAligned, EdgesInRange, RequestsStored, BufferCurrent,
            FreezeCounted, ReadsCurrent, ThreadsInStep, Unperturbed, LayoutCurrent
<1>1. CASE BeginTick
  BY <1>1, BeginTickKeeps
<1>2. CASE ExitLoop
  BY <1>2, SMTT(20) DEF Inv, TypeOK, ExitLoop
<1>3. CASE DrainPending
  BY <1>3, DrainPendingKeeps
<1>4. CASE SnapshotPhantoms
  BY <1>4, SMTT(20) DEF Inv, TypeOK, SnapshotPhantoms
<1>5. CASE ReadDisabled
  BY <1>5, ReadDisabledKeeps
<1>6. CASE Integrate
  BY <1>6, IntegrateKeeps
<1>7. CASE ReapplyPins
  BY <1>7, ReapplyPinsKeeps
<1>8. CASE PublishPositions
  BY <1>8, SMTT(20) DEF Inv, TypeOK, PublishPositions
<1>9. CASE AccountRest
  BY <1>9, AccountRestKeeps
<1>10. CASE Start
  BY <1>10, SMTT(20) DEF Inv, TypeOK, Start
<1>11. CASE PinSelf
  BY <1>11, SMTT(20) DEF Inv, TypeOK, PinSelf, Pin
<1>12. CASE StoreDirty
  BY <1>12, SMTT(20) DEF Inv, TypeOK, StoreDirty
<1>13. CASE TimelinePin
  BY <1>13, SMTT(20) DEF Inv, TypeOK, TimelinePin, NextNode, Pin
<1>14. CASE TimelineClear
  BY <1>14, TimelineClearKeeps
<1>15. CASE Join
  BY <1>15, SMTT(20) DEF Inv, TypeOK, Join
<1>16. CASE FinalSnapshot
  BY <1>16, SMTT(20) DEF Inv, TypeOK, FinalSnapshot
<1>17. CASE EnqueueNode
  BY <1>17, EnqueueNodeKeeps
<1>18. CASE EnqueueEdge
  BY <1>18, EnqueueEdgeKeeps
<1>19. CASE SetNodeDisabled
  BY <1>19, SMTT(20) DEF Inv, TypeOK, SetNodeDisabled, RenderFree
<1>20. CASE ToggleTimeline
  BY <1>20, SMTT(20) DEF Inv, TypeOK, ToggleTimeline
<1>21. CASE SetUseBarnesHut
  BY <1>21, SMTT(20) DEF Inv, TypeOK, SetUseBarnesHut
<1>22. CASE Stop
  BY <1>22, StopKeeps
<1>23. CASE SnapshotFrame
  BY <1>23, SMTT(20) DEF Inv, TypeOK, SnapshotFrame
<1>24. CASE PhantomsChange
  BY <1>24, SMTT(20) DEF Inv, TypeOK, PhantomsChange
<1>25. CASE Terminated
  BY <1>25, SMTT(20) DEF Inv, TypeOK, Terminated, vars
<1>26. CASE UNCHANGED vars
  BY <1>26 DEF vars, Inv, TypeOK
<1> QED
  BY <1>1, <1>2, <1>3, <1>4, <1>5, <1>6, <1>7, <1>8, <1>9, <1>10, <1>11, <1>12, <1>13, <1>14, <1>15, <1>16, <1>17, <1>18, <1>19, <1>20, <1>21, <1>22, <1>23, <1>24, <1>25, <1>26
  DEF Next, Worker, InCall, Operator

------------------------------------------------------------------------------
\* Inv holds in every reachable state.
THEOREM InvHolds == Spec => []Inv
<1>1. Init => Inv
  BY InvInit
<1>2. Inv /\ [Next]_vars => Inv'
  BY InvInductive
<1> QED BY <1>1, <1>2, PTL DEF Spec

\* Every variable keeps its type; in particular the freeze count never passes
\* freeze_after_ticks.
THEOREM TypeCorrect == Spec => []TypeOK
<1>1. Inv => TypeOK
  BY DEF Inv
<1> QED BY <1>1, InvHolds, PTL

\* id == index across both threads, and integrate_step finds both ends of every edge
\* made since the project was opened, whatever orphans it was opened with.
THEOREM IndicesAgree == Spec => []IndicesAligned
<1>1. Inv => IndicesAligned
  BY DEF Inv, IndicesAligned
<1> QED BY <1>1, InvHolds, PTL

\* No wake-up is lost: a frozen layout with nothing on its way is current.
THEOREM NoLostWakeUp == Spec => []FrozenIsCurrent
<1>1. Inv => FrozenIsCurrent
  BY DEF Inv, FrozenIsCurrent, ReadsCurrent, BufferCurrent
<1> QED BY <1>1, InvHolds, PTL

\* What is saved after stop() is the worker's last state.
THEOREM SavedIsLast == Spec => []SavedLayoutIsLast
<1>1. Inv => SavedLayoutIsLast
  BY DEF Inv, SavedLayoutIsLast, ThreadsInStep, BufferCurrent, NodesAligned
<1> QED BY <1>1, InvHolds, PTL
------------------------------------------------------------------------------
(* Tombstones.  Inv says when the whole buffer is current; TombstonesRest   *)
(* needs what is current of it while a tick is under way.                   *)

\* Only these steps touch the mask, the buffer, or what they are compared with.
RestSteps == DrainPending \/ SnapshotPhantoms \/ ReadDisabled \/ Integrate
             \/ ReapplyPins \/ PublishPositions \/ AccountRest

\* The constructor has masked nothing and shows what it loaded.
LEMMA RestInit == Init => RestInv
<1> SUFFICES ASSUME Init PROVE RestInv
  OBVIOUS
<1>1. MaskLasts /\ BufferFollows
  BY DEF Init, MaskLasts, BufferFollows
<1> QED BY <1>1, InvInit DEF RestInv

\* No step of the simulation drops a node.
LEMMA NoNodeDropped ==
  ASSUME Inv, RestSteps \/ UNCHANGED positions
  PROVE  Len(positions) \in Nat /\ Len(positions') \in Nat /\ Len(positions) <= Len(positions')
<1>1. Len(positions) \in Nat /\ nodes \in Nat
  BY LenProperties DEF Inv, TypeOK
<1>2. CASE DrainPending
  <2>1. Len(positions') = Len(positions) + Len(pendingNodes) /\ Len(pendingNodes) \in Nat
    BY <1>2, ConcatProperties, LenProperties DEF DrainPending, Inv, TypeOK
  <2> QED BY <1>1, <2>1
<1>3. CASE Integrate
  <2>1. positions' \in [1..Len(positions) -> Places]
    BY <1>3 DEF Integrate
  <2>2. Len(positions') = Len(positions)
    BY <1>1, <2>1, FunIsSeq
  <2> QED BY <1>1, <2>2
<1>4. CASE ReapplyPins
  <2>1. Inv' /\ pendingNodes' = pendingNodes /\ nodes' = nodes
    BY <1>4, ReapplyPinsKeeps DEF ReapplyPins
  <2>2. Len(positions') = Len(positions)
    BY <2>1, LenProperties DEF Inv, TypeOK, NodesAligned
  <2> QED BY <1>1, <2>2
<1>5. CASE UNCHANGED positions
  BY <1>1, <1>5
<1> QED BY <1>2, <1>3, <1>4, <1>5
        DEF RestSteps, SnapshotPhantoms, ReadDisabled, PublishPositions, AccountRest

\* Every other step leaves the tombstones' places alone.
LEMMA RestUntouched ==
  ASSUME RestInv, [Next]_vars
  PROVE  \/ RestSteps
         \/ /\ UNCHANGED <<positions, buf, mask, held>>
            /\ disabled \subseteq disabled'
            /\ wpc' = wpc \/ wpc' \in {"top", "drain", "done"}
            /\ wpc' # wpc => wpc \in {"unborn", "top"}
<1> USE DEF RestSteps
<1>1. CASE BeginTick \/ ExitLoop
  BY <1>1 DEF BeginTick, ExitLoop
<1>2. CASE InCall
  BY <1>2 DEF InCall, Start, PinSelf, StoreDirty, TimelinePin, TimelineClear, Join,
              FinalSnapshot, RestInv, Inv, ThreadsInStep
<1>3. CASE Operator
  BY <1>3 DEF Operator, EnqueueNode, EnqueueEdge, SetNodeDisabled, ToggleTimeline,
              SetUseBarnesHut, Stop
<1>4. CASE SnapshotFrame \/ PhantomsChange \/ Terminated \/ UNCHANGED vars
  BY <1>4 DEF SnapshotFrame, PhantomsChange, Terminated, vars
<1> QED BY <1>1, <1>2, <1>3, <1>4 DEF Next, Worker

\* The mask only ever gains tombstones.
LEMMA MaskGrows == RestInv /\ [Next]_vars => mask \subseteq mask' /\ MaskLasts'
<1> SUFFICES ASSUME RestInv, [Next]_vars PROVE mask \subseteq mask' /\ MaskLasts'
  OBVIOUS
<1>1. Inv /\ mask \subseteq disabled /\ mask \subseteq 1..Len(positions)
  BY DEF RestInv, MaskLasts
<1>2. Len(positions) \in Nat /\ Len(positions') \in Nat /\ Len(positions) <= Len(positions')
  BY <1>1, RestUntouched, NoNodeDropped
<1>3. CASE ReadDisabled
  BY <1>1, <1>3 DEF ReadDisabled, MaskLasts
<1>4. CASE mask' = mask /\ disabled \subseteq disabled'
  BY <1>1, <1>2, <1>4 DEF MaskLasts
<1> QED BY <1>3, <1>4, RestUntouched
        DEF RestSteps, DrainPending, SnapshotPhantoms, Integrate, ReapplyPins,
            PublishPositions, AccountRest

\* A masked node that no pin holds stays where the buffer shows it.
LEMMA BufferKept == RestInv /\ [Next]_vars => BufferFollows'
<1> SUFFICES ASSUME RestInv, [Next]_vars, NEW i \in 1..Len(buf')
             PROVE  MovedByTick(i)' \/ buf'[i] = positions'[i]
  BY DEF BufferFollows
<1>1. /\ Inv /\ MaskLasts /\ BufferFollows
      /\ Len(buf) \in Nat /\ Len(positions) \in Nat /\ Len(buf) <= Len(positions)
  BY LenProperties DEF RestInv, Inv, TypeOK, NodesAligned
<1>2. CASE PublishPositions
  BY <1>2 DEF PublishPositions
<1>3. CASE buf' = buf
  <2>1. /\ i \in 1..Len(buf) /\ i \in 1..Len(positions)
        /\ MovedByTick(i) \/ buf[i] = positions[i]
    BY <1>1, <1>3 DEF BufferFollows
  <2>2. CASE DrainPending
    <3>1. positions'[i] = positions[i]
      BY <1>1, <2>1, <2>2, ConcatProperties DEF DrainPending, Inv, TypeOK
    <3> QED BY <1>3, <2>1, <2>2, <3>1 DEF DrainPending, MovedByTick
  <2>3. CASE SnapshotPhantoms \/ ReadDisabled
    BY <1>3, <2>1, <2>3 DEF SnapshotPhantoms, ReadDisabled, MovedByTick
  <2>4. CASE Integrate
    <3>1. buf[i] = positions[i]
      BY <2>1, <2>4 DEF Integrate, MovedByTick
    <3>2. CASE i \in mask
      BY <1>3, <2>1, <2>4, <3>1, <3>2 DEF Integrate
    <3>3. CASE i \notin mask
      BY <2>4, <3>3 DEF Integrate, MovedByTick
    <3> QED BY <3>2, <3>3
  <2>5. CASE ReapplyPins
    <3>1. i \in mask => buf[i] = positions[i]
      BY <2>1, <2>5 DEF ReapplyPins, MovedByTick
    <3>2. CASE i \notin mask
      BY <2>5, <3>2 DEF ReapplyPins, MovedByTick
    <3>3. CASE i \in mask /\ pins[i] = NoPin
      BY <1>3, <2>1, <2>5, <3>1, <3>3 DEF ReapplyPins
    <3>4. CASE i \in mask /\ pins[i] # NoPin
      <4>1. i \in 1..MaxNodes /\ i <= Len(positions)
        BY <1>1, <2>1, <3>4 DEF Inv, TypeOK
      <4>2. held'[i] = pins[i]
        BY <2>5, <4>1 DEF ReapplyPins
      <4> QED BY <2>5, <3>4, <4>2 DEF ReapplyPins, MovedByTick
    <3> QED BY <3>2, <3>3, <3>4
  <2>6. CASE AccountRest
    BY <1>3, <2>1, <2>6 DEF AccountRest, MovedByTick
  <2>7. CASE UNCHANGED <<positions, mask, held>> /\ ~RestSteps
    BY <1>3, <2>1, <2>7, RestUntouched DEF MovedByTick
  <2> QED BY <1>2, <2>2, <2>3, <2>4, <2>5, <2>6, <2>7, RestUntouched DEF RestSteps
<1> QED BY <1>2, <1>3, RestUntouched
        DEF RestSteps, DrainPending, SnapshotPhantoms, ReadDisabled, Integrate,
            ReapplyPins, AccountRest

\* Every step keeps what TombstonesRest rests on.
LEMMA RestInductive == RestInv /\ [Next]_vars => RestInv'
<1> QED BY InvInductive, MaskGrows, BufferKept DEF RestInv

\* Only a publication changes the buffer, and it shows a masked node where the
\* buffer had it unless a pin holds it.
LEMMA RestStep ==
  RestInv /\ [Next]_vars =>
    [/\ mask \subseteq mask'
     /\ \A i \in 1..Len(buf) : i \in mask /\ held[i] = NoPin => buf'[i] = buf[i]
    ]_<<mask, buf>>
<1> SUFFICES ASSUME RestInv, [Next]_vars, NEW i \in 1..Len(buf), i \in mask, held[i] = NoPin
             PROVE  buf'[i] = buf[i]
  BY MaskGrows
<1>1. CASE PublishPositions
  BY <1>1 DEF PublishPositions, RestInv, BufferFollows, MovedByTick
<1>2. CASE buf' = buf
  BY <1>2
<1> QED BY <1>1, <1>2, RestUntouched
        DEF RestSteps, DrainPending, SnapshotPhantoms, ReadDisabled, Integrate,
            ReapplyPins, AccountRest

\* A tombstone that an integration has masked is masked for good and stays where
\* the frames show it, however the two threads interleave.
THEOREM TombstonesStay == Spec => TombstonesRest
<1>1. Init => RestInv
  BY RestInit
<1>2. RestInv /\ [Next]_vars => RestInv'
  BY RestInductive
<1>3. RestInv /\ [Next]_vars =>
        [/\ mask \subseteq mask'
         /\ \A i \in 1..Len(buf) : i \in mask /\ held[i] = NoPin => buf'[i] = buf[i]
        ]_<<mask, buf>>
  BY RestStep
<1> QED BY <1>1, <1>2, <1>3, PTL DEF Spec, TombstonesRest

------------------------------------------------------------------------------
(* PhysicsThread implements LayoutService: every step of either thread is   *)
(* one step of the abstract service or changes nothing it can see.  Inv     *)
(* gives the two facts that matter: a worker that freezes unperturbed has   *)
(* served everything, and one that is frozen and unperturbed reads nothing  *)
(* new.                                                                     *)

settledNow == frozen /\ Unperturbed

\* What the abstract state is made of; its equality makes a step invisible.
Visible == <<nodes, edges \o pendingEdges, pins, disabled, Len(positions), edges,
             held, mask, settledNow>>

LEMMA Invisible == UNCHANGED Visible => UNCHANGED LS!vars
  BY DEF Visible, settledNow, LS!vars, LS!want, LS!seen

\* When the tick has read everything, the abstract service has served everything.
LEMMA CurrentIsServed == Inv /\ LayoutCurrent => LS!Served
<1> SUFFICES ASSUME Inv, LayoutCurrent PROVE LS!Served
  OBVIOUS
<1>1. Len(positions) = nodes
  BY LenProperties DEF Inv, TypeOK, NodesAligned, LayoutCurrent
<1>2. edges \o pendingEdges = edges
  BY ConcatEmptySeq DEF Inv, TypeOK, LayoutCurrent
<1> QED BY <1>1, <1>2 DEF LayoutCurrent, LS!Served, LS!want, LS!seen

\* The drain takes all queued nodes and edges at once.
LEMMA DrainRefines == Inv /\ DrainPending => [LS!Next]_LS!vars
<1> SUFFICES ASSUME Inv, DrainPending PROVE [LS!Next]_LS!vars
  OBVIOUS
<1>1. Len(positions') = nodes /\ edges' \o pendingEdges' = edges' /\ edges' = edges \o pendingEdges
  <2>1. Len(positions') = nodes
    BY ConcatProperties DEF Inv, TypeOK, NodesAligned, DrainPending
  <2>2. edges' \in Seq(Edge) /\ pendingEdges' = <<>>
    BY PendingAreEdges, ConcatProperties DEF Inv, TypeOK, DrainPending
  <2> QED BY <2>1, <2>2, ConcatEmptySeq DEF DrainPending
<1>2. settledNow' = settledNow
  BY DEF settledNow, Unperturbed, DrainPending
<1>3. CASE settledNow
  <2>1. pendingNodes = <<>> /\ pendingEdges = <<>>
    BY <1>3 DEF settledNow, Inv, ReadsCurrent, LayoutCurrent
  <2>2. positions' = positions /\ edges' = edges
    BY <2>1, ConcatEmptySeq DEF Inv, TypeOK, DrainPending
  <2> QED BY <1>1, <1>2, <2>2, Invisible DEF DrainPending, Visible
<1>4. CASE ~settledNow
  <2>1. LS!TakeGraph
    BY <1>1 DEF LS!TakeGraph, DrainPending
  <2>2. UNCHANGED <<LS!want, settledNow>>
    BY <1>1, <1>2 DEF LS!want, DrainPending
  <2> QED BY <1>4, <2>1, <2>2 DEF settledNow, LS!Serve, LS!Next
<1> QED BY <1>3, <1>4

\* Reading the tombstones serves them, up to the nodes that have entered.
LEMMA ReadDisabledRefines == Inv /\ ReadDisabled => [LS!Next]_LS!vars
<1> SUFFICES ASSUME Inv, ReadDisabled PROVE [LS!Next]_LS!vars
  OBVIOUS
<1>1. settledNow' = settledNow
  BY DEF settledNow, Unperturbed, ReadDisabled
<1>2. CASE settledNow
  <2>1. LayoutCurrent /\ LayoutCurrent'
    <3>1. Unperturbed' /\ frozen'
      BY <1>1, <1>2 DEF settledNow
    <3> QED BY <1>2, <3>1, ReadDisabledKeeps DEF settledNow, Inv, ReadsCurrent
  <2>2. mask' = mask
    BY <2>1 DEF LayoutCurrent, ReadDisabled
  <2> QED BY <1>1, <2>2, Invisible DEF ReadDisabled, Visible
<1>3. CASE ~settledNow
  <2>1. LS!TakeDisabled
    BY DEF LS!TakeDisabled, ReadDisabled
  <2>2. UNCHANGED <<LS!want, settledNow>>
    BY <1>1 DEF LS!want, ReadDisabled
  <2> QED BY <1>3, <2>1, <2>2 DEF settledNow, LS!Serve, LS!Next
<1> QED BY <1>2, <1>3

\* Re-applying the pins serves them, up to the nodes that have entered.
LEMMA ReapplyPinsRefines == Inv /\ ReapplyPins => [LS!Next]_LS!vars
<1> SUFFICES ASSUME Inv, ReapplyPins PROVE [LS!Next]_LS!vars
  OBVIOUS
<1>1. settledNow' = settledNow
  BY DEF settledNow, Unperturbed, ReapplyPins
<1>2. Len(positions') = Len(positions)
  <2>1. Inv' /\ pendingNodes' = pendingNodes /\ nodes' = nodes
    BY ReapplyPinsKeeps DEF ReapplyPins
  <2> QED BY <2>1, LenProperties DEF Inv, TypeOK, NodesAligned
<1>3. CASE settledNow
  <2>1. LayoutCurrent /\ LayoutCurrent'
    <3>1. Unperturbed' /\ frozen'
      BY <1>1, <1>3 DEF settledNow
    <3> QED BY <1>3, <3>1, ReapplyPinsKeeps DEF settledNow, Inv, ReadsCurrent
  <2>2. held' = held
    BY <2>1 DEF LayoutCurrent, ReapplyPins
  <2> QED BY <1>1, <1>2, <2>2, Invisible DEF ReapplyPins, Visible
<1>4. CASE ~settledNow
  <2>1. LS!TakePins
    BY <1>2 DEF LS!TakePins, ReapplyPins
  <2>2. UNCHANGED <<LS!want, settledNow>>
    BY <1>1 DEF LS!want, ReapplyPins
  <2> QED BY <1>4, <2>1, <2>2 DEF settledNow, LS!Serve, LS!Next
<1> QED BY <1>3, <1>4

\* Freezing unperturbed is the abstract Settle, waking for a phantom Disturb.
LEMMA AccountRefines == Inv /\ AccountRest => [LS!Next]_LS!vars
<1> SUFFICES ASSUME Inv, AccountRest PROVE [LS!Next]_LS!vars
  OBVIOUS
<1>1. UNCHANGED <<LS!want, LS!seen>> /\ Unperturbed' = Unperturbed
  BY DEF LS!want, LS!seen, AccountRest, Unperturbed
<1>2. frozen \in BOOLEAN /\ frozen' \in BOOLEAN
  BY AccountRestKeeps DEF Inv, TypeOK
<1>3. CASE settledNow' = settledNow
  BY <1>1, <1>3 DEF settledNow, LS!vars
<1>4. CASE settledNow /\ ~settledNow'
  BY <1>1, <1>4 DEF settledNow, LS!Disturb, LS!Next
<1>5. CASE ~settledNow /\ settledNow'
  <2>1. LayoutCurrent
    BY <1>1, <1>5 DEF settledNow, AccountRest, Inv, ReadsCurrent
  <2>2. LS!Served
    BY <2>1, CurrentIsServed
  <2>3. (frozen /\ Unperturbed)' = TRUE
    BY <1>1, <1>2, <1>5 DEF settledNow
  <2> QED BY <1>1, <1>5, <2>2, <2>3 DEF settledNow, LS!Settle, LS!Next
<1> QED BY <1>1, <1>2, <1>3, <1>4, <1>5 DEF settledNow, Unperturbed

\* Every mutator is one atomic request, its wake-up included.
LEMMA RequestRefines ==
  ASSUME Inv, rpc' = "wake", UNCHANGED <<positions, edges, held, mask>>,
         \/ nodes' = nodes + 1 /\ UNCHANGED <<pendingEdges, pins, disabled>>
         \/ /\ \E e \in EdgesAmong(MaxNodes) : pendingEdges' = Append(pendingEdges, e)
            /\ UNCHANGED <<nodes, pins, disabled>>
         \/ /\ \E i \in 1..MaxNodes, p \in Pin : i <= nodes /\ pins' = [pins EXCEPT ![i] = p]
            /\ UNCHANGED <<nodes, pendingEdges, disabled>>
         \/ /\ \E i \in 1..nodes : disabled' = disabled \cup {i}
            /\ UNCHANGED <<nodes, pendingEdges, pins>>
  PROVE  [LS!Next]_LS!vars
<1>1. UNCHANGED LS!seen /\ (frozen /\ Unperturbed)' = FALSE
  BY DEF LS!seen, Unperturbed
<1>2. CASE nodes' = nodes + 1 /\ UNCHANGED <<pendingEdges, pins, disabled>>
  <2>1. LS!AddNode
    BY <1>2 DEF LS!AddNode
  <2> QED BY <1>1, <2>1 DEF LS!Request, LS!Next
<1>3. CASE /\ \E e \in EdgesAmong(MaxNodes) : pendingEdges' = Append(pendingEdges, e)
           /\ UNCHANGED <<nodes, pins, disabled>>
  <2>1. PICK e \in EdgesAmong(MaxNodes) : pendingEdges' = Append(pendingEdges, e)
    BY <1>3
  <2>2. edges \o Append(pendingEdges, e) = Append(edges \o pendingEdges, e)
    <3>1. edges \in Seq(Edge) /\ pendingEdges \in Seq(Edge) /\ edges \o pendingEdges \in Seq(Edge)
      BY PendingAreEdges, ConcatProperties DEF Inv, TypeOK
    <3>2. e \in Edge /\ <<e>> \in Seq(Edge)
      BY <2>1 DEF Edge
    <3> QED BY <3>1, <3>2, AppendIsConcat, ConcatAssociative
  <2>3. LS!AddEdge
    BY <1>3, <2>1, <2>2 DEF LS!AddEdge, Edge
  <2> QED BY <1>1, <2>3 DEF LS!Request, LS!Next
<1>4. CASE /\ \E i \in 1..MaxNodes, p \in Pin : i <= nodes /\ pins' = [pins EXCEPT ![i] = p]
           /\ UNCHANGED <<nodes, pendingEdges, disabled>>
  <2>1. LS!ChangePin
    BY <1>4 DEF LS!ChangePin
  <2> QED BY <1>1, <2>1 DEF LS!Request, LS!Next
<1>5. CASE /\ \E i \in 1..nodes : disabled' = disabled \cup {i}
           /\ UNCHANGED <<nodes, pendingEdges, pins>>
  <2>1. LS!Disable
    BY <1>5 DEF LS!Disable
  <2> QED BY <1>1, <2>1 DEF LS!Request, LS!Next
<1> QED BY <1>2, <1>3, <1>4, <1>5

\* Every step of the program is a step of the service or invisible to it.
LEMMA StepRefines == Inv /\ [Next]_vars => [LS!Next]_LS!vars
<1> SUFFICES ASSUME Inv, [Next]_vars PROVE [LS!Next]_LS!vars
  OBVIOUS
<1>1. CASE BeginTick
  BY <1>1, Invisible DEF BeginTick, Visible, settledNow, Unperturbed, Inv, TypeOK
<1>2. CASE ExitLoop
  BY <1>2, Invisible DEF ExitLoop, Visible, settledNow, Unperturbed
<1>3. CASE DrainPending
  BY <1>3, DrainRefines
<1>4. CASE SnapshotPhantoms
  BY <1>4, Invisible DEF SnapshotPhantoms, Visible, settledNow, Unperturbed
<1>5. CASE ReadDisabled
  BY <1>5, ReadDisabledRefines
<1>6. CASE Integrate
  <2>1. Inv' /\ pendingNodes' = pendingNodes /\ nodes' = nodes
    BY <1>6, IntegrateKeeps DEF Integrate
  <2>2. Len(positions') = Len(positions)
    BY <2>1, LenProperties DEF Inv, TypeOK, NodesAligned
  <2> QED BY <1>6, <2>2, Invisible DEF Integrate, Visible, settledNow, Unperturbed
<1>7. CASE ReapplyPins
  BY <1>7, ReapplyPinsRefines
<1>8. CASE PublishPositions
  BY <1>8, Invisible DEF PublishPositions, Visible, settledNow, Unperturbed
<1>9. CASE AccountRest
  BY <1>9, AccountRefines
<1>10. CASE Start
  BY <1>10, Invisible DEF Start, Visible, settledNow, Unperturbed
<1>11. CASE PinSelf
  <2>1. Self \in 1..MaxNodes /\ Self <= nodes /\ SelfHome \in Pin
    BY DEF Inv, TypeOK, Pin
  <2> QED BY <1>11, <2>1, RequestRefines DEF PinSelf
<1>12. CASE StoreDirty
  BY <1>12, Invisible DEF StoreDirty, Visible, settledNow, Unperturbed
<1>13. CASE TimelinePin
  <2>1. PICK p \in Places : pins' = [pins EXCEPT ![cursor] = p]
    BY <1>13, Zenon DEF TimelinePin
  <2>2. cursor \in 1..MaxNodes /\ cursor <= nodes /\ p \in Pin
    BY <1>13 DEF TimelinePin, Inv, TypeOK, RequestsStored, Pin
  <2> QED BY <1>13, <2>1, <2>2, RequestRefines DEF TimelinePin
<1>14. CASE TimelineClear
  <2>1. CASE cursor = Self
    BY <1>14, <2>1, Invisible DEF TimelineClear, Visible, settledNow, Unperturbed
  <2>2. CASE cursor # Self
    <3>1. cursor \in 1..MaxNodes /\ cursor <= nodes /\ NoPin \in Pin
      BY <1>14 DEF TimelineClear, Inv, TypeOK, RequestsStored, Pin
    <3> QED BY <1>14, <2>2, <3>1, RequestRefines DEF TimelineClear
  <2> QED BY <2>1, <2>2
<1>15. CASE Join
  BY <1>15, Invisible DEF Join, Visible, settledNow, Unperturbed
<1>16. CASE FinalSnapshot
  BY <1>16, Invisible DEF FinalSnapshot, Visible, settledNow, Unperturbed
<1>17. CASE EnqueueNode
  BY <1>17, RequestRefines DEF EnqueueNode
<1>18. CASE EnqueueEdge
  <2>1. PICK e \in EdgesAmong(nodes) : pendingEdges' = Append(pendingEdges, e)
    BY <1>18, Zenon DEF EnqueueEdge
  <2>2. e \in EdgesAmong(MaxNodes)
    BY DEF EdgesAmong, Inv, TypeOK
  <2> QED BY <1>18, <2>1, <2>2, RequestRefines DEF EnqueueEdge
<1>19. CASE SetNodeDisabled
  BY <1>19, RequestRefines DEF SetNodeDisabled
<1>20. CASE ToggleTimeline
  BY <1>20, Invisible DEF ToggleTimeline, Visible, settledNow, Unperturbed
<1>21. CASE SetUseBarnesHut
  BY <1>21, Invisible DEF SetUseBarnesHut, Visible, settledNow, Unperturbed
<1>22. CASE Stop
  BY <1>22, Invisible DEF Stop, Visible, settledNow, Unperturbed, RenderFree
<1>23. CASE SnapshotFrame
  BY <1>23, Invisible DEF SnapshotFrame, Visible, settledNow, Unperturbed
<1>24. CASE PhantomsChange
  BY <1>24, Invisible DEF PhantomsChange, Visible, settledNow, Unperturbed
<1>25. CASE Terminated
  BY <1>25, Invisible DEF Terminated, Visible, settledNow, Unperturbed, vars
<1>26. CASE UNCHANGED vars
  BY <1>26, Invisible DEF vars, Visible, settledNow, Unperturbed
<1> QED
  BY <1>1, <1>2, <1>3, <1>4, <1>5, <1>6, <1>7, <1>8, <1>9, <1>10, <1>11, <1>12, <1>13, <1>14, <1>15, <1>16, <1>17, <1>18, <1>19, <1>20, <1>21, <1>22, <1>23, <1>24, <1>25, <1>26
  DEF Next, Worker, InCall, Operator

\* The constructor's state is a settled-nothing state of the service.
LEMMA InitRefines == Init => LS!Init
<1> SUFFICES ASSUME Init PROVE LS!Init
  OBVIOUS
<1>1. LayoutCurrent /\ Inv
  BY InvInit DEF Init, LayoutCurrent
<1>2. LS!Served
  BY <1>1, CurrentIsServed
<1>3. edges \o pendingEdges \in Seq(Edge)
  BY <1>1, ConcatEmptySeq DEF Init, Inv, TypeOK
<1>4. nodes \in 1..MaxNodes /\ (frozen /\ Unperturbed) = FALSE
  BY DEF Init
<1> QED BY <1>2, <1>3, <1>4 DEF Init, LS!Init

\* The program implements the abstract layout service, for every value of the
\* constants.
THEOREM Refinement == Spec => ImplementsService
<1>1. Init => LS!Init
  BY InitRefines
<1>2. Inv /\ [Next]_vars => [LS!Next]_LS!vars
  BY StepRefines
<1> QED BY <1>1, <1>2, InvHolds, PTL DEF Spec, ImplementsService, LS!Spec
==============================================================================
