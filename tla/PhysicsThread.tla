---------------------------- MODULE PhysicsThread ----------------------------
(***************************************************************************)
(* The layout worker (physics/physics_thread.cpp), the GraphBuffer it      *)
(* publishes to (graph/graph_buffer.cpp), and the calls the render thread  *)
(* makes on both.                                                          *)
(*                                                                         *)
(* Every mutator of the render thread is two steps, as in the code: the    *)
(* change lands under its own mutex, and only then is dirty_ stored.  The  *)
(* worker's tick is one step per lock or atomic it touches, so any call of *)
(* the render thread may fall between any two of them.                     *)
(*                                                                         *)
(* Forces are abstracted: integrate_step may move a node that is not       *)
(* tombstoned to any place.  Node indices count from 1.                    *)
(***************************************************************************)
EXTENDS Naturals, Sequences

CONSTANTS
  Places,       \* the positions a node can have
  NoPin,        \* marks a node without an entry in pins_
  InitNodes,    \* nodes of the project when it is opened
  InitEdges,    \* edges of the project when it is opened
  LoadableEdges, \* the ends such an edge may have, in range or not
  MaxNodes,     \* bound on the nodes the operator creates
  MaxEdges,     \* bound on the edges of the project
  FreezeAfter,  \* SimParams::freeze_after_ticks; 0 disables freezing
  Self,         \* Session::self_idx
  SelfHome      \* where the self node was loaded, its anchor

ASSUME NodesAssumption == InitNodes \in Nat \ {0} /\ MaxNodes \in Nat
                          /\ InitNodes <= MaxNodes
ASSUME EdgesAssumption == /\ InitEdges \in Nat /\ InitEdges <= MaxEdges
                          /\ LoadableEdges \subseteq (Nat \ {0}) \X (Nat \ {0})
ASSUME BoundsAssumption == MaxEdges \in Nat /\ FreezeAfter \in Nat
ASSUME SelfAssumption == Self \in 1..InitNodes /\ SelfHome \in Places
ASSUME NoPinAssumption == NoPin \notin Places

VARIABLES
  \* PhysicsThread, owned by the worker
  positions,    \* positions_
  edges,        \* edges_
  edgesDirty,   \* edges_dirty_
  frozen,       \* run()'s local: the integrate step is paused
  restTicks,    \* run()'s local: consecutive at-rest ticks
  wpc,          \* where the worker is in run() and step()
  active,       \* step()'s local: something perturbed the field this tick
  mask,         \* step()'s local: the tombstones of the last integration
  ranBH,        \* step()'s local: the last integration's use_barnes_hut
  held,         \* the pins re-applied after the last integration
  \* PhysicsThread, shared under a mutex or atomic
  pendingNodes, \* pending_additions_
  pendingEdges, \* pending_edges_
  pins,         \* pins_
  disabled,     \* disabled_
  useBH,        \* use_barnes_hut_
  dirty,        \* dirty_
  running,      \* running_
  \* GraphBuffer
  buf,          \* positions_
  bufEdges,     \* edges_
  \* the render thread
  nodes,        \* stored_nodes.size()
  view,         \* size of Session::positions, the frame's snapshot
  timeline,     \* Session::timeline_mode
  cursor,       \* next node of the T key's pin loop, 0 outside it
  rpc,          \* where the render thread is in its current call
  \* PhantomBuffer
  phantoms      \* whether a live phantom is in it

workerVars == <<positions, edges, edgesDirty, frozen, restTicks, wpc, active,
                mask, ranBH, held>>
requestVars == <<pendingNodes, pendingEdges, pins, disabled, useBH, running>>
renderVars == <<nodes, view, timeline, cursor, rpc>>
bufferVars == <<buf, bufEdges>>
vars == <<workerVars, requestVars, dirty, bufferVars, renderVars, phantoms>>

Pin == Places \cup {NoPin}
EdgesAmong(n) == {e \in (1..n) \X (1..n) : e[1] # e[2]}
Edge == LoadableEdges \cup EdgesAmong(MaxNodes)
WorkerPC == {"unborn", "top", "drain", "phantoms", "mask", "integrate", "pins",
             "publish", "account", "done"}
RenderPC == {"built", "pinSelf", "idle", "wake", "join", "joined", "ended"}

TypeOK ==
  /\ positions \in Seq(Places) /\ buf \in Seq(Places)
  /\ pendingNodes \in Seq(Places)
  /\ edges \in Seq(Edge) /\ bufEdges \in Seq(Edge)
  /\ pendingEdges \in Seq(EdgesAmong(MaxNodes))
  /\ pins \in [1..MaxNodes -> Pin] /\ held \in [1..MaxNodes -> Pin]
  /\ disabled \subseteq 1..MaxNodes /\ mask \subseteq 1..MaxNodes
  /\ edgesDirty \in BOOLEAN /\ frozen \in BOOLEAN /\ active \in BOOLEAN
  /\ ranBH \in BOOLEAN /\ useBH \in BOOLEAN /\ dirty \in BOOLEAN
  /\ running \in BOOLEAN /\ timeline \in BOOLEAN /\ phantoms \in BOOLEAN
  /\ restTicks \in 0..FreezeAfter
  /\ nodes \in InitNodes..MaxNodes /\ view \in Nat /\ cursor \in 0..MaxNodes
  /\ wpc \in WorkerPC /\ rpc \in RenderPC

\* The constructor: the loaded graph is published before any thread runs.  An edge of
\* a file that drifted out of sync may name nodes that the file does not have.
Init ==
  /\ positions \in {p \in [1..InitNodes -> Places] : p[Self] = SelfHome}
  /\ edges \in [1..InitEdges -> LoadableEdges] /\ edgesDirty = FALSE
  /\ buf = positions /\ bufEdges = edges
  /\ pendingNodes = <<>> /\ pendingEdges = <<>>
  /\ pins = [i \in 1..MaxNodes |-> NoPin] /\ held = pins
  /\ disabled = {} /\ mask = {}
  /\ useBH = TRUE /\ ranBH = TRUE
  /\ dirty = FALSE /\ running = FALSE
  /\ frozen = FALSE /\ restTicks = 0 /\ active = FALSE
  /\ nodes = InitNodes /\ view = InitNodes
  /\ timeline = FALSE /\ cursor = 0 /\ phantoms = FALSE
  /\ wpc = "unborn" /\ rpc = "built"

------------------------------------------------------------------------------
(* The worker: run() and step().                                           *)

LoopForever == TRUE                                   \* mutant: never stops
LoopGoesOn == running

\* The loop head.  The worker tests running_ and takes dirty_ in one step:
\* nothing it does in between touches shared state.
BeginTick ==
  /\ wpc = "top" /\ LoopGoesOn
  /\ frozen' = (frozen /\ ~dirty)
  /\ restTicks' = IF dirty THEN 0 ELSE restTicks
  /\ dirty' = FALSE
  /\ wpc' = "drain"
  /\ UNCHANGED <<positions, edges, edgesDirty, active, mask, ranBH, held,
                 requestVars, bufferVars, renderVars, phantoms>>

ExitPointsMidTick == {"top", "publish"}               \* mutant: leaves unpublished
ExitPoints == {"top"}

ExitLoop ==
  /\ wpc \in ExitPoints /\ ~running
  /\ wpc' = "done"
  /\ UNCHANGED <<positions, edges, edgesDirty, frozen, restTicks, active, mask,
                 ranBH, held, requestVars, dirty, bufferVars, renderVars, phantoms>>

StillPerturbed ==                                     \* mutant: never reset
  active \/ pendingNodes # <<>> \/ pendingEdges # <<>>
Perturbed == pendingNodes # <<>> \/ pendingEdges # <<>>

\* Both queues are emptied under one hold of pending_mu_.
DrainPending ==
  /\ wpc = "drain"
  /\ positions' = positions \o pendingNodes
  /\ edges' = edges \o pendingEdges
  /\ edgesDirty' = (edgesDirty \/ pendingEdges # <<>>)
  /\ active' = Perturbed
  /\ pendingNodes' = <<>> /\ pendingEdges' = <<>>
  /\ wpc' = "phantoms"
  /\ UNCHANGED <<frozen, restTicks, mask, ranBH, held, pins, disabled, useBH,
                 running, dirty, bufferVars, renderVars, phantoms>>

NeverSkips == FALSE                                   \* mutant: no frozen ticks
SkipsIntegration == frozen /\ ~active /\ ~phantoms

\* A frozen tick that nothing perturbs ends here, without integrating.
SnapshotPhantoms ==
  /\ wpc = "phantoms"
  /\ active' = (active \/ phantoms)
  /\ wpc' = IF SkipsIntegration THEN "top" ELSE "mask"
  /\ UNCHANGED <<positions, edges, edgesDirty, frozen, restTicks, mask, ranBH,
                 held, requestVars, dirty, bufferVars, renderVars, phantoms>>

ReadDisabled ==
  /\ wpc = "mask"
  /\ mask' = disabled \cap (1..Len(positions))
  /\ wpc' = "integrate"
  /\ UNCHANGED <<positions, edges, edgesDirty, frozen, restTicks, active, ranBH,
                 held, requestVars, dirty, bufferVars, renderVars, phantoms>>

\* An edge is skipped, as a whole, unless both its ends are in the simulation.
InReach(e) == e[1] <= Len(positions) /\ e[2] <= Len(positions)

MovesAll == 1..Len(positions)                         \* mutant: ignores the mask
Movable == 1..Len(positions) \ mask

\* Tombstones keep their place; every other node may go anywhere.
Integrate ==
  /\ wpc = "integrate"
  /\ ranBH' = useBH
  /\ positions' \in {p \in [1..Len(positions) -> Places] :
                       \A i \in 1..Len(positions) \ Movable : p[i] = positions[i]}
  /\ wpc' = "pins"
  /\ UNCHANGED <<edges, edgesDirty, frozen, restTicks, active, mask, held,
                 requestVars, dirty, bufferVars, renderVars, phantoms>>

ReapplyPins ==
  /\ wpc = "pins"
  /\ held' = [i \in 1..MaxNodes |-> IF i <= Len(positions) THEN pins[i] ELSE NoPin]
  /\ positions' = [i \in 1..Len(positions) |->
                     IF pins[i] = NoPin THEN positions[i] ELSE pins[i]]
  /\ wpc' = "publish"
  /\ UNCHANGED <<edges, edgesDirty, frozen, restTicks, active, mask, ranBH,
                 requestVars, dirty, bufferVars, renderVars, phantoms>>

PublishPositions ==
  /\ wpc = "publish"
  /\ buf' = positions
  /\ wpc' = "account"
  /\ UNCHANGED <<positions, edges, edgesDirty, frozen, restTicks, active, mask,
                 ranBH, held, requestVars, dirty, bufEdges, renderVars, phantoms>>

\* mean_speed_squared is 0, hence below eps, when every node is held in place.
AllHeld == \A i \in 1..Len(positions) : i \in mask \/ held[i] # NoPin

EdgesKept == bufEdges                                 \* mutant: no republication
EdgesToShow == IF edgesDirty THEN edges ELSE bufEdges

\* set_edges, if a drain changed the edges, and the freeze accounting.
AccountRest ==
  /\ wpc = "account"
  /\ bufEdges' = EdgesToShow
  /\ edgesDirty' = FALSE
  /\ \/ active /\ frozen' = FALSE /\ restTicks' = 0
     \/ /\ ~active /\ FreezeAfter > 0           \* at rest
        /\ restTicks' = restTicks + 1
        /\ frozen' = (frozen \/ restTicks' >= FreezeAfter)
     \/ /\ ~active /\ (FreezeAfter = 0 \/ ~AllHeld)
        /\ restTicks' = 0 /\ UNCHANGED frozen
  /\ wpc' = "top"
  /\ UNCHANGED <<positions, edges, active, mask, ranBH, held, requestVars, dirty,
                 buf, renderVars, phantoms>>

Worker == BeginTick \/ ExitLoop \/ DrainPending \/ SnapshotPhantoms
          \/ ReadDisabled \/ Integrate \/ ReapplyPins \/ PublishPositions
          \/ AccountRest

------------------------------------------------------------------------------
(* The render thread: open_project, the mutators, the frame and stop().    *)

\* A mutator that has released its mutex goes on to store dirty_.
NoWake == "idle"                                      \* mutant: no dirty_ store
AfterUnlock == "wake"

\* open_project starts the worker before it pins the self node.
Start ==
  /\ rpc = "built"
  /\ running' = TRUE /\ wpc' = "top"
  /\ rpc' = "pinSelf"
  /\ UNCHANGED <<positions, edges, edgesDirty, frozen, restTicks, active, mask,
                 ranBH, held, pendingNodes, pendingEdges, pins, disabled, useBH,
                 dirty, bufferVars, nodes, view, timeline, cursor, phantoms>>

PinSelf ==
  /\ rpc = "pinSelf"
  /\ pins' = [pins EXCEPT ![Self] = SelfHome]
  /\ rpc' = AfterUnlock
  /\ UNCHANGED <<workerVars, pendingNodes, pendingEdges, disabled, useBH,
                 running, dirty, bufferVars, nodes, view, timeline, cursor, phantoms>>

\* The second half of every mutator.
StoreDirty ==
  /\ rpc = "wake"
  /\ dirty' = TRUE
  /\ rpc' = "idle"
  /\ UNCHANGED <<workerVars, requestVars, bufferVars, nodes, view, timeline,
                 cursor, phantoms>>

RenderFree == rpc = "idle" /\ cursor = 0

Queued(p) == Append(pendingNodes, p)

\* Session::append_node: the node is stored, then queued at its position.
EnqueueNode ==
  /\ RenderFree /\ nodes < MaxNodes
  /\ nodes' = nodes + 1
  /\ \E p \in Places : pendingNodes' = Queued(p)
  /\ rpc' = AfterUnlock
  /\ UNCHANGED <<workerVars, pendingEdges, pins, disabled, useBH, running, dirty,
                 bufferVars, view, timeline, cursor, phantoms>>

LinksAhead == EdgesAmong(MaxNodes)                    \* mutant: the edges before the node
Linkable == EdgesAmong(nodes)

\* An edge joins stored nodes, one of which may still be queued.
EnqueueEdge ==
  /\ RenderFree /\ Len(edges) + Len(pendingEdges) < MaxEdges
  /\ \E e \in Linkable : pendingEdges' = Append(pendingEdges, e)
  /\ rpc' = AfterUnlock
  /\ UNCHANGED <<workerVars, pendingNodes, pins, disabled, useBH, running, dirty,
                 bufferVars, nodes, view, timeline, cursor, phantoms>>

\* Deleting any node but self, one still queued included.
SetNodeDisabled ==
  /\ RenderFree
  /\ \E i \in 1..nodes \ (disabled \cup {Self}) : disabled' = disabled \cup {i}
  /\ rpc' = AfterUnlock
  /\ UNCHANGED <<workerVars, pendingNodes, pendingEdges, pins, useBH, running,
                 dirty, bufferVars, nodes, view, timeline, cursor, phantoms>>

\* The T key: one set_pin or clear_pin for each stored node.
ToggleTimeline ==
  /\ RenderFree
  /\ timeline' = ~timeline
  /\ cursor' = 1
  /\ UNCHANGED <<workerVars, requestVars, dirty, bufferVars, nodes, view, rpc, phantoms>>

NextNode == IF cursor = nodes THEN 0 ELSE cursor + 1

TimelinePin ==
  /\ rpc = "idle" /\ cursor > 0 /\ timeline
  /\ \E p \in Places : pins' = [pins EXCEPT ![cursor] = p]
  /\ cursor' = NextNode
  /\ rpc' = AfterUnlock
  /\ UNCHANGED <<workerVars, pendingNodes, pendingEdges, disabled, useBH,
                 running, dirty, bufferVars, nodes, view, timeline, phantoms>>

\* The self node is passed over: its pin stays.
TimelineClear ==
  /\ rpc = "idle" /\ cursor > 0 /\ ~timeline
  /\ IF cursor = Self
       THEN UNCHANGED <<pins, rpc>>
       ELSE pins' = [pins EXCEPT ![cursor] = NoPin] /\ rpc' = AfterUnlock
  /\ cursor' = NextNode
  /\ UNCHANGED <<workerVars, pendingNodes, pendingEdges, disabled, useBH,
                 running, dirty, bufferVars, nodes, view, timeline, phantoms>>

\* The Barnes-Hut checkbox: one atomic store and no dirty_.
SetUseBarnesHut ==
  /\ RenderFree
  /\ useBH' = ~useBH
  /\ UNCHANGED <<workerVars, pendingNodes, pendingEdges, pins, disabled, running,
                 dirty, bufferVars, renderVars, phantoms>>

\* The frame's GraphBuffer::snapshot.
SnapshotFrame ==
  /\ RenderFree
  /\ view' = Len(buf)
  /\ UNCHANGED <<workerVars, requestVars, dirty, bufferVars, nodes, timeline,
                 cursor, rpc, phantoms>>

\* stop(), on exit or before another project opens: the flag, then the join,
\* then the last snapshot, which is saved.
Stop ==
  /\ RenderFree
  /\ running' = FALSE
  /\ rpc' = "join"
  /\ UNCHANGED <<workerVars, pendingNodes, pendingEdges, pins, disabled, useBH,
                 dirty, bufferVars, nodes, view, timeline, cursor, phantoms>>

Join ==
  /\ rpc = "join" /\ wpc = "done"
  /\ rpc' = "joined"
  /\ UNCHANGED <<workerVars, requestVars, dirty, bufferVars, nodes, view,
                 timeline, cursor, phantoms>>

FinalSnapshot ==
  /\ rpc = "joined"
  /\ view' = Len(buf)
  /\ rpc' = "ended"
  /\ UNCHANGED <<workerVars, requestVars, dirty, bufferVars, nodes, timeline,
                 cursor, phantoms>>

InCall == Start \/ PinSelf \/ StoreDirty \/ TimelinePin \/ TimelineClear
          \/ Join \/ FinalSnapshot
Operator == EnqueueNode \/ EnqueueEdge \/ SetNodeDisabled \/ ToggleTimeline
            \/ SetUseBarnesHut \/ Stop

\* Telemetry adds phantoms, time and the operator remove them.
PhantomsChange ==
  /\ phantoms' = ~phantoms
  /\ UNCHANGED <<workerVars, requestVars, dirty, bufferVars, renderVars>>

Terminated == rpc = "ended" /\ UNCHANGED vars

Next == Worker \/ InCall \/ Operator \/ SnapshotFrame \/ PhantomsChange \/ Terminated

Spec == Init /\ [][Next]_vars

\* Both threads are scheduled; a call that has begun returns, frames go on.
\* The operator and the phantoms need do nothing.
Fairness == WF_vars(Worker) /\ WF_vars(InCall) /\ WF_vars(SnapshotFrame)
FairSpec == Spec /\ Fairness

------------------------------------------------------------------------------
(* Safety.                                                                 *)

\* Every stored node is either in the simulation or in the queue, so index i
\* of positions_, of the buffer and of stored_nodes is one node: append_node,
\* the drain and the snapshots keep id == index across both threads.
NodesAligned ==
  /\ Len(positions) + Len(pendingNodes) = nodes
  /\ view <= Len(buf) /\ Len(buf) <= Len(positions)

\* integrate_step skips no edge of this session: a node is enqueued before the edges
\* that touch it and both queues drain together.  Only an edge that the project was
\* loaded with may be an orphan (physics_thread.cpp:176-178).
EdgesInRange == /\ InitEdges <= Len(edges)
                /\ \A k \in InitEdges + 1..Len(edges) : InReach(edges[k])

\* Both: whatever the worker, the buffer, the frame or an edge made here indexes is in
\* range and is the node of that index in stored_nodes.
IndicesAligned == NodesAligned /\ EdgesInRange

\* No mutator is waiting for the worker's attention.
Unperturbed == ~dirty /\ rpc # "wake"

\* The last integration used everything the render thread has asked for.
LayoutCurrent ==
  /\ pendingNodes = <<>> /\ pendingEdges = <<>>
  /\ mask = disabled
  /\ held = pins

\* No lost wake-up: a layout that is frozen with no wake-up on its way has
\* applied every queued node and edge, every pin and every tombstone, and the
\* buffer shows it ("dirty_ wakes a frozen sim", physics_thread.cpp:46-48).
FrozenIsCurrent ==
  frozen /\ wpc = "top" /\ Unperturbed => LayoutCurrent /\ buf = positions
                                          /\ bufEdges = edges

\* What open_project and main save after stop(): the buffer's last snapshot is
\* the worker's last state, and the nodes it lacks are those never drained.
SavedLayoutIsLast ==
  rpc = "ended" => /\ buf = positions /\ bufEdges = edges
                   /\ view + Len(pendingNodes) = nodes

\* A tombstone that an integration has masked is masked for good, and no later
\* frame shows it anywhere else unless a pin holds it (physics_thread.h:102-105).
TombstonesRest ==
  [][/\ mask \subseteq mask'
     /\ \A i \in 1..Len(buf) : i \in mask /\ held[i] = NoPin => buf'[i] = buf[i]
    ]_<<mask, buf>>

------------------------------------------------------------------------------
(* The inductive invariant behind the safety properties.                   *)

\* Requests name stored nodes only, so a drain leaves none of them out of range.
RequestsStored ==
  /\ disabled \subseteq 1..nodes
  /\ \A i \in 1..MaxNodes : i > nodes => pins[i] = NoPin
  /\ \A k \in 1..Len(pendingEdges) :
       pendingEdges[k][1] <= nodes /\ pendingEdges[k][2] <= nodes
  /\ cursor <= nodes

\* Between ticks, and in a tick that has found nothing new, the buffer shows the
\* simulation.
BufferCurrent ==
  /\ edgesDirty \/ bufEdges = edges
  /\ wpc \in {"unborn", "top", "drain", "done"} => buf = positions /\ ~edgesDirty
  /\ wpc = "phantoms" /\ ~active => buf = positions /\ ~edgesDirty
  /\ wpc = "account" => buf = positions

\* A frozen worker integrates only when something perturbs the field, and a
\* worker that is awake has not counted up to the freeze.
FreezeCounted ==
  /\ wpc \in {"mask", "integrate", "pins", "publish", "account"} /\ frozen => active
  /\ frozen \/ restTicks = 0 \/ restTicks < FreezeAfter

\* While no wake-up is on its way, what the tick has read so far is what the
\* render thread wants; a frozen worker has read everything.
ReadsCurrent ==
  Unperturbed =>
    /\ frozen \/ wpc \in {"unborn", "top", "publish", "account"} =>
         LayoutCurrent
    /\ wpc \in {"phantoms", "mask", "integrate", "pins"} =>
         pendingNodes = <<>> /\ pendingEdges = <<>>
    /\ wpc \in {"integrate", "pins"} => mask = disabled

\* How the two threads' control points go together.
ThreadsInStep ==
  /\ wpc = "unborn" <=> rpc = "built"
  /\ rpc \in {"joined", "ended"} => wpc = "done"
  /\ rpc = "ended" => view = Len(buf)

\* The inductive invariant: everything FrozenIsCurrent and SavedLayoutIsLast rest on.
Inv == /\ TypeOK /\ NodesAligned /\ EdgesInRange /\ RequestsStored
       /\ BufferCurrent /\ FreezeCounted /\ ReadsCurrent /\ ThreadsInStep

\* The mask holds tombstones of nodes in the simulation, so no later read of
\* disabled_ drops one of them.
MaskLasts == mask \subseteq disabled /\ mask \subseteq 1..Len(positions)

\* A node of the buffer is where the simulation has it, until this tick's forces
\* or pins move it: a masked node waits for a pin, any other for Integrate.
MovedByTick(i) ==
  \/ wpc = "pins" /\ i \notin mask
  \/ wpc = "publish" /\ (i \notin mask \/ held[i] # NoPin)
BufferFollows == \A i \in 1..Len(buf) : MovedByTick(i) \/ buf[i] = positions[i]

\* What TombstonesRest rests on.
RestInv == Inv /\ MaskLasts /\ BufferFollows

------------------------------------------------------------------------------
(* The worker implements the abstract service.                             *)

LS == INSTANCE LayoutService WITH
  Edges <- Edge,
  wantNodes <- nodes, wantEdges <- edges \o pendingEdges,
  wantPins <- pins, wantDisabled <- disabled,
  seenNodes <- Len(positions), seenEdges <- edges,
  seenPins <- held, seenDisabled <- mask,
  settled <- frozen /\ Unperturbed

\* The dirty_ protocol refines a service whose every request is atomic with its
\* wake-up: the two-step mutators and the step-by-step tick never let the
\* worker pause with work outstanding.
ImplementsService == LS!Spec

------------------------------------------------------------------------------
(* Liveness, under FairSpec; stop() ends every obligation.                 *)

\* A node or an edge that was enqueued reaches the buffer.
EnqueuedIsShown ==
  /\ \A n \in 1..MaxNodes : (nodes >= n) ~> (Len(buf) >= n \/ ~running)
  /\ \A n \in 1..MaxEdges : (Len(edges) + Len(pendingEdges) >= n)
                             ~> (Len(bufEdges) >= n \/ ~running)

\* A pin that stays set is re-applied by every integration from some point on and
\* holds its node at the anchor in every frame, a frozen simulation included.
PinTakesHold ==
  \A i \in 1..MaxNodes, p \in Places :
    <>[](pins[i] = p /\ running) => <>[](held[i] = p /\ Len(buf) >= i /\ buf[i] = p)

\* A tombstone drops out of the force calculation.
TombstoneRetires == \A i \in 1..MaxNodes : (i \in disabled) ~> (i \in mask \/ ~running)

\* stop()'s join returns.
StopReturns == rpc = "join" ~> rpc = "ended"

\* When every node is held in place, no phantom lives and the operator is idle,
\* the worker freezes and stays frozen.
AtPeace == /\ RenderFree /\ running /\ ~phantoms
           /\ \A i \in 1..nodes : pins[i] # NoPin \/ i \in disabled
HeldLayoutFreezes == FreezeAfter > 0 /\ <>[]AtPeace => <>[]frozen

==============================================================================
