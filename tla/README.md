# TLA+ models of zoigraph

zoigraph is a desktop graph notebook: a 3D force layout of notes, fed with
"phantom" suggestions over UDP and kept in one SQLite file per project. This
directory holds TLA+ modules of its concurrent and durable parts and of some of
its algorithms, the TLC configurations that check them, and TLAPS proofs of all their
invariants and action properties and of the three refinements.
Line references are to `src/` of the repository (`session.cpp:61` is
`src/src/app/session.cpp`, line 61).

Run a configuration with `tlc -config PhysicsThread_safety.cfg MC_PhysicsThread`,
the proofs with `tlapm M.tla` for M in
`PhysicsThread_proofs`, `PhantomLifecycle_proofs`, `SessionStore_proofs`,
`AskBridge_proofs`, `Selection_proofs`, `EditSession_proofs`,
`GraphAlgorithms_proofs` and `Octree_proofs`. `PROJECT.json` lists runs, mutants (a
plausible bug per property that the property's run must catch), the map from
definitions to source lines, findings, hazards and theorems.

## The system

Four threads and the operator:

| part | state | operations | shared with |
|---|---|---|---|
| **render thread** (`main.cpp`, `app/hotkeys`, `ui/*`) | `Session`: stored_nodes, edges, positions, selection, self_idx; the frame's phantom snapshot, the spawn tracker | one frame after another: hotkeys, queries, snapshots, cross-project guard, lifecycle diff, pick, draw, one tab; exit or `/panic` | everything below |
| **layout worker** (`physics/physics_thread`) | positions_, edges_, frozen, rest ticks | run/step at 120 Hz (`target_hz`); enqueue_node, enqueue_edge, set_pin, clear_pin, set_node_disabled, set_use_barnes_hut, stop | `pending_mu_`, `pins_mu_`, `disabled_mu_`, the atomics `dirty_`, `running_`, `use_barnes_hut_` |
| **GraphBuffer** (`graph/graph_buffer`) | the published positions and edges | set_positions, set_edges, snapshot | worker writes, render thread reads |
| **telemetry thread** (`telemetry/telemetry_thread`) | a UDP socket | receive, parse, stamp, add | PhantomBuffer |
| **PhantomBuffer** (`telemetry/phantom_buffer`) | live phantoms | add, remove(id), clear, snapshot_and_expire | telemetry, worker and render thread |
| **query thread** (`telemetry/query_thread`, `app/query_responder`) | socket, inbox (256), outbox | poll, parse, push; drain, answer, send_reply | render thread |
| **LlmAsk** (`app/ask`) | state, message, a worker thread | start, run, snapshot, destructor | render thread; its subprocess answers over UDP |
| **session and files** (`app/session`, `persistence/*`) | the project's database, `.last`, the Session | open_project, append_node, row writes, save_graph, delete, wipe | file system |
| **edit session** (`ui/inspector_tab`) | text in memory, `pending_edit_*`, Dear ImGui's focused widget | typing, the flush with its touch-edge and wikilinks, save, add edge | render thread only; keys, picks and macros change the node under it |
| **macros** (`macros/*`, `ui/bones_panel`) | a path or a triple of node indices over several frames | rabbit hole, throw the bones | render thread only |
| **pure algorithms** (`graph/{ppr,cluster,picks,timeline,wikilinks}`, `app/promote`, `input/escape_wipe`, `physics/{forces,barnes_hut}`) | none, or a few timestamps | functions | — |

Hard parts, and what makes them correct:

* *Layout worker.* Every mutator is a change under one mutex and then an atomic
  store of `dirty_`; the tick reads its requests one lock at a time and pauses
  ("freezes") when nothing moves. Right when no wake-up is lost, node index i is
  the same node in four containers, and stop() leaves the last layout to save.
* *Phantoms.* Three threads touch one buffer, two of them expire it, and the
  frame acts on a snapshot. Right when the event table, which the project's
  behavioural metrics are computed from, tells each phantom's life once: a spawn,
  then exactly one pin or decay, in the project it was spawned in.
* *Files.* Each command changes memory and then makes one to four separate
  commits; save_graph rewrites the graph in one transaction; a fresh project's
  seed is not written until the first save. Right when a kill or a power loss
  leaves a graph that was once on screen and that open_project accepts.
* *Query channel.* Two queues, a frame between them, a client that sends once and
  gives up after a timeout; rebinding replaces the thread. Right when each
  request has at most one answer, none shows a tombstone, and the queues are bounded.
* *LlmAsk.* Single flight across a join; every exit must leave Thinking.
* *Macros and selection.* A path, a triple and an armed delete are kept over frames
  in which nodes are created and deleted and projects switched. Right when what is
  kept stays an index into the open project, a confirm button deletes what was
  armed, and a tombstone is neither chosen nor selected.

* *Edit session.* Text is in memory at every keystroke and in the file when the
  widget loses focus, which main, the camera's ride or a pin can cause behind the
  widget's back. Right when text that only memory has is about to be flushed, and a
  flush never links what is linked already.
* *Algorithms.* Pure, but their loops have early returns, caps and limits that
  ordinary graphs do not reach. Right when they stop for the documented reason with
  the documented result.

`PROJECT.json` lists the hazards of each at its line.

## Modules

| module | models |
|---|---|
| `LayoutService` | abstract: what the worker promises, without threads, locks or flags |
| `PhysicsThread` | the worker, GraphBuffer and the render thread's calls on them |
| `PhysicsThread_proofs` | TLAPS: the invariants and action properties of the run `physics_safety`, and that PhysicsThread implements LayoutService |
| `PhantomLifecycle` | a phantom from the datagram to the event table |
| `PhantomLifecycle_proofs` | TLAPS: all safety properties of the run `phantom_lifecycle` |
| `DurableGraph` | abstract: what the project files promise |
| `SessionStore` | commands, save, open, switch, delete, wipe, over files that can be cut short |
| `SessionStore_proofs` | TLAPS: all properties of the run `session_store`, with the refinement of DurableGraph |
| `ReadService` | abstract: what the query channel promises its clients |
| `QueryChannel` | socket thread, queues, the frame's answers, rebinding, clients |
| `AskBridge` | composes `QueryChannel` with LlmAsk, the bridge script and the phantom guard |
| `AskBridge_proofs` | TLAPS: all properties of the run `ask_channel`, with the refinement of ReadService |
| `Selection` | who is selected, the two macros and the armed delete, over the parts of a frame |
| `Selection_proofs` | TLAPS: all four properties of the run `selection` |
| `EditSession` | typing in the inspector and what changes the node under the widget |
| `EditSession_proofs` | TLAPS: all three properties of the run `edit_session` |
| `GraphAlgorithms` | label propagation, and who has a rank in personalised PageRank |
| `GraphAlgorithms_proofs` | TLAPS: both properties of it in the run `algorithms` |
| `Octree` | insertion into the Barnes-Hut octree, and whose push a force holds |
| `Octree_proofs` | TLAPS: that each push is felt once |
| `MC_*` | instances for TLC; `MC_Algorithms` runs GraphAlgorithms and Octree |

### PhysicsThread

`wpc` is the worker's place in run() and step(): one action per lock or atomic it
touches (`BeginTick`, `DrainPending`, `SnapshotPhantoms`, `ReadDisabled`,
`Integrate`, `ReapplyPins`, `PublishPositions`, `AccountRest`, `ExitLoop`). `rpc` is
the render thread's place in a call. A mutator is two actions, the change under the
mutex and `StoreDirty`, so the worker may run in between. `T` pins or releases one
node per step. integrate_step may move any node that is not tombstoned to any of
`Places`: forces are not modelled, only who may move and that a layout all of whose
nodes are held is at rest.

A project is opened with the edges of its file (physics_thread.cpp:16-30,
session.cpp:100-104), and some may be orphans, whose ends are past the nodes:
integrate_step skips them (physics_thread.cpp:176-184, `InReach`). `InitEdges` is their
number and `LoadableEdges` what they may be. An orphan comes into range when new nodes
take its index.

* `physics_safety` (2 places, 2 nodes, 1 loaded edge and 1 made later, freeze after 2
  ticks): `TypeOK`, `IndicesAligned` (node indices agree across the threads, and no
  edge made since the project was opened is ever one that integrate_step would skip),
  `FrozenIsCurrent` (no lost wake-up),
  `SavedLayoutIsLast`, `TombstonesRest`, the inductive `Inv`, and
  `ImplementsService`. One loaded node, one created, and one new edge are enough for
  an edge to a queued node, a tombstone of a queued node and a drain of several
  requests; the loaded edge is an orphan until the second node is drained, beside new
  edges that must not be; a freeze threshold of 2 tells counting from resetting.
* `physics_liveness` (1 place): `EnqueuedIsShown`, `PinTakesHold`,
  `TombstoneRetires`, `StopReturns`, `HeldLayoutFreezes`. Weak fairness on the
  worker's next step, on a call that has begun (a render-thread function returns)
  and on the frame's snapshot (frames go on); none on the operator or phantoms.

### PhantomLifecycle

`buffer` is PhantomBuffer, `snap` the frame's copy, `seen` main's spawn tracker,
`journal` the event rows in order (plus a row for each open). The frame is a
sequence: `Snapshot`, `DropForeign`, `NoticeProject`, `LogSpawn`/`LogDecay`,
`EndDiff`, `ClickPin`/`NoClick`, then one tab command. Between any two of them the
clock may tick, the telemetry thread may receive or add, and the layout worker may
expire. Senders may repeat ids and tag any project.

* `phantom_lifecycle` (2 ids, 2 projects, TTL 1, time 0..3, 2 phantoms, 1
  dismissal, 1 switch): `TypeOK` (with no stamp ahead of the one clock),
  `SeenMatchesJournal` (the tracker is the open spawns of the
  event table), `LivesAreAccounted` (no double spawn, no decay or pin of what is not
  spawned; a frame's click and command may pin the same phantom twice, which the
  property allows by name), `NothingForeign`, `PhantomsLeave`. Two phantoms are
  enough for one id to be used twice, for one of each project, and for one to arrive
  while the other expires; one switch crosses projects, and phantoms in flight
  during it land in the other. Fairness: frames, time and an add that has begun.
  A phantom arrives only when the clock's bound leaves it time to expire.

### SessionStore

A project's file is the sequence of images it may be found with after a loss of
power: WAL with synchronous=NORMAL may lose the newest commits back to the last
checkpoint. The last image is the current one. A command changes memory and leaves
its row writes in `todo`, committed one at a time (`CommitWrite`); save_graph is
`BeginSave` (the deletes), `SaveRows`, `CommitSave`. `Kill` empties memory and rolls
the transaction back; `PowerLoss` also cuts every file to a prefix. `Load` takes the
graph or, from an empty table, the seed, which stays in memory. Ids count from 1.

* `session_store` (projects A and B, B not existing yet and only opened and closed,
  1 seed node, 2 nodes, 2 edges, 2 kinds, 1 commit not yet checkpointed):
  `WriteThrough` (between commands the database is what is on screen),
  `InsertFits` (no insert meets its id), `EventsNameRows` (whatever is lost, the event
  of a pin names a row, the event of a deletion a tombstone), `ImplementsDurableGraph`.
  Kinds are interchangeable and declared symmetric. Two nodes suffice for a new node beside the seed, its edges and
  its tombstone; A itself becomes fresh when it is deleted and recreated. A phantom
  with two live targets needs three nodes and is not met; two edges in one command
  are, in a journal entry. With one loose commit a loss of power takes back one
  commit; every image is checked on its own, so longer losses end in images
  that were checked when they were made.
  An event row keeps whether the graph had been saved as a whole when it was inserted
  (`EventRow`), because log_event inserts whatever the node table has (db.cpp:590-616).
  The one exception of `EventsNameRows` is the deletion of a seed node that is in memory
  only, which is logged and not persisted. The run's single seed node is self, which
  cannot be deleted, so it meets pins and deletions of added nodes before the first
  save and not the exception. The theorem covers every seed; and TLC finds no error in
  the invariants of this run with Projects = Fresh = {A}, one kind, SeedSize = 2,
  MaxNodes = 3, MaxEdges = 0 and MaxLoose = 2 either (3,788,774 states, under a minute).
* `store_fresh_project` (expected violation): session.cpp:61-73 refuses files that
  were "likely edited externally"; a fresh project killed after its first new node
  is such a file, and .last already names it.
* `store_tombstones` (expected violation): physics_thread.h:101-104 says a tombstone
  exerts no force and is permanent; open_project does not tell the new worker.

### QueryChannel and AskBridge

`thread` is the socket thread's place in run(): `Bind`, then `Flush` and `Receive` or
`PollTimesOut` in turn, `ExitLoop`. A request is in one of `kernel`, `inbox` and
`batch`, its reply in `outbox` or the client's `mail`. The frame drains, answers one
request per step, and runs one command: none, a deletion, a project switch, /set
qport (`MoveChannel` joins, `StartNewThread` has queues of its own), an ask, exit.
Clients send one datagram and wait; tools may send anything well- or ill-formed with or
without the token. `AskBridge` adds `state` (LlmAsk's), `work` (the worker thread and
the script it runs), the prompt's `context`, and phantoms on their way. Abstracted:
which live nodes PageRank ranks first or search finds (any), the token file (always
written), reply size (one datagram), loss (loopback delivers to a bound socket). The
script always uses its own default port, 7778; the model starts the channel on that port,
as the settings do unless the operator has saved another.

* `ask_channel` (projects A, B; 2 node ids; one script, one tool; inbox of 1; one
  move, switch and deletion per project): `AskTypeOK` with the inbox's limit,
  `OneCopy`, `JoinIsFast`, `PromptHasNoTombstones`, `ImplementsReadService`. Two
  clients fill an inbox of one; a second node is what a prompt can leak after the
  first is deleted. Script and tools are interchangeable among themselves, so are
  nodes.
* `ask_liveness` (one project and node, inbox of 2, one move, one deletion):
  `AcceptedIsAnswered`, `AskEnds`, `QuitEnds`. An inbox of two lets a refused request
  come before an accepted one in a batch. Weak fairness on the socket thread (it
  polls 100 ms at most), the frame (frames go on) and the worker (probe, query and
  model calls all have timeouts); none on operator, tools or phantoms.
* `ask_wrong_graph` (expected violation): llm_phantom.py:769-772 and main.cpp:299-303
  say the guard keeps edges of another project's graph out; the answer comes from the
  project open at that frame, whatever the tag says.

### Selection

A step is one part of a frame, in main's order: `Keys` (H, B), `Macros` (a ride leads
the camera, and only without one the bones' flight), `Pick` (the positions' snapshot
and a click), `Tab` (at most one command of the tab on show), `Panel` (a row or
"throw again"). `size` and `dead` are each project's nodes and tombstones by index,
`shown` the positions of the snapshot, which grow some frames after the nodes.
Abstracted: edges and titles, so a hop, a triple, a click or a hit is any that the
code's filters let through; the camera; time, so a frame may complete any number of
a ride's segments or the bones' flight. Self is index 0 of each project.

* `selection` (at most 4 nodes, one deletion per project, two switches, rides of two
  hops): `TypeOK` with the bound of a ride's segment, `IndicesInRange`,
  `DeletesWhatWasArmed`, `OnlyMacrosSelectTombstones`.

a has 4 nodes and b has 3, so an index of a can be out of range in b and growth of b
can catch up with it; a triple of a keeps one node out. One deletion per project is
enough for a tombstone on a path, in a triple, under an armed button; two switches
for leaving a project and coming back to what was armed there. A project deleted and
recreated under its name is not modelled. Two hops let a frame
end a segment, skip one, or end the ride.

Properties that hold only for a project saved at least once as a whole say so
(`whole`, `NoGraph`): before that the first finding applies.

### EditSession

A frame is three steps: what main does before the tabs (`NoChange`, `StartRide`,
`EndRide`, `PickNode`, `PickPhantom`), the text widget (`DrawWidget`, `NotDrawn`), and
the rest of the tabs (`NoButton`, `GoElsewhere`, `SaveToDisk`, `AddEdge`,
`SwitchProject`). `Crash` may come between any two. Title and content are one text, and of
a text only matters whether the file has it: `unsaved` are the nodes whose text it
does not have. `pending` is pending_edit_project and _id. `abandoned` is history: the
nodes whose session ended without the flush that inspector_tab.cpp:158-162 promises.
A session is abandoned in two ways only, and both are in the code: another node is
typed on under the same focused widget, which overwrites pending_edit_id, or the
widget is not drawn for so long that nothing can report its end. `Answers` is the
contract with Dear ImGui, which is not in the repository: what a call of the widget
may return (changed, deactivated after edit) given whether it was focused, edited,
drawn in the last frame, and the mouse pressed.

* `edit_session` (projects a and b with 2 nodes, one more by a pin, 2 edges, 2
  switches or crashes): `TypeOK`, `UnsavedIsKnown` (what a crash would lose),
  `JoinsTheUnjoined` (two nodes are never joined both ways; edges are a set, so a second
  edge in the same direction is not seen). Two nodes are enough for
  typing on one and flushing on the other; the third is a node without a place, which
  hides the widget. Two switches leave a project with an edit pending and come back
  to it. Two edges let a flush meet an edge it must not add from either side, and a
  touch-edge may pass the bound, which stops only wikilinks, pins and the list.

The tier and tag widgets, which write on each change, and the edge-label widget, which
writes at the end of its focus (inspector_tab.cpp:401-409), are left out, as is Escape,
which reverts the text.

### GraphAlgorithms and Octree

One call per behaviour, on any input within the bounds. A step is one node of a
sweep or one iteration in GraphAlgorithms, one pending call of the recursive insert
or force_from_cell in Octree, whose pending calls are a sequence. PageRank is
abstracted to who has a positive rank. A position is the octant it falls in at each
depth, theta is abstracted to any choice of the cells that count as far (it takes in
every theta and every layout), a force to how often it holds each particle's push.

* `algorithms` (every graph of 4 nodes with 0 to 2 edges between each two and any
  tombstones, 3 sweeps, 2 iterations; 4 particles in 2 octants, depth limit 2):
  `ResultsRight` (clusters are within components and settled unless the cap was hit;
  the ranked are those within `iterations` hops), `RelabelRises` (why sweeps end),
  `FeltOnce` (each particle's push is felt once). Doubled edges make majorities and ties;
  3 sweeps meet both the cap and the fixed point; 2 iterations are fewer than the
  longest path of 4 nodes. The code's 8 octants and depth 30 change how far particles
  are told apart, not the case distinctions: 2 octants and depth 2 have empty, held,
  split and too deep leaves, and particles that part at each depth or never. 4
  particles let three crowd and one stay out.

Deadlock is not checked in this run: a call returns.

## What is proved

`PhysicsThread_proofs` proves, for every number of nodes and edges, every set of
places, every freeze threshold and any loaded edges, orphans or not, `Spec => []Inv` (`InvHolds`) and from it
`TypeCorrect`, `IndicesAgree`, `NoLostWakeUp` (FrozenIsCurrent) and `SavedIsLast`.
The assumptions are the module's: at least one loaded node, Self among them,
naturals for the bounds, no more loaded edges than edges, NoPin not a place.

FrozenIsCurrent is not inductive: the worker that froze may have read its requests
several steps ago. `Inv` adds what the tick has read so far: `ReadsCurrent` (while
no wake-up is on its way, what was read is what is wanted, and a frozen worker has
read everything), `BufferCurrent` (when the buffer shows the simulation),
`FreezeCounted` (a frozen worker integrates only when something is active),
`RequestsStored` (requests name stored nodes) and `ThreadsInStep`. There is one
lemma per action that disturbs several conjuncts, and `InvInductive` collects them.

`TombstonesStay` (TombstonesRest: a tombstone moves only to its pin) rests on `Inv` and
a second invariant, `RestInv`: the disabled nodes that the tick works with are among
those the operator disabled and the worker has drained (`MaskLasts`), and the buffer
shows the simulation but for what this tick moved (`BufferFollows`), so that a publish
late in a tick moves no node that was disabled before it.

`Refinement` is `Spec => LS!Spec`: a drain is TakeGraph, the mask
is TakeDisabled, the pins TakePins, the accounting Settle, a mutator's first half the
request; `settled` is `frozen /\ Unperturbed`, so the interval between a mutation
and its `dirty_` store is not settled.

`PhantomLifecycle_proofs` proves `Spec => []PhantomInv`, for any ids, projects, times
and bounds, and from it `PhantomTypeCorrect`, `TrackerIsJournal` (SeenMatchesJournal),
`ForeignStaysOut` (NothingForeign) and, as an action property, `LivesAccounted`
(LivesAreAccounted). The module's assumptions are that times and bounds are naturals and the marks for
"absent" and "untagged" are no time and no project. SeenMatchesJournal is not inductive:
it reads the last row of an id, so `HistoriesEnd` says that a history has a last
row, and `GuardPassed` that from the diff to the tab the tracker is the project's and
no phantom of the snapshot is foreign, which is what the order of guard, notice and diff
in a frame is for (guard main.cpp:299-324, notice 326-338, diff 342-371). LivesAreAccounted also needs `SnapTracked`: after
the diff each phantom of the snapshot is tracked, or was just pinned by the click.

`SessionStore_proofs` proves `Spec => []StoreInv` (`StoreInvariant`), for any projects
and bounds, any seed that fits and any number of commits that a loss of power may take
back, and from it `StoreTypeCorrect`, `DatabaseIsScreen` (WriteThrough), `InsertsFit`
(InsertFits) and `EventsNamed` (EventsNameRows, with its exception). The assumptions: the default project is a project, the seed has a node
and fits, `MaxLoose` leaves room for one commit not yet checkpointed, NoTxn is no image,
Nobody, "stay" and "exit" are no projects, and the bounds are naturals. None of the three is inductive:
in the middle of a command memory is ahead of the file by the writes in `todo`, so
`WritesOK` says for each kind of command which rows the file still lacks (`Appending`:
the new node, its last edges, its event) or has an old column of (`Retiering`,
`Rekinding`, `Deleting`). `ImagesOK` says what every image that a loss of power can bring
back keeps to: ids without a gap and no edge out of range once it was saved as a whole,
none of the seed's rows before, and events that name rows. `Holds` compares a file with
the memory in both cases, because the first save_graph makes a whole image out of the
events logged before it and the memory's nodes.
`MemoryOK`, `ControlOK` and `SavingOK` say what is loaded, what runs alone, and
what a transaction holds. `FilesAreDurable` proves that the files implement
DurableGraph: a row write or the end of save_graph is one Commit, opening a missing file
a Create, and Checkpoint, Remove and LosePower are themselves; everything else stutters.

`AskBridge_proofs` proves, for any projects, nodes, scripts, tools, ports and limits,
`AskSpec => []AskInv` (`AskInvHolds`) and from it `AskTypeCorrect` (with the limit of
the inbox), `ClickNeverWaits` (JoinIsFast) and `PromptsAreClean`
(PromptHasNoTombstones). The assumptions are the modules': the home project and the
port of launch are among the projects and ports, Unbound is no port, the tokens
differ, scripts are clients, and the bounds are naturals. PromptHasNoTombstones is not inductive: it speaks of
the prompt, and the nodes come to it from a reply. `AskInv` follows them back:
`PromptClean` (the prompt), `AnswersClean` (replies and mail for a client that has
called hold nothing that was a tombstone at its call), `JobKept` (while an ask runs,
the tombstones it began with are still tombstones, which only grow), `IdleUnseen`
(nothing of a client is in the channel before its call, so whatever reaches it was
answered afterwards), and `ResultPublished` (a worker with no result yet has state
Thinking, and a click that went past the single-flight guard found it done).

`OneCopyHolds` proves `AskSpec => []OneCopy` on top of AskInv, by
counting: each step moves a client's one datagram or reply between kernel, inbox,
batch, outbox and mail or drops it, and IdleUnseen makes the count zero before the
call that makes the first. The lemmas count what Append, Tail and a flush do to the
places of a client in a queue.

`ChannelIsReadService` proves `AskSpec => ImplementsReadService`, from AskInv, OneCopy and
`QueuesScreened` (what waits in an inbox or a batch was parsed): the step of
answer_query is Answer, with the live graph of that moment, a command of the operator
is Edit, a client's datagram Call, and a request or reply that is dropped, refused,
timed out or lost with its thread Lapse. OneCopy is what makes the abstract reply of a
client well-defined.

`Selection_proofs` proves `Spec => []SelInv` (`SelInvHolds`), for any projects loaded
with at least three nodes, any bounds and any length of a ride, and from it
`SelTypeCorrect`, `KeptIndicesInRange` (IndicesInRange), `TombstonesByMacrosOnly`
(OnlyMacrosSelectTombstones) and `DeletesTheArmed` (DeletesWhatWasArmed). `SelInv` is
TypeOK, IndicesInRange and `DeadAreStored`, that only stored nodes are tombstones:
without it a new node, which its command may select, could take a tombstone's index.

`EditSession_proofs` proves `Spec => []EditInv` (`Invariance`), for any projects, sizes
and bounds, and from it `EditTypeCorrect`, `UnsavedKnown` (UnsavedIsKnown) and
`JoinedOneWay` (JoinsTheUnjoined). The assumptions: the home project is a project,
projects start with at least one node and at most MaxNodes, NoWidget and NoEdit are
no widget and no edit. UnsavedIsKnown is not inductive: that some edit is pending
does not make its flush come. `EditInv` adds `SessionOpen` (the widget was edited, so
the end of its focus will be reported) and `PendingStored` (the pending node is one
its project has, so the bound check before the flush, inspector_tab.cpp:195-196,
never fails). `JoinedOneWay` also needs that edges are between stored nodes: it is
why a pinned node's edges meet no reverse edge, although pin_phantom looks for none.

`GraphAlgorithms_proofs` proves `GraphSpec => []GraphInv`, for any graph, tombstones and
caps, and from it `ResultsAreRight` (ResultsRight) and `RelabellingRises` (RelabelRises).
ResultsRight speaks of what is returned; `GraphInv` says how it comes about:
`LabelsStay` (every set closed under the edges that has a node has its label),
`SweepSettles` (a sweep without a change so far has left settled nodes behind it) and
`RankedInHops` (the ranked nodes are those within as many hops as iterations were
made; a path of one hop more is a path and a neighbour, so no induction over paths
is needed). RelabelRises is a count: the live edges that agree are those of the
relabelled node, which are the votes for its label, and the others, which do not change.
That is why Votes and Agreement count `LiveEdges`, the adjacency lists as a set of edges.

`Octree_proofs` proves `OctreeSpec => []OctreeInv`, for any number of particles, any
positions, fan and depth limit, and from it `EachFeltOnce` (FeltOnce), whichever cells
count as far. The recursion is in the stack of pending calls, so no induction over the tree is
needed. `TreeOK`: an inserted particle has one pending call (`CallsOK`) or one leaf
(`LeavesOK`), or the cell at the depth limit that it falls in is split (`NoneLost`); all
cells around a leaf or a call are split, and a cell is split only because two
particles came to it (`SplitsOK`), which makes a dropped particle a crowded one.
`ForceOK`: a particle with a leaf was felt, or exactly one pending visit is of a cell
above its leaf; opening a cell hands it to exactly one octant.

GraphSpec and OctreeSpec are the two halves of `MC_Algorithms`, which runs one or the
other.

Out of the prover's reach, and checked by TLC only: liveness (fairness and ENABLED),
which is PhantomsLeave and all properties of `physics_liveness` and `ask_liveness`. The
expected violations are TLC's too. All other properties of the passing runs are proved.

## Not modelled yet, and the plan

In order of weight:

1. More of `Selection`: that the selection is live (db.h:23 "renderer + inspector skip
   these", db.cpp:624-628), which the end of a ride and the rows of an old throw
   break; what commands then do to a selected tombstone (a second node_delete row in
   inspector_tab.cpp:311, a journal link in toolbar_tab.cpp:192, wikilinks);
   timeline mode and nodes created in it; that a ride ends.
2. More of `EditSession`: Escape's revert, the tag and tier widgets, and the text that
   a hidden widget keeps (below).
3. More algorithms: EscapeWipe, timeline columns, wikilink extraction, and the weakly
   connected triple, each against a reference definition over bounded inputs.
4. Proofs: of what items 1 to 3 add. That label propagation and a walk end is
   not a theorem: RelabelRises is the step of the argument, the rest is liveness.

Disagreements met on the way, read in the code and without a run:

* physics_thread.h:107 says that set_use_barnes_hut "takes effect on the next tick",
  but it wakes no frozen worker.
* README.md:233 says that phantom_decay is "TTL expired without a pin", but the
  cross-project guard removes by id (main.cpp:320), so it can take a phantom of the
  active project early.
* query_protocol.h:14-17 promises a diagnostic for malformed requests, but
  parse_query drops their token and the gate (query_responder.cpp:57) silences them.
* hotkeys.cpp:42 says tombstoned nodes must stay out of the bones triple, but "throw
  again" (bones_panel.cpp:61) passes no mask.
* barnes_hut.h:13-14 says that theta = 0 is the naive loop, and barnes_hut.cpp:11 that
  the depth limit drops the excess of coincident particles, but of two particles that
  fall in one cell at the limit both are dropped: they push nobody. `FeltOnce` says so.
* ppr.h:23-25 says a rank is positive for exactly what can be reached; it is for what
  can be reached within `iterations` hops. `ResultsRight` says so.
* inspector_tab.cpp:158-172 promises one flush per session, to the node that was typed
  on. A ride that ends while the widget has the focus lets the next keystroke re-key
  the pending edit, and the earlier node's text waits for the next save; a pin hides
  the widget for a frame or more. These are the `abandoned` nodes of `EditSession`.
* inspector_tab.cpp:294-297 says that clicking another node must disarm the delete
  button, but going from A to B and back to A finds it armed.
* inspector_tab.cpp:286-287 says that a delete "Sets the tombstone flag, persists, logs a
  node_delete event". Of a seed node of a project not yet saved it persists nothing: the
  UPDATE of mark_deleted finds no row (db.cpp:435-448), the event is inserted, and after a
  kill the node is there again, alive.
* A connection to a node that was stored this frame is dropped by pin.cpp:30, because
  the bound is the frame's positions, which the worker publishes later.

Hazards that the models contain and no property rules out, because the code does them
and nothing written says what should hold instead: a phantom removed by id without a
spawn row or with an early decay, a click and a /pin of one phantom in one frame, the
kinds of parallel edges after update_edge, and a tombstone selected by a row of "throw
again". Each has its note in `PROJECT.json`.

Also not composed: /panic while an ask runs (main.cpp:489); the worker is joined
after the wipe, and its subprocess may still hold the project's files.

Not planned: rendering (reads state only), floating-point forces (PhysicsThread
takes any movement), text, tags, the FTS index and schema migration (data the
properties do not tell apart), SQLITE_BUSY and full disks (an exception out of the
frame), a file half overwritten by a killed wipe (counted as gone), scripts other
than the emitter, and third-party libraries.
