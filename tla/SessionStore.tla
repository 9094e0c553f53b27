----------------------------- MODULE SessionStore -----------------------------
(***************************************************************************)
(* A session over its project files (app/session.cpp, persistence/db.cpp,  *)
(* persistence/project_store.cpp): opening, seeding and switching          *)
(* projects, the commands that write the graph row by row, save_graph's    *)
(* transaction, deletion and the panic wipe, with the process killed or    *)
(* the power lost between any two writes.                                  *)
(*                                                                         *)
(* A file is the sequence of images its database may be found with after a *)
(* loss of power: WAL with synchronous=NORMAL may lose the last commits,   *)
(* never one of the middle, back to the last checkpoint.  The last image   *)
(* is the current one.                                                     *)
(*                                                                         *)
(* A command changes the memory first; the database writes it makes are    *)
(* then committed one by one, from todo.  Ids count from 1, so memory's    *)
(* nodes are a sequence and a table of nodes is a function on its ids.     *)
(***************************************************************************)
EXTENDS Naturals, Sequences, FiniteSets

CONSTANTS
  Projects,   \* project names
  Default,    \* the project opened when .last is missing
  Fresh,      \* the projects that do not exist at the start
  Idle,       \* bound: the projects the operator only opens and closes
  Nobody,     \* no victim, no self node
  NoTxn,      \* no transaction is open
  Kinds,      \* edge kinds
  SeedSize,   \* nodes of make_initial_graph, the first of them self
  MaxNodes,   \* bound on the nodes of a project
  MaxEdges,   \* bound on the edges of a project
  MaxProposed, \* bound on the connections of a phantom
  MaxLoose    \* bound on the commits, over all files, not yet checkpointed

ASSUME ProjectsAssumption == Default \in Projects /\ Fresh \subseteq Projects
                             /\ Idle \subseteq Projects /\ Nobody \notin Projects
                             /\ {"stay", "exit"} \cap Projects = {}
ASSUME SeedAssumption == SeedSize \in Nat \ {0} /\ MaxNodes \in Nat /\ SeedSize <= MaxNodes
ASSUME BoundsAssumption == MaxEdges \in Nat /\ MaxProposed \in Nat /\ MaxLoose \in Nat \ {0}

VARIABLES
  files,     \* project -> the images its file may be found with
  last,      \* the .last marker
  app,       \* what the process is doing
  project,   \* Session::current_project
  nodes,     \* Session::stored_nodes
  edges,     \* Session::edges
  selfIdx,   \* Session::self_idx
  disabled,  \* PhysicsThread::disabled_
  todo,      \* the writes the current call has still to make
  txn,       \* save_graph's uncommitted image
  goal,      \* where open_project goes when the save is done
  victim     \* the project to delete when it has gone there

memory == <<project, nodes, edges, selfIdx, disabled>>
vars == <<files, last, app, memory, todo, txn, goal, victim>>

Node == [self : BOOLEAN, deleted : BOOLEAN]
Edge == [ends : (1..MaxNodes) \X (1..MaxNodes), kind : Kinds]
Event == {"phantom_pin", "node_delete"} \X (1..MaxNodes)
\* An event row, and whether the graph had been saved as a whole when it was inserted.
EventRow == Event \X BOOLEAN
App == {"down", "opening", "up", "saving", "wiping"}
Goal == {"stay", "exit"} \cup Projects

\* whole records that save_graph has put the entire graph in the table.
Image == [nodes : UNION {[ids -> Node] : ids \in SUBSET (1..MaxNodes)},
          edges : Seq(Edge), events : SUBSET EventRow, whole : BOOLEAN]
ASSUME NoTxnAssumption == NoTxn \notin Image

\* The writes of a command, by the function of db.h that makes them.
Writes == ({"insert_node"} \X (1..MaxNodes) \X Node) \cup ({"insert_edge"} \X Edge)
          \cup ({"mark_deleted"} \X (1..MaxNodes))
          \cup ({"update_tier"} \X (1..MaxNodes) \X BOOLEAN)
          \cup ({"update_edge"} \X ((1..MaxNodes) \X (1..MaxNodes)) \X Kinds)
          \cup ({"log_event"} \X Event)

TypeOK ==
  /\ files \in [Projects -> Seq(Image)]
  /\ last \in Projects /\ project \in Projects /\ app \in App
  /\ nodes \in Seq(Node) /\ Len(nodes) <= MaxNodes
  /\ edges \in Seq(Edge)
  /\ selfIdx \in (1..MaxNodes) \cup {Nobody} /\ disabled \subseteq 1..MaxNodes
  /\ todo \in Seq(Writes) /\ txn \in Image \cup {NoTxn}
  /\ goal \in Goal /\ victim \in Projects \cup {Nobody}

Final(s) == s[Len(s)]
Seed == [i \in 1..SeedSize |-> [self |-> i = 1, deleted |-> FALSE]]
EmptyImage == [nodes |-> <<>>, edges |-> <<>>, events |-> {}, whole |-> FALSE]
SavedSeed == [EmptyImage EXCEPT !.nodes = Seed, !.whole = TRUE]

Init ==
  /\ files = [p \in Projects |-> IF p \in Fresh THEN <<>> ELSE <<SavedSeed>>]
  /\ last \in Projects
  /\ app = "down" /\ project = last
  /\ nodes = <<>> /\ edges = <<>> /\ selfIdx = Nobody /\ disabled = {}
  /\ todo = <<>> /\ txn = NoTxn /\ goal = "stay" /\ victim = Nobody

------------------------------------------------------------------------------
(* The writes of persistence/db.cpp.  An UPDATE of a missing row is none.  *)

InsertNode(img, i, row) ==
  [img EXCEPT !.nodes = [j \in DOMAIN @ \cup {i} |-> IF j = i THEN row ELSE @[j]]]
InsertEdge(img, e) == [img EXCEPT !.edges = Append(@, e)]
MarkDeleted(img, i) ==
  [img EXCEPT !.nodes = [j \in DOMAIN @ |-> IF j = i THEN [@[j] EXCEPT !.deleted = TRUE]
                                                     ELSE @[j]]]
UpdateTier(img, i, self) ==
  [img EXCEPT !.nodes = [j \in DOMAIN @ |-> IF j = i THEN [@[j] EXCEPT !.self = self]
                                                     ELSE @[j]]]
\* Every row with these ends is updated, parallel edges included.
UpdateEdge(img, ends, kind) ==
  [img EXCEPT !.edges = [k \in DOMAIN @ |-> IF @[k].ends = ends THEN [@[k] EXCEPT !.kind = kind]
                                                              ELSE @[k]]]
LogEvent(img, e) == [img EXCEPT !.events = @ \cup {<<e, img.whole>>}]

Write(img, w) ==
  CASE w[1] = "insert_node" -> InsertNode(img, w[2], w[3])
    [] w[1] = "insert_edge" -> InsertEdge(img, w[2])
    [] w[1] = "mark_deleted" -> MarkDeleted(img, w[2])
    [] w[1] = "update_tier" -> UpdateTier(img, w[2], w[3])
    [] w[1] = "update_edge" -> UpdateEdge(img, w[2], w[3])
    [] w[1] = "log_event" -> LogEvent(img, w[2])

Loose == {pk \in Projects \X (2..MaxLoose + 1) : pk[2] <= Len(files[pk[1]])}
Room == Cardinality(Loose) < MaxLoose
Committed(img) == [files EXCEPT ![project] = Append(@, img)]

\* The next write of the current call, committed on its own.
CommitWrite ==
  /\ app = "up" /\ todo # <<>> /\ Room
  /\ files' = Committed(Write(Final(files[project]), Head(todo)))
  /\ todo' = Tail(todo)
  /\ UNCHANGED <<last, app, memory, txn, goal, victim>>

\* SQLite moves the log into the database file, when a commit fills it or later.
Checkpoint ==
  /\ txn = NoTxn
  /\ \E p \in Projects :
       Len(files[p]) > 1 /\ files' = [files EXCEPT ![p] = <<Final(@)>>]
  /\ UNCHANGED <<last, app, memory, todo, txn, goal, victim>>

------------------------------------------------------------------------------
(* The operator's commands on the graph.                                   *)

Free == app = "up" /\ todo = <<>> /\ victim = Nobody
Editing == Free /\ project \notin Idle
AliveNodes == {i \in 1..Len(nodes) : ~nodes[i].deleted}
Others == <<project, selfIdx>>

EdgesFirst(i, row, es) ==                             \* mutant: edges before the node
  [k \in 1..Len(es) |-> <<"insert_edge", es[k]>>] \o <<<<"insert_node", i, row>>>>
NodeFirst(i, row, es) ==
  <<<<"insert_node", i, row>>>> \o [k \in 1..Len(es) |-> <<"insert_edge", es[k]>>]

\* append_node and the edges that go with it, given their ends.
NextLiveId == Cardinality(AliveNodes) + 1             \* mutant: tombstones not counted
NewId == Len(nodes) + 1
AppendNode(ends, events) ==
  \E kind \in Kinds :
    LET row == [self |-> FALSE, deleted |-> FALSE]
        es == [k \in 1..Len(ends) |-> [ends |-> ends[k], kind |-> kind]]
    IN /\ Editing /\ NewId <= MaxNodes /\ Len(edges) + Len(es) <= MaxEdges
       /\ nodes' = Append(nodes, row)
       /\ edges' = edges \o es
       /\ todo' = NodeFirst(NewId, row, es) \o events
       /\ UNCHANGED <<files, last, app, Others, disabled, txn, goal, victim>>

AppendLinked(n, events) ==
  \E to \in [1..n -> AliveNodes] :
    /\ \A j, k \in 1..n : j # k => to[j] # to[k]
    /\ AppendNode([k \in 1..n |-> <<NewId, to[k]>>], events)

\* The toolbar and /node, with an edge to a live node or without.
CreateNode == \E n \in 0..1 : AppendLinked(n, <<>>)

\* pin_phantom: edges to the live nodes it proposes, then the event.
PinPhantom == \E n \in 0..MaxProposed :
                AppendLinked(n, <<<<"log_event", <<"phantom_pin", NewId>>>>>>)

\* A journal entry: an edge from self, and one to the selection, whatever it is.
FromSelf == IF selfIdx = Nobody THEN <<>> ELSE <<<<selfIdx, NewId>>>>
AboutNodes == {<<<<NewId, a>>>> : a \in 1..Len(nodes)}
Journal == \E about \in {<<>>} \cup AboutNodes : AppendNode(FromSelf \o about, <<>>)

\* /edge checks neither direction nor duplicates; wikilinks, touch-edges and the
\* inspector do.
CreateEdge ==
  /\ Editing /\ Len(edges) < MaxEdges
  /\ \E a, b \in 1..Len(nodes), kind \in Kinds :
       LET e == [ends |-> <<a, b>>, kind |-> kind]
       IN a # b /\ edges' = Append(edges, e) /\ todo' = <<<<"insert_edge", e>>>>
  /\ UNCHANGED <<files, last, app, nodes, Others, disabled, txn, goal, victim>>

EditEdge ==
  /\ Editing
  /\ \E k \in 1..Len(edges), kind \in Kinds :
       /\ kind # edges[k].kind
       /\ edges' = [edges EXCEPT ![k].kind = kind]
       /\ todo' = <<<<"update_edge", edges[k].ends, kind>>>>
  /\ UNCHANGED <<files, last, app, nodes, Others, disabled, txn, goal, victim>>

\* The inspector's combo offers "self" and changes the self node too.
SetTier ==
  /\ Editing
  /\ \E i \in 1..Len(nodes), self \in BOOLEAN :
       /\ nodes[i].self # self
       /\ nodes' = [nodes EXCEPT ![i].self = self]
       /\ todo' = <<<<"update_tier", i, self>>>>
  /\ UNCHANGED <<files, last, app, edges, Others, disabled, txn, goal, victim>>

DeleteWithoutRow(i) == <<<<"log_event", <<"node_delete", i>>>>>>  \* mutant: row forgotten
DeleteLogFirst(i) ==                                  \* mutant: the event before the row
  <<<<"log_event", <<"node_delete", i>>>>, <<"mark_deleted", i>>>>
DeleteWrites(i) == <<<<"mark_deleted", i>>, <<"log_event", <<"node_delete", i>>>>>>

\* The inspector may be on a tombstone, and deletes it again.
DeleteNode ==
  /\ Editing
  /\ \E i \in (1..Len(nodes)) \ {selfIdx} :
       /\ nodes' = [nodes EXCEPT ![i].deleted = TRUE]
       /\ disabled' = disabled \cup {i}
       /\ todo' = DeleteWrites(i)
  /\ UNCHANGED <<files, last, app, edges, Others, txn, goal, victim>>

------------------------------------------------------------------------------
(* save_graph, and what it is called for.                                  *)

Cleared(img) == [img EXCEPT !.nodes = <<>>, !.edges = <<>>]

\* BEGIN and the two DELETEs.
BeginSave(g) ==
  /\ Free /\ Room
  /\ app' = "saving" /\ goal' = g
  /\ txn' = Cleared(Final(files[project]))

\* The inspector's button, the end of main, a switch, a delete.
SaveToDisk == BeginSave("stay") /\ UNCHANGED <<files, last, memory, todo, victim>>
Quit == BeginSave("exit") /\ UNCHANGED <<files, last, memory, todo, victim>>
Switch == /\ \E p \in Projects \ {project} : BeginSave(p)
          /\ UNCHANGED <<files, last, memory, todo, victim>>
DeleteProject == /\ \E p \in Projects \ {project} : files[p] # <<>> /\ BeginSave(p)
                 /\ victim' = project
                 /\ UNCHANGED <<files, last, memory, todo>>

RowsCommitted(img) == Committed(img)                  \* mutant: no transaction
RowsPending(img) == files

\* The INSERTs: the nodes, then the edges.  Nobody sees the transaction's table between
\* two rows of one kind, and it is rolled back as a whole.
SaveRows ==
  /\ app = "saving" /\ txn # NoTxn
  /\ \/ /\ Len(txn.nodes) < Len(nodes)
        /\ txn' = [txn EXCEPT !.nodes = nodes]
     \/ /\ Len(txn.nodes) = Len(nodes) /\ Len(txn.edges) < Len(edges)
        /\ txn' = [txn EXCEPT !.edges = edges]
  /\ files' = RowsPending(txn')
  /\ UNCHANGED <<last, app, memory, todo, goal, victim>>

CommitSave ==
  /\ app = "saving" /\ txn # NoTxn
  /\ Len(txn.nodes) = Len(nodes) /\ Len(txn.edges) = Len(edges)
  /\ files' = Committed([txn EXCEPT !.whole = TRUE])
  /\ txn' = NoTxn
  /\ UNCHANGED <<last, app, memory, todo, goal, victim>>

\* A process that is not up has no memory.
Forget == /\ nodes' = <<>> /\ edges' = <<>> /\ selfIdx' = Nobody /\ disabled' = {}
          /\ todo' = <<>> /\ txn' = NoTxn /\ goal' = "stay" /\ victim' = Nobody

SaveDone == app = "saving" /\ txn = NoTxn

Stay == /\ SaveDone /\ goal = "stay" /\ app' = "up"
        /\ UNCHANGED <<files, last, memory, todo, txn, goal, victim>>
Exit == /\ SaveDone /\ goal = "exit" /\ app' = "down"
        /\ Forget /\ UNCHANGED <<files, last, project>>

------------------------------------------------------------------------------
(* open_project, and launching.                                            *)

\* The marker is written, and the file created, before anything is loaded.
GoTo(p) ==
  /\ app' = "opening"
  /\ project' = p /\ last' = p
  /\ nodes' = <<>> /\ edges' = <<>> /\ selfIdx' = Nobody /\ disabled' = {}
  /\ files' = [files EXCEPT ![p] = IF @ = <<>> THEN <<EmptyImage>> ELSE @]
  /\ UNCHANGED <<todo, txn>>

Move == /\ SaveDone /\ goal \in Projects /\ GoTo(goal)
        /\ goal' = "stay" /\ UNCHANGED victim
Launch == app = "down" /\ GoTo(last) /\ UNCHANGED <<goal, victim>>

Contiguous(img) == \E n \in 0..MaxNodes : DOMAIN img.nodes = 1..n
SelfOrEnd(ns) ==                                      \* mutant: past the end when none
  LET S == {i \in DOMAIN ns : ns[i].self} \cup {Len(ns) + 1}
  IN CHOOSE i \in S : \A j \in S : i <= j
FirstSelf(ns) ==
  LET S == {i \in DOMAIN ns : ns[i].self}
  IN IF S = {} THEN Nobody ELSE CHOOSE i \in S : \A j \in S : i <= j

\* load_graph, or the seed, which stays in memory until the next save_graph.
Load ==
  /\ app = "opening"
  /\ LET img == Final(files[project])
     IN IF DOMAIN img.nodes = {}
          THEN nodes' = Seed /\ edges' = <<>>
          ELSE Contiguous(img) /\ nodes' = img.nodes /\ edges' = img.edges
  /\ selfIdx' = FirstSelf(nodes')
  /\ app' = "up"
  /\ UNCHANGED <<files, last, project, disabled, todo, txn, goal, victim>>

\* open_project throws when the ids have a gap, and nobody catches it.
Refuse ==
  /\ app = "opening" /\ ~Contiguous(Final(files[project]))
  /\ app' = "down"
  /\ Forget /\ UNCHANGED <<files, last, project>>

\* delete_project, once the fallback is open.
RemoveVictim ==
  /\ app = "up" /\ victim # Nobody
  /\ files' = [files EXCEPT ![victim] = <<>>]
  /\ victim' = Nobody
  /\ UNCHANGED <<last, app, memory, todo, txn, goal>>

------------------------------------------------------------------------------
(* Failure, and /panic.                                                    *)

\* The process dies: what was committed stays, the transaction is rolled back.
Kill == app # "down" /\ app' = "down" /\ Forget /\ UNCHANGED <<files, last, project>>

\* The power goes: each file keeps a prefix of the commits since its checkpoint.
PowerLoss ==
  /\ app' = "down" /\ Forget
  /\ \E keep \in [Projects -> 0..MaxLoose + 1] :
       /\ \A p \in Projects : IF files[p] = <<>> THEN keep[p] = 0
                                                 ELSE keep[p] \in 1..Len(files[p])
       /\ files' = [p \in Projects |-> SubSeq(files[p], 1, keep[p])]
  /\ UNCHANGED <<last, project>>

Panic == /\ Free /\ app' = "wiping" /\ UNCHANGED <<files, last, memory, todo, txn, goal, victim>>

\* panic_wipe: the project files and the marker, in the order of the directory.
WipeFile ==
  /\ app = "wiping"
  /\ \/ last' = Default /\ UNCHANGED files
     \/ /\ \E p \in Projects : files[p] # <<>> /\ files' = [files EXCEPT ![p] = <<>>]
        /\ UNCHANGED last
  /\ UNCHANGED <<app, memory, todo, txn, goal, victim>>

WipeDone ==
  /\ app = "wiping" /\ last = Default /\ \A p \in Projects : files[p] = <<>>
  /\ app' = "down" /\ Forget /\ UNCHANGED <<files, last, project>>

Command == CreateNode \/ Journal \/ PinPhantom \/ CreateEdge \/ EditEdge \/ SetTier \/ DeleteNode
Saving == SaveToDisk \/ Quit \/ Switch \/ DeleteProject \/ SaveRows \/ CommitSave \/ Stay \/ Exit
Opening == Move \/ Launch \/ Load \/ Refuse \/ RemoveVictim
Failure == Kill \/ PowerLoss
Wiping == Panic \/ WipeFile \/ WipeDone

Next == CommitWrite \/ Checkpoint \/ Command \/ Saving \/ Opening \/ Failure \/ Wiping

Spec == Init /\ [][Next]_vars

------------------------------------------------------------------------------
(* Properties.                                                             *)

Current == Final(files[project])
Ends(es) == [k \in 1..Len(es) |-> es[k].ends]
Unparalleled(k) == \A j \in 1..Len(edges) : edges[j].ends = edges[k].ends => j = k

\* Between commands the database holds what the screen shows, so that a crash of
\* the process loses nothing: every node, tombstone, tier and edge, in order.  The
\* kinds of parallel edges are excepted: update_edge writes them all (db.cpp:469-490).
WriteThrough ==
  Free /\ Current.whole =>
    /\ Current.nodes = nodes
    /\ Ends(Current.edges) = Ends(edges)
    /\ \A k \in 1..Len(edges) : Unparalleled(k) => Current.edges[k] = edges[k]

\* No insert_node meets a row that has its id: ids are the length of stored_nodes
\* (session.cpp:13-24, cli_tab.cpp:308), tombstones included, whatever
\* was saved, lost or reopened before; the insert would throw in the middle of a frame.
InsertFits ==
  \A k \in 1..Len(todo) : todo[k][1] = "insert_node" => todo[k][2] \notin DOMAIN Current.nodes

DeletionShows(img, i) == i \in DOMAIN img.nodes /\ img.nodes[i].deleted
NamesRow(img, row) ==
  LET e == row[1]
  IN \/ e[1] = "phantom_pin" /\ e[2] \in DOMAIN img.nodes
     \/ e[1] = "node_delete" /\ DeletionShows(img, e[2])
     \/ e[1] = "node_delete" /\ ~row[2] /\ e[2] <= SeedSize

\* However the process or the machine stops: the event of a pin names a row of the node
\* table, so that "the events join still finds the original pin row"
\* (inspector_tab.cpp:288-290), and the event of a deletion one that shows it.  Excepted
\* is the deletion of a seed node before the project's first whole save: its UPDATE
\* finds no row and the event is inserted all the same (db.cpp:435-448, 590-616).
EventsNameRows ==
  \A p \in Projects : \A k \in 1..Len(files[p]) :
    \A row \in files[p][k].events : NamesRow(files[p][k], row)

GraphOf(img) == IF img.whole THEN [nodes |-> img.nodes, edges |-> Ends(img.edges)]
                             ELSE [nodes |-> <<>>, edges |-> <<>>]

DG == INSTANCE DurableGraph WITH
  history <- [p \in Projects |-> [k \in 1..Len(files[p]) |-> GraphOf(files[p][k])]]

\* Row-by-row writes, the save transaction, crashes and losses of power keep the
\* promise of DurableGraph: once a project has been saved as a whole, every image
\* it may be found with is a graph that was on screen, and load_graph accepts it.
ImplementsDurableGraph == DG!Spec

------------------------------------------------------------------------------
(* What the code or its documentation says, and the code does not do.      *)

\* session.cpp:61-73 refuses a database whose ids have a gap and tells the operator
\* that it "was likely edited externally".  Nothing here edits it externally.
RefusesOnlyForeignEdits ==
  \A p \in Projects : \A k \in 1..Len(files[p]) : Contiguous(files[p][k])

\* physics_thread.h:102-105: a tombstoned node "exerts and receives no force";
\* "soft-delete is permanent".  The worker knows every tombstone of the session.
TombstonesDisabled == Free => disabled = (1..Len(nodes)) \ AliveNodes

===============================================================================
