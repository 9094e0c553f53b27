------------------------------- MODULE EditSession -------------------------------
(***************************************************************************)
(* Typing a node's title and content in the inspector                      *)
(* (ui/inspector_tab.cpp): the text is in memory at every keystroke and is *)
(* written, with an event, a touch-edge and the wikilinks, when the widget *)
(* loses focus; pending_edit says for which node.  The widget has the same *)
(* identity whatever node is shown, and rides, picks and pins change the   *)
(* node while it has the focus.                                            *)
(*                                                                         *)
(* A frame is three steps: what main does before the tabs, the widget, and *)
(* the buttons and the other tabs.  Title and content are one text, of      *)
(* which only matters whether the database has it; which nodes its         *)
(* wikilinks resolve to is any choice.  Dear ImGui is not in the           *)
(* repository: Answers is what a caller may count on.                      *)
(***************************************************************************)
EXTENDS Integers, FiniteSets

CONSTANTS
  Projects, Home,
  Loaded,        \* nodes a project starts with
  MaxNodes,      \* bound on the nodes of a project
  MaxLinks,      \* bound on the edges, over all projects; a touch-edge may pass it
  MaxSwitches,   \* bound on project switches and crashes
  NoWidget, NoEdit  \* no widget has the focus, no edit is pending

None == -1
Self == 0        \* self_idx
Nodes == 0..(MaxNodes - 1)

ASSUME HomeAssumption == Home \in Projects
ASSUME BoundsAssumption == /\ MaxNodes \in Nat /\ Loaded \in 1..MaxNodes
                           /\ {MaxLinks, MaxSwitches} \subseteq Nat

VARIABLES
  part,       \* of the frame that is next
  project,    \* current_project
  size,       \* each project's nodes, in memory and in its file alike
  links,      \* each project's edges, likewise
  unsaved,    \* the open project's nodes whose text is not in the file
  shown,      \* positions.size()
  selected,   \* selected_node
  ride,       \* a rabbit hole is under way
  inspector,  \* the Inspector tab is on show
  pressed,    \* the mouse was pressed in the 3D view this frame
  widget,     \* the focused text widget
  pending,    \* pending_edit_project and pending_edit_id
  abandoned,  \* nodes whose edit session ended without a write (history)
  switches    \* what MaxSwitches counts

fileVars == <<project, size, switches>>
editVars == <<unsaved, links, widget, pending, abandoned>>
viewVars == <<shown, selected, ride, inspector, pressed>>
vars == <<part, fileVars, editVars, viewVars>>

Widget == [edited : BOOLEAN, alive : BOOLEAN]
Edit == [project : Projects, id : Nodes]
ASSUME NoneAssumption == NoWidget \notin Widget /\ NoEdit \notin Edit

Stored == 0..(size[project] - 1)
Placed == 0..(shown - 1)

TypeOK ==
  /\ part \in {"select", "inspect", "buttons"}
  /\ project \in Projects /\ size \in [Projects -> Loaded..MaxNodes]
  /\ links \in [Projects -> SUBSET (Nodes \X Nodes)]
  /\ \A p \in Projects : links[p] \subseteq (0..(size[p] - 1)) \X (0..(size[p] - 1))
  /\ unsaved \subseteq Stored /\ abandoned \subseteq unsaved
  /\ shown \in 0..size[project] /\ selected \in Stored \cup {None}
  /\ ride \in BOOLEAN /\ inspector \in BOOLEAN /\ pressed \in BOOLEAN
  /\ widget \in Widget \cup {NoWidget} /\ pending \in Edit \cup {NoEdit}
  /\ switches \in 0..MaxSwitches

Init ==
  /\ part = "select" /\ project = Home
  /\ size = [p \in Projects |-> Loaded] /\ links = [p \in Projects |-> {}]
  /\ unsaved = {}
  /\ shown = Loaded /\ selected = None
  /\ ride = FALSE /\ inspector \in BOOLEAN /\ pressed = FALSE
  /\ widget = NoWidget /\ pending = NoEdit /\ abandoned = {}
  /\ switches = 0

------------------------------------------------------------------------------
(* Before the tabs: keys, the macros' step, the snapshot, the mouse.       *)

Snapshot == shown' \in shown..size[project]

NoChange == /\ part = "select" /\ Snapshot
            /\ part' = "inspect"
            /\ UNCHANGED <<fileVars, editVars, selected, ride, inspector, pressed>>

\* H, which a focused text widget swallows.
StartRide ==
  /\ part = "select" /\ Snapshot
  /\ ~ride /\ selected \in Placed /\ widget = NoWidget
  /\ ride' = TRUE
  /\ part' = "inspect"
  /\ UNCHANGED <<fileVars, editVars, selected, inspector, pressed>>

\* update_rabbit_hole, some seconds later: the path's end is selected.
EndRide ==
  /\ part = "select" /\ Snapshot
  /\ ride /\ ride' = FALSE
  /\ selected' \in Placed
  /\ part' = "inspect"
  /\ UNCHANGED <<fileVars, editVars, inspector, pressed>>

FewLinks(ls) == Cardinality(UNION {{<<p, e>> : e \in ls[p]} : p \in Projects}) <= MaxLinks

\* handle_pick comes before the tabs are drawn; a double click brings the tab up.
PickNode ==
  /\ part = "select" /\ Snapshot
  /\ selected' \in (0..(shown' - 1)) \cup {None}
  /\ inspector' \in {inspector, inspector \/ selected' # None}
  /\ pressed' = TRUE
  /\ part' = "inspect"
  /\ UNCHANGED <<fileVars, editVars, ride>>

\* pin_phantom: the node and the edges to its targets are stored, it is selected
\* and has no place yet.
PickPhantom ==
  /\ part = "select" /\ Snapshot
  /\ size[project] < MaxNodes
  /\ LET new == size[project]
     IN \E targets \in SUBSET (0..(shown' - 1)) :
          /\ size' = [size EXCEPT ![project] = @ + 1]
          /\ links' = [links EXCEPT ![project] = @ \cup {<<new, t>> : t \in targets}]
          /\ targets = {} \/ FewLinks(links')
          /\ selected' = new
  /\ pressed' = TRUE
  /\ part' = "inspect"
  /\ UNCHANGED <<project, switches, unsaved, widget, pending, abandoned, ride, inspector>>

------------------------------------------------------------------------------
(* The widget.  Focused, it holds a text of its own: given another string  *)
(* it may take that over, as the caller supposes, or put its own in its    *)
(* place, which is a change like a keystroke.  A press elsewhere, Tab or   *)
(* Enter ends the focus, and the answer tells whether it was edited.  If   *)
(* it is not drawn for a frame it loses the focus, and the next drawing    *)
(* may or may not tell so.                                                 *)

Answer(w, changed, done) == [widget |-> w, changed |-> changed, done |-> done]
Focus(edited) == [edited |-> edited, alive |-> TRUE]

\* What drawing the widget may return.
Answers ==
  IF widget = NoWidget
    THEN {Answer(NoWidget, FALSE, FALSE)} \cup
         (IF pressed THEN {} ELSE {Answer(Focus(FALSE), FALSE, FALSE)})
  ELSE IF ~widget.alive
    THEN {Answer(NoWidget, FALSE, FALSE)} \cup
         (IF widget.edited THEN {Answer(NoWidget, changed, TRUE) : changed \in BOOLEAN} ELSE {})
  ELSE LET Edited(changed) == widget.edited \/ changed
       IN {Answer(NoWidget, changed, Edited(changed)) : changed \in BOOLEAN} \cup
          (IF pressed THEN {} ELSE {Answer(Focus(Edited(changed)), changed, FALSE) :
                                      changed \in BOOLEAN})

Drawn == inspector /\ selected \in Stored \cap Placed

LinkedForward(es, a, b) == <<a, b>> \in es                \* mutant: one direction only
Linked(es, a, b) == <<a, b>> \in es \/ <<b, a>> \in es

\* The touch-edge from self, then the wikilinks' edges.
Edges == links[project]
Touched(n) == IF n = Self \/ Linked(Edges, Self, n) THEN Edges ELSE Edges \cup {<<Self, n>>}
LinksOf(n, targets) ==
  Touched(n) \cup {<<n, t>> : t \in {u \in targets : u # n /\ ~Linked(Touched(n), n, u)}}

Here(n) == [project |-> project, id |-> n]
PendingNode == {n \in Stored : pending = Here(n)}
\* The pending node, if this drawing is the last that could report the end of its session.
Unheard == IF widget # NoWidget /\ ~widget.alive THEN PendingNode ELSE {}

FlushSelected(edit) == [edit EXCEPT !.id = selected]      \* mutant: no pending_edit_id
FlushPending(edit) == edit

\* The frame's typing makes the shown node the pending one, whichever was before.
DrawWidget ==
  /\ part = "inspect" /\ Drawn
  /\ \E a \in Answers, targets \in SUBSET Stored :
       LET known == IF a.changed THEN Here(selected) ELSE pending
           edit == IF known # NoEdit /\ known.project # project THEN NoEdit ELSE known
           flushes == a.done /\ edit # NoEdit
           written == IF flushes THEN {FlushPending(edit).id} ELSE {}
           typedOn == IF a.changed THEN {selected} ELSE {}
           displaced == IF edit # pending THEN PendingNode ELSE {}
           silent == IF a.done THEN {} ELSE Unheard
       IN /\ unsaved' = (unsaved \cup typedOn) \ written
          /\ abandoned' = (abandoned \cup displaced \cup silent) \cap unsaved'
          /\ widget' = a.widget
          /\ pending' = IF flushes THEN NoEdit ELSE edit
          /\ IF flushes
               THEN /\ links' = [links EXCEPT ![project] = LinksOf(FlushPending(edit).id, targets)]
                    /\ targets = {} \/ FewLinks(links')
               ELSE targets = {} /\ UNCHANGED links
  /\ part' = "buttons"
  /\ UNCHANGED <<fileVars, viewVars>>

\* Nothing is selected, or a node without a place, or another tab is on show.
NotDrawn ==
  /\ part = "inspect" /\ ~Drawn
  /\ widget' = IF widget # NoWidget /\ widget.alive THEN [widget EXCEPT !.alive = FALSE]
                                                   ELSE NoWidget
  /\ abandoned' = (abandoned \cup Unheard) \cap unsaved
  /\ part' = "buttons"
  /\ UNCHANGED <<fileVars, unsaved, links, pending, viewVars>>

------------------------------------------------------------------------------
(* The rest of the frame.  A press on any of it has ended the focus.       *)

EndFrame == part = "buttons" /\ part' = "select" /\ pressed' = FALSE

NoButton == EndFrame /\ UNCHANGED <<fileVars, editVars, shown, selected, ride, inspector>>

Free == EndFrame /\ widget = NoWidget /\ ~pressed

\* deselect, search, a row of the bones panel, /select, a tab.
GoElsewhere ==
  /\ Free
  /\ \/ selected' \in Stored \cup {None} /\ UNCHANGED inspector
     \/ inspector' = ~inspector /\ UNCHANGED selected
  /\ UNCHANGED <<fileVars, editVars, shown, ride>>

\* "save to disk": save_graph.
SaveToDisk ==
  /\ Free /\ Drawn
  /\ unsaved' = {} /\ abandoned' = {}
  /\ UNCHANGED <<fileVars, links, widget, pending, shown, selected, ride, inspector>>

\* The add-edge list.
AddEdge ==
  /\ Free /\ Drawn
  /\ \E n \in Stored \ {selected} :
       /\ ~Linked(Edges, selected, n)
       /\ links' = [links EXCEPT ![project] = @ \cup {<<selected, n>>}]
       /\ FewLinks(links')
  /\ UNCHANGED <<fileVars, unsaved, widget, pending, abandoned,
                 shown, selected, ride, inspector>>

KeptSelection == selected      \* mutant: the index outlives its project
OpenedSelection == None

\* open_project, after save_graph; pending_edit stays.
SwitchProject ==
  /\ Free /\ ~inspector /\ switches < MaxSwitches
  /\ project' \in Projects \ {project}
  /\ unsaved' = {} /\ abandoned' = {}
  /\ shown' = size[project'] /\ selected' = OpenedSelection /\ ride' = FALSE
  /\ switches' = switches + 1
  /\ UNCHANGED <<size, links, widget, pending, inspector>>

\* The process dies and is started again.
Crash ==
  /\ switches < MaxSwitches
  /\ part' = "select"
  /\ unsaved' = {} /\ abandoned' = {}
  /\ shown' = size[project] /\ selected' = None /\ ride' = FALSE
  /\ inspector' \in BOOLEAN /\ pressed' = FALSE
  /\ widget' = NoWidget /\ pending' = NoEdit
  /\ switches' = switches + 1
  /\ UNCHANGED <<project, size, links>>

Select == NoChange \/ StartRide \/ EndRide \/ PickNode \/ PickPhantom
Inspect == DrawWidget \/ NotDrawn
Buttons == NoButton \/ GoElsewhere \/ SaveToDisk \/ AddEdge \/ SwitchProject

Next == Select \/ Inspect \/ Buttons \/ Crash

Spec == Init /\ [][Next]_vars

------------------------------------------------------------------------------
(* Properties.                                                             *)

\* What a crash would lose: a node's text differs from its row in the database only
\* while it is the pending edit of a widget that has the focus, or when its session
\* was abandoned, because another node was typed on under the same widget or the
\* widget was not drawn (inspector_tab.cpp:158-198 promises one flush per session,
\* to "the node that was typed on").
UnsavedIsKnown ==
  \A n \in unsaved \ abandoned : pending = Here(n) /\ widget # NoWidget

\* Pins, touch-edges, wikilinks and the add-edge list, one after the other or several
\* in one flush, never link a node with itself and never add the reverse of an edge that
\* is there (inspector_tab.cpp:219-272 and 467-488): two nodes are joined one way only.
JoinsTheUnjoined ==
  [][\A p \in Projects : \A e \in links'[p] \ links[p] :
       e[1] # e[2] /\ <<e[2], e[1]>> \notin links'[p]]_vars
===============================================================================
