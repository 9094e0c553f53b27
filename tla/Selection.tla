------------------------------- MODULE Selection -------------------------------
(***************************************************************************)
(* Who is selected, and the two macros that keep node indices over several *)
(* frames, the rabbit hole and the throw of the bones, against deletion,   *)
(* growth and project switches in between (hotkeys.cpp, rabbit_hole.cpp,   *)
(* bones.cpp, picks.cpp, bones_panel.cpp, pick.cpp, the inspector's search *)
(* and delete, the CLI's /select, /search, /delete).                       *)
(*                                                                         *)
(* One step is one part of a frame, in main's order.  Edges, titles and    *)
(* the camera are left out: which neighbours a node has is any choice.     *)
(***************************************************************************)
EXTENDS Integers, FiniteSetsExt, SequencesExt

CONSTANTS
  Projects, Home,
  Loaded,        \* stored nodes of each project at launch, self and two more at least
  MaxNodes,      \* bound on the nodes of a project
  MaxDeletes,    \* bound on the deleted nodes of a project
  MaxSwitches,   \* bound on project switches
  HopCount,      \* kRabbitHopCount
  NoRide, NoArm  \* no rabbit hole under way, nothing armed

None == -1
Self == 0        \* self_idx; who it is at an opening is SessionStore's matter
Nodes == 0..(MaxNodes - 1)

ASSUME HomeAssumption == Home \in Projects
ASSUME LoadedAssumption == Loaded \in [Projects -> 3..MaxNodes]
ASSUME BoundsAssumption == {MaxNodes, MaxDeletes, MaxSwitches, HopCount} \subseteq Nat

VARIABLES
  part,       \* of the frame that is next
  project,    \* current_project
  size,       \* stored_nodes.size() of each project
  dead,       \* its tombstones
  shown,      \* positions.size(): what the frame's snapshot has
  selected,   \* selected_node
  ride,       \* RabbitHole while active
  chosen,     \* Bones::chosen while the panel is open
  open,       \* Bones::panel_open
  flying,     \* Bones::active
  armed,      \* delete_armed_id and delete_armed_project
  switches    \* what its bound counts

vars == <<part, project, size, dead, shown, selected, ride, chosen, open, flying, armed, switches>>
graphVars == <<project, size, dead, switches>>
bonesVars == <<chosen, open, flying>>

Ride == [path : BoundedSeq(Nodes, HopCount + 1), segment : 0..(HopCount - 1)]
Armed == [project : Projects, id : Nodes]

\* A ride's segment has two ends in its path, which update_rabbit_hole reads
\* without a check (rabbit_hole.cpp:58-59).
TypeOK ==
  /\ part \in {"keys", "macros", "pick", "tab", "panel"}
  /\ project \in Projects
  /\ size \in [Projects -> 0..MaxNodes] /\ dead \in [Projects -> SUBSET Nodes]
  /\ shown \in 0..MaxNodes /\ selected \in Nodes \cup {None}
  /\ ride = NoRide \/ (ride \in Ride /\ ride.segment + 2 <= Len(ride.path))
  /\ chosen \subseteq Nodes /\ open \in BOOLEAN /\ flying \in BOOLEAN
  /\ armed \in Armed \cup {NoArm}
  /\ switches \in 0..MaxSwitches

Init ==
  /\ part = "keys"
  /\ project = Home /\ size = Loaded /\ dead = [p \in Projects |-> {}]
  /\ shown = Loaded[Home]
  /\ selected = None /\ ride = NoRide
  /\ chosen = {} /\ open = FALSE /\ flying = FALSE
  /\ armed = NoArm /\ switches = 0

Stored == 0..(size[project] - 1)
Live == Stored \ dead[project]
Placed == 0..(shown - 1)

------------------------------------------------------------------------------
(* The keys.                                                               *)

\* pick_rabbit_path with the mask: the alive neighbours that have a place, hop by
\* hop.
Walks == {w \in BoundedSeq(Live \cap Placed, HopCount + 1) :
            /\ Len(w) >= 2 /\ w[1] = selected
            /\ \A k \in 1..(Len(w) - 1) : w[k] # w[k + 1]}

PressH ==
  /\ part = "keys"
  /\ selected \in Live \cap Placed /\ ride = NoRide /\ ~flying
  /\ \E w \in Walks : ride' = [path |-> w, segment |-> 0]
  /\ part' = "macros"
  /\ UNCHANGED <<graphVars, shown, selected, bonesVars, armed>>

\* throw_bones: three of the candidates if there are three, or the panel closes.
Throw(candidates) ==
  /\ \/ /\ \E triple \in kSubset(3, candidates) : chosen' = triple
        /\ open' = TRUE /\ flying' = TRUE
     \/ /\ Cardinality(candidates) < 3
        /\ chosen' = {} /\ open' = FALSE /\ flying' = FALSE

PressB ==
  /\ part = "keys"
  /\ ride = NoRide /\ ~flying /\ shown >= 3
  /\ Throw(Live \cap Placed)
  /\ part' = "macros"
  /\ UNCHANGED <<graphVars, shown, selected, ride, armed>>

NoKey == part = "keys" /\ part' = "macros"
         /\ UNCHANGED <<graphVars, shown, selected, ride, bonesVars, armed>>

\* The ride leads the camera, and only without one the bones' flight.
MissesEnd(r) == r.segment >= Len(r.path)              \* mutant: off by one
AtEnd(r) == r.segment >= Len(r.path) - 1
Ends(r) == {r.path[k] : k \in {r.segment + 1, r.segment + 2} \cap DOMAIN r.path}

\* update_rabbit_hole: the frame's time may complete segments.
FollowRide ==
  /\ part = "macros" /\ ride # NoRide
  /\ \E passed \in 0..HopCount :
       LET r == [ride EXCEPT !.segment = @ + passed] IN
         IF AtEnd(r)
           THEN /\ selected' = IF Last(r.path) \in Placed THEN Last(r.path) ELSE selected
                /\ ride' = NoRide
           ELSE /\ ride' = IF Ends(r) \subseteq Placed THEN r ELSE NoRide
                /\ UNCHANGED selected
  /\ part' = "pick"
  /\ UNCHANGED <<graphVars, shown, bonesVars, armed>>

\* update_bones, or the operator's orbit.
FollowBones ==
  /\ part = "macros" /\ ride = NoRide
  /\ \/ UNCHANGED flying
     \/ flying' = FALSE
  /\ part' = "pick"
  /\ UNCHANGED <<graphVars, shown, selected, ride, chosen, open, armed>>

------------------------------------------------------------------------------
(* The snapshot and the mouse.  A node gets its place some frames after it *)
(* is stored.                                                              *)

Snapshot == shown' \in shown..size[project] /\ part' = "tab"

NoClick == /\ part = "pick" /\ Snapshot
           /\ UNCHANGED <<graphVars, selected, ride, bonesVars, armed>>

\* A node, or the void.
PickNode ==
  /\ part = "pick" /\ Snapshot
  /\ selected' \in ((0..(shown' - 1)) \ dead[project]) \cup {None}
  /\ UNCHANGED <<graphVars, ride, bonesVars, armed>>

Append1 == size' = [size EXCEPT ![project] = @ + 1]

\* pin_phantom: its node is selected before it has a place.
PickPhantom ==
  /\ part = "pick" /\ Snapshot
  /\ size[project] < MaxNodes
  /\ Append1
  /\ selected' = size[project]
  /\ UNCHANGED <<project, dead, switches, ride, bonesVars, armed>>

------------------------------------------------------------------------------
(* The tab on show: at most one command a frame.                           *)

Inspected == selected \in Stored \cap Placed

NoCommand == /\ part = "tab" /\ part' = "panel"
             /\ UNCHANGED <<graphVars, shown, selected, ride, bonesVars, armed>>

\* The inspector's search and deselect, /select and /search: of the live nodes, also
\* one without a place.
Select ==
  /\ part = "tab"
  /\ selected' \in Live \cup {None}
  /\ part' = "panel"
  /\ UNCHANGED <<graphVars, shown, ride, bonesVars, armed>>

\* The toolbar, the journal, /node, /pin.
CreateNode ==
  /\ part = "tab"
  /\ size[project] < MaxNodes
  /\ Append1
  /\ selected' \in {selected, size[project]}
  /\ part' = "panel"
  /\ UNCHANGED <<project, dead, switches, shown, ride, bonesVars, armed>>

\* "delete node..." arms, "cancel" disarms what is inspected.
SomethingArmed == armed # NoArm                       \* mutant: a bare flag
ArmedHere == armed = [project |-> project, id |-> selected]

Arm ==
  /\ part = "tab"
  /\ Inspected /\ selected # Self /\ ~ArmedHere
  /\ armed' = [project |-> project, id |-> selected]
  /\ part' = "panel"
  /\ UNCHANGED <<graphVars, shown, selected, ride, bonesVars>>

Disarm ==
  /\ part = "tab"
  /\ Inspected /\ selected # Self /\ ArmedHere
  /\ armed' = NoArm
  /\ part' = "panel"
  /\ UNCHANGED <<graphVars, shown, selected, ride, bonesVars>>

Bury(n) == dead' = [dead EXCEPT ![project] = @ \cup {n}]

\* "yes, delete".
Confirm ==
  /\ part = "tab"
  /\ Inspected /\ selected # Self /\ ArmedHere
  /\ Cardinality(dead[project]) < MaxDeletes
  /\ Bury(selected)
  /\ selected' = None /\ armed' = NoArm
  /\ part' = "panel"
  /\ UNCHANGED <<project, size, switches, shown, ride, bonesVars>>

StaysSelected(n) == selected                          \* mutant: not deselected
Deselected(n) == IF selected = n THEN None ELSE selected

\* /delete <ref> --confirm.
DeleteByName ==
  /\ part = "tab"
  /\ Cardinality(dead[project]) < MaxDeletes
  /\ \E n \in Live \ {Self} : Bury(n) /\ selected' = Deselected(n)
  /\ part' = "panel"
  /\ UNCHANGED <<project, size, switches, shown, ride, bonesVars, armed>>

\* main's open_project closes the panel and the ride; the bones' flight goes on.
MacrosStay == UNCHANGED <<ride, chosen, open>>        \* mutant: indices outlive the project
MacrosClosed == ride' = NoRide /\ chosen' = {} /\ open' = FALSE

SwitchProject ==
  /\ part = "tab" /\ switches < MaxSwitches
  /\ \E p \in Projects \ {project} : project' = p /\ shown' = size[p]
  /\ MacrosClosed
  /\ selected' = None
  /\ switches' = switches + 1
  /\ part' = "panel"
  /\ UNCHANGED <<size, dead, flying, armed>>

------------------------------------------------------------------------------
(* The bones panel.                                                        *)

\* Shut or untouched.
NoRow == /\ part = "panel" /\ part' = "keys"
         /\ \/ UNCHANGED <<chosen, open>>
            \/ open /\ open' = FALSE /\ chosen' = {}
         /\ UNCHANGED <<graphVars, shown, selected, ride, flying, armed>>

\* A row travels to its node, if it has a place, and selects it.
ClickRow ==
  /\ part = "panel" /\ open
  /\ \E n \in chosen \cap Stored :
       selected' = n /\ flying' = (flying \/ n \in Placed)
  /\ part' = "keys"
  /\ UNCHANGED <<graphVars, shown, ride, chosen, open, armed>>

\* "throw again" gives no mask: every place is a candidate.
ThrowAgain ==
  /\ part = "panel" /\ open
  /\ Throw(Placed)
  /\ part' = "keys"
  /\ UNCHANGED <<graphVars, shown, selected, ride, armed>>

Keys == PressH \/ PressB \/ NoKey
Macros == FollowRide \/ FollowBones
Pick == NoClick \/ PickNode \/ PickPhantom
Tab == \/ NoCommand \/ Select \/ CreateNode \/ Arm \/ Disarm \/ Confirm \/ DeleteByName
       \/ SwitchProject
Panel == NoRow \/ ClickRow \/ ThrowAgain

Next == Keys \/ Macros \/ Pick \/ Tab \/ Panel

Spec == Init /\ [][Next]_vars

------------------------------------------------------------------------------
(* Properties.                                                             *)

\* Whatever is kept over frames indexes the project that is open: a ride and its
\* arrival, the rows and halos of the panel, the selection (rabbit_hole.cpp:58-67,
\* bones.cpp:25-38, scene.cpp:184-195, main.cpp:208-209).
IndicesInRange ==
  /\ selected # None => selected \in Stored
  /\ ride # NoRide => ToSet(ride.path) \subseteq Placed
  /\ chosen \subseteq Placed /\ Placed \subseteq Stored

\* inspector_tab.cpp:294-297: arming on one node and then going to another, or to
\* another project, must not make the confirm button delete "whatever happens to be
\* selected now": it deletes the node, of the project, that "delete node..." was
\* clicked for.
DeletesWhatWasArmed ==
  [][armed # NoArm /\ armed' = NoArm /\ dead' # dead =>
       dead' = [dead EXCEPT ![armed.project] = @ \cup {armed.id}]]_vars

\* Mouse, search, commands and pins select no tombstone, and no delete leaves one
\* selected: the selection becomes a tombstone only by a macro, the end of a ride or
\* a row of the panel (pick.cpp:52-54, db.cpp:624-628, cli_tab.cpp:158-160 and 496).
OnlyMacrosSelectTombstones ==
  [][selected' # None /\ selected' \in dead'[project'] =>
       part \in {"macros", "panel"} \/ selected \in dead[project]]_vars
===============================================================================
