--------------------------- MODULE EditSession_proofs ---------------------------
(***************************************************************************)
(* Proofs about EditSession, for any projects, sizes and bounds: text that *)
(* a crash would lose is the pending edit of the focused widget or of an   *)
(* abandoned session, and no two nodes are joined both ways.               *)
(*                                                                         *)
(* UnsavedIsKnown is not inductive: the flush comes only from a widget     *)
(* that was edited, and writes only a node that is stored.  SessionOpen    *)
(* and PendingStored add that.                                             *)
(***************************************************************************)
EXTENDS EditSession, TLAPS

USE HomeAssumption, BoundsAssumption, NoneAssumption
USE DEF vars, fileVars, editVars, viewVars, None, Self

\* Text that is not in the file and not abandoned is the pending edit of an edited widget.
SessionOpen == \A n \in unsaved \ abandoned :
                 pending = Here(n) /\ widget \in Widget /\ widget.edited

\* The pending edit is of a node that its project has.
PendingStored == pending # NoEdit => pending.id \in 0..(size[pending.project] - 1)

EditInv == TypeOK /\ PendingStored /\ SessionOpen

\* More nodes keep the old ones.
LEMMA MoreNodes ==
  ASSUME NEW m \in Int, NEW n \in Int, m <= n
  PROVE  0..(m - 1) \subseteq 0..(n - 1)
  OBVIOUS

\* The edges of a new node, to nodes that have a place.
LEMMA NewEdges ==
  ASSUME NEW n \in Nat, NEW m \in 0..n, NEW T \in SUBSET (0..(m - 1))
  PROVE  {<<n, t>> : t \in T} \subseteq (0..((n + 1) - 1)) \X (0..((n + 1) - 1))
<1>1. n \in 0..((n + 1) - 1) /\ \A t \in T : t \in 0..((n + 1) - 1)
  OBVIOUS
<1> QED BY <1>1

LEMMA InvInit == Init => EditInv
<1> SUFFICES ASSUME Init PROVE EditInv
  OBVIOUS
<1>1. TypeOK
  <2>1. size \in [Projects -> Loaded..MaxNodes] /\ size[project] = Loaded
        /\ Loaded \in Nat /\ MaxNodes \in Nat /\ 0 \in 0..MaxSwitches
    BY DEF Init
  <2>2. links \in [Projects -> SUBSET (Nodes \X Nodes)] /\ \A p \in Projects : links[p] = {}
    BY DEF Init
  <2>3. project \in Projects /\ shown \in 0..size[project] /\ selected = -1
        /\ unsaved = {} /\ abandoned = {} /\ switches \in 0..MaxSwitches
    BY <2>1 DEF Init
  <2>4. /\ part = "select" /\ ride = FALSE /\ inspector \in BOOLEAN /\ pressed = FALSE
        /\ widget = NoWidget /\ pending = NoEdit
    BY DEF Init
  <2> QED BY <2>1, <2>2, <2>3, <2>4 DEF TypeOK
<1>2. PendingStored /\ SessionOpen
  BY DEF Init, PendingStored, SessionOpen
<1> QED BY <1>1, <1>2 DEF EditInv

\* Choosing among nodes, positions and tabs touches no edit.
LEMMA ViewSteps ==
  ASSUME EditInv, NoChange \/ StartRide \/ EndRide \/ PickNode \/ NoButton \/ GoElsewhere
  PROVE  EditInv'
<1> USE DEF NoChange, StartRide, EndRide, PickNode, NoButton, GoElsewhere, Free, EndFrame
<1>1. UNCHANGED <<project, size, switches, unsaved, links, widget, pending, abandoned>>
  OBVIOUS
<1>2. part' \in {"select", "inspect", "buttons"} /\ pressed' \in BOOLEAN
      /\ ride' \in BOOLEAN /\ inspector' \in BOOLEAN
  BY DEF EditInv, TypeOK
<1>3. size[project] \in Nat /\ shown \in 0..size[project] /\ selected \in Stored \cup {None}
  BY DEF EditInv, TypeOK
<1>4. shown' \in 0..size[project]
  BY <1>3 DEF Snapshot
<1>5. selected' \in Stored \cup {None}
  BY <1>3, <1>4 DEF Stored, Placed
<1>6. TypeOK'
  BY <1>1, <1>2, <1>4, <1>5 DEF EditInv, TypeOK, Stored
<1>7. PendingStored' /\ SessionOpen'
  BY <1>1 DEF EditInv, PendingStored, SessionOpen, Here
<1> QED BY <1>6, <1>7 DEF EditInv

\* A pinned phantom brings its node and edges at once, and no text to write.
LEMMA PickPhantomStep ==
  ASSUME EditInv, PickPhantom
  PROVE  EditInv'
<1>1. PICK targets \in SUBSET (0..(shown' - 1)) :
        links' = [links EXCEPT ![project] = @ \cup {<<size[project], t>> : t \in targets}]
  BY DEF PickPhantom
<1>2. /\ project \in Projects /\ size \in [Projects -> Loaded..MaxNodes]
      /\ size[project] \in Nat /\ size[project] < MaxNodes
      /\ shown' \in 0..size[project]
      /\ size' = [size EXCEPT ![project] = @ + 1]
  BY DEF EditInv, TypeOK, PickPhantom, Snapshot
<1>3. \A p \in Projects : size'[p] \in Nat /\ size[p] \in Nat /\ size[p] <= size'[p]
  BY <1>2
<1>4. size' \in [Projects -> Loaded..MaxNodes] /\ size'[project] = size[project] + 1
  BY <1>2
<1>5. links' \in [Projects -> SUBSET (Nodes \X Nodes)]
      /\ \A p \in Projects : links'[p] \subseteq (0..(size'[p] - 1)) \X (0..(size'[p] - 1))
  <2>1. links \in [Projects -> SUBSET (Nodes \X Nodes)]
        /\ \A p \in Projects : links[p] \subseteq (0..(size[p] - 1)) \X (0..(size[p] - 1))
    BY DEF EditInv, TypeOK
  <2>2. {<<size[project], t>> : t \in targets}
          \subseteq (0..(size'[project] - 1)) \X (0..(size'[project] - 1))
    BY <1>2, <1>4, NewEdges
  <2>3. 0..(size'[project] - 1) \subseteq Nodes
    BY <1>2, <1>4, MoreNodes DEF Nodes
  <2>4. \A p \in Projects : 0..(size[p] - 1) \subseteq 0..(size'[p] - 1)
    BY <1>3, MoreNodes
  <2>5. ASSUME NEW p \in Projects
        PROVE  links'[p] \subseteq (0..(size'[p] - 1)) \X (0..(size'[p] - 1))
    <3>1. links[p] \subseteq (0..(size'[p] - 1)) \X (0..(size'[p] - 1))
      BY <2>1, <2>4
    <3>2. CASE p = project
      BY <1>1, <1>2, <2>1, <2>2, <3>1, <3>2
    <3>3. CASE p # project
      BY <1>1, <2>1, <3>1, <3>3
    <3> QED BY <3>2, <3>3
  <2>6. {<<size[project], t>> : t \in targets} \subseteq Nodes \X Nodes
    BY <2>2, <2>3
  <2> QED BY <1>1, <1>2, <2>1, <2>5, <2>6
<1>6. TypeOK'
  <2>1. Stored \subseteq Stored' /\ selected' \in Stored'
    BY <1>2, <1>4 DEF Stored, PickPhantom
  <2>2. unsaved' \subseteq Stored' /\ abandoned' \subseteq unsaved'
    BY <2>1 DEF EditInv, TypeOK, PickPhantom
  <2>3. shown' \in 0..size'[project']
    BY <1>2, <1>4 DEF PickPhantom
  <2> QED BY <1>4, <1>5, <2>1, <2>2, <2>3 DEF EditInv, TypeOK, PickPhantom
<1>7. PendingStored' /\ SessionOpen'
  <2>1. pending # NoEdit => pending.project \in Projects
    BY DEF EditInv, TypeOK, Edit
  <2>2. PendingStored'
    BY <1>3, <2>1, MoreNodes DEF EditInv, PendingStored, PickPhantom
  <2> QED BY <2>2 DEF EditInv, SessionOpen, PickPhantom, Here
<1> QED BY <1>6, <1>7 DEF EditInv

\* What the widget answers: an edited widget stays focused, or tells, or was not drawn.
LEMMA AnswersTell ==
  ASSUME EditInv, NEW a \in Answers
  PROVE  /\ a.widget \in Widget \cup {NoWidget} /\ a.changed \in BOOLEAN /\ a.done \in BOOLEAN
         /\ a.changed /\ ~a.done => a.widget \in Widget /\ a.widget.edited
         /\ widget \in Widget /\ widget.edited /\ widget.alive /\ ~a.done
              => a.widget \in Widget /\ a.widget.edited
<1>1. ASSUME NEW e \in BOOLEAN PROVE Focus(e) \in Widget /\ Focus(e).edited = e
  BY DEF Focus, Widget
<1>3. CASE widget = NoWidget
  <2>1. a = Answer(NoWidget, FALSE, FALSE) \/ a = Answer(Focus(FALSE), FALSE, FALSE)
    BY <1>3 DEF Answers
  <2>2. CASE a = Answer(NoWidget, FALSE, FALSE)
    <3>1. a.widget = NoWidget /\ a.changed = FALSE /\ a.done = FALSE
      BY <2>2 DEF Answer
    <3> QED BY <1>3, <3>1
  <2>3. CASE a = Answer(Focus(FALSE), FALSE, FALSE)
    <3>1. a.widget = Focus(FALSE) /\ a.changed = FALSE /\ a.done = FALSE
      BY <2>3 DEF Answer
    <3> QED BY <1>1, <1>3, <3>1
  <2> QED BY <2>1, <2>2, <2>3
<1>4. CASE widget # NoWidget /\ ~widget.alive
  <2>1. \/ a = Answer(NoWidget, FALSE, FALSE)
        \/ \E c \in BOOLEAN : a = Answer(NoWidget, c, TRUE)
    BY <1>4 DEF Answers
  <2>2. CASE a = Answer(NoWidget, FALSE, FALSE)
    <3>1. a.widget = NoWidget /\ a.changed = FALSE /\ a.done = FALSE
      BY <2>2 DEF Answer
    <3> QED BY <1>4, <3>1
  <2>3. ASSUME NEW c \in BOOLEAN, a = Answer(NoWidget, c, TRUE)
        PROVE  a.widget = NoWidget /\ a.changed \in BOOLEAN /\ a.done = TRUE
    BY <2>3 DEF Answer
  <2>4. CASE \E c \in BOOLEAN : a = Answer(NoWidget, c, TRUE)
    BY <1>4, <2>3, <2>4
  <2> QED BY <2>1, <2>2, <2>4
<1>5. CASE widget # NoWidget /\ widget.alive
  <2>1. widget.edited \in BOOLEAN
    BY <1>5 DEF EditInv, TypeOK, Widget
  <2>2. \E c \in BOOLEAN : \/ a = Answer(NoWidget, c, widget.edited \/ c)
                           \/ a = Answer(Focus(widget.edited \/ c), c, FALSE)
    BY <1>5 DEF Answers
  <2>3. PICK c \in BOOLEAN : \/ a = Answer(NoWidget, c, widget.edited \/ c)
                             \/ a = Answer(Focus(widget.edited \/ c), c, FALSE)
    BY <2>2
  <2>4. CASE a = Answer(NoWidget, c, widget.edited \/ c)
    <3>1. a.widget = NoWidget /\ a.changed = c /\ a.done = (widget.edited \/ c)
      BY <2>4 DEF Answer
    <3> QED BY <2>1, <3>1
  <2>5. CASE a = Answer(Focus(widget.edited \/ c), c, FALSE)
    <3>1. a.widget = Focus(widget.edited \/ c) /\ a.changed = c /\ a.done = FALSE
      BY <2>5 DEF Answer
    <3>2. (widget.edited \/ c) \in BOOLEAN
      BY <2>1
    <3>3. a.widget \in Widget /\ a.widget.edited = (widget.edited \/ c)
      BY <1>1, <3>1, <3>2
    <3> QED BY <2>1, <3>1, <3>3
  <2> QED BY <2>3, <2>4, <2>5
<1> QED BY <1>3, <1>4, <1>5

\* Touch-edge and wikilinks stay among the stored nodes.
LEMMA LinksStored ==
  ASSUME EditInv, NEW n \in Stored, NEW targets \in SUBSET Stored
  PROVE  LinksOf(n, targets) \subseteq Stored \X Stored
<1>1. links[project] \subseteq Stored \X Stored
  BY DEF EditInv, TypeOK, Stored
<1>2. 0 \in Stored
  BY DEF EditInv, TypeOK, Stored
<1>3. Touched(n) \subseteq Stored \X Stored
  BY <1>1, <1>2 DEF Touched, Edges
<1> QED BY <1>3 DEF LinksOf

\* Typing, and the flush, on the node that is shown.
LEMMA DrawWidgetStep ==
  ASSUME EditInv, DrawWidget
  PROVE  EditInv'
<1>1. PICK a \in Answers, targets \in SUBSET Stored :
        LET known == IF a.changed THEN Here(selected) ELSE pending
            edit == IF known # NoEdit /\ known.project # project THEN NoEdit ELSE known
            flushes == a.done /\ edit # NoEdit
            written == IF flushes THEN {FlushPending(edit).id} ELSE {}
            typedOn == IF a.changed THEN {selected} ELSE {}
            displaced == IF edit # pending THEN PendingNode ELSE {}
            silent == IF a.done THEN {} ELSE Unheard
        IN /\ unsaved' = (unsaved \cup typedOn) \ written
           /\ abandoned' = (abandoned \cup displaced \cup silent) \cap unsaved'
           /\ widget' = a.widget
           /\ pending' = IF flushes THEN NoEdit ELSE edit
           /\ IF flushes
                THEN /\ links' = [links EXCEPT ![project] =
                                    LinksOf(FlushPending(edit).id, targets)]
                     /\ targets = {} \/ FewLinks(links')
                ELSE targets = {} /\ UNCHANGED links
  BY DEF DrawWidget
<1> DEFINE known == IF a.changed THEN Here(selected) ELSE pending
           edit == IF known # NoEdit /\ known.project # project THEN NoEdit ELSE known
           flushes == a.done /\ edit # NoEdit
           written == IF flushes THEN {edit.id} ELSE {}
           typedOn == IF a.changed THEN {selected} ELSE {}
           displaced == IF edit # pending THEN PendingNode ELSE {}
           silent == IF a.done THEN {} ELSE Unheard
<1>2. /\ unsaved' = (unsaved \cup typedOn) \ written
      /\ abandoned' = (abandoned \cup displaced \cup silent) \cap unsaved'
      /\ widget' = a.widget
      /\ pending' = IF flushes THEN NoEdit ELSE edit
      /\ flushes => links' = [links EXCEPT ![project] = LinksOf(edit.id, targets)]
      /\ ~flushes => links' = links
  BY <1>1 DEF FlushPending
<1>3. /\ part' = "buttons" /\ selected \in Stored
      /\ UNCHANGED <<project, size, switches, shown, selected, ride, inspector, pressed>>
  BY DEF DrawWidget, Drawn
<1>4. /\ project \in Projects /\ size[project] \in Nat /\ size[project] <= MaxNodes
      /\ Stored \subseteq Nodes /\ pending \in Edit \cup {NoEdit}
      /\ unsaved \subseteq Stored
  BY DEF EditInv, TypeOK, Stored, Nodes
<1>5. \A n \in Stored : Here(n) \in Edit /\ Here(n) # NoEdit
                        /\ Here(n).project = project /\ Here(n).id = n
  BY <1>4 DEF Here, Edit
<1>6. /\ a.widget \in Widget \cup {NoWidget} /\ a.changed \in BOOLEAN /\ a.done \in BOOLEAN
      /\ a.changed /\ ~a.done => a.widget \in Widget /\ a.widget.edited
      /\ widget \in Widget /\ widget.edited /\ widget.alive /\ ~a.done
           => a.widget \in Widget /\ a.widget.edited
  BY AnswersTell
<1>7. a.changed => edit = Here(selected)
  BY <1>3, <1>5
<1>8. edit # NoEdit => edit \in Edit /\ edit.project = project /\ edit.id \in Stored
  <2>1. CASE a.changed
    BY <1>3, <1>5, <1>7, <2>1
  <2>2. CASE ~a.changed
    BY <1>4, <2>2 DEF EditInv, PendingStored, Stored
  <2> QED BY <2>1, <2>2
<1> HIDE DEF known, edit
<1>9. links' \in [Projects -> SUBSET (Nodes \X Nodes)]
      /\ \A p \in Projects : links'[p] \subseteq (0..(size[p] - 1)) \X (0..(size[p] - 1))
  <2>1. links \in [Projects -> SUBSET (Nodes \X Nodes)]
        /\ \A p \in Projects : links[p] \subseteq (0..(size[p] - 1)) \X (0..(size[p] - 1))
    BY DEF EditInv, TypeOK
  <2>2. CASE ~flushes
    BY <1>2, <2>1, <2>2
  <2>3. CASE flushes
    <3>1. LinksOf(edit.id, targets) \subseteq Stored \X Stored
      BY <1>8, <2>3, LinksStored
    <3>2. LinksOf(edit.id, targets) \subseteq Nodes \X Nodes
      BY <1>4, <3>1
    <3> QED BY <1>2, <1>4, <2>1, <2>3, <3>1, <3>2 DEF Stored
  <2> QED BY <2>2, <2>3
<1>10. unsaved' \subseteq Stored /\ abandoned' \subseteq unsaved'
  BY <1>2, <1>3, <1>4
<1>11. pending' \in Edit \cup {NoEdit}
  BY <1>2, <1>8
<1>12. TypeOK'
  BY <1>2, <1>3, <1>6, <1>9, <1>10, <1>11 DEF EditInv, TypeOK, Stored
<1>13. PendingStored'
  BY <1>2, <1>3, <1>8 DEF PendingStored, Stored
<1>14. SessionOpen'
  <2> SUFFICES ASSUME NEW n \in unsaved', n \notin abandoned'
               PROVE  pending' = Here(n) /\ a.widget \in Widget /\ a.widget.edited
    BY <1>2, <1>3 DEF SessionOpen, Here
  <2>1. n \in Stored /\ n \notin written /\ n \in unsaved \cup typedOn
        /\ n \notin abandoned /\ n \notin displaced /\ n \notin silent
    BY <1>2, <1>10
  <2>2. edit = Here(n) => ~a.done /\ pending' = Here(n)
    BY <1>2, <1>5, <1>6, <2>1
  <2>3. CASE a.changed /\ n = selected
    BY <1>6, <1>7, <2>2, <2>3
  <2>4. CASE ~(a.changed /\ n = selected)
    <3>1. pending = Here(n) /\ widget \in Widget /\ widget.edited
      BY <2>1, <2>4 DEF EditInv, SessionOpen
    <3>2. edit = Here(n)
      BY <2>1, <3>1 DEF PendingNode
    <3>3. widget.alive
      BY <2>1, <2>2, <3>1, <3>2 DEF Unheard, PendingNode
    <3> QED BY <1>6, <2>2, <3>1, <3>2, <3>3
  <2> QED BY <2>3, <2>4
<1> QED BY <1>12, <1>13, <1>14 DEF EditInv

\* A widget that is not drawn has one drawing left to tell; its node is abandoned after.
LEMMA NotDrawnStep ==
  ASSUME EditInv, NotDrawn
  PROVE  EditInv'
<1>1. /\ part' = "buttons" /\ abandoned' = (abandoned \cup Unheard) \cap unsaved
      /\ UNCHANGED <<project, size, switches, unsaved, links, pending,
                     shown, selected, ride, inspector, pressed>>
  BY DEF NotDrawn
<1>2. CASE widget # NoWidget /\ widget.alive
  <2>1. widget \in Widget /\ widget' = [widget EXCEPT !.alive = FALSE]
    BY <1>2 DEF NotDrawn, EditInv, TypeOK
  <2>2. widget' \in Widget /\ widget'.edited = widget.edited
    BY <2>1 DEF Widget
  <2>3. TypeOK'
    BY <1>1, <2>2 DEF EditInv, TypeOK, Stored
  <2>4. PendingStored' /\ SessionOpen'
    BY <1>1, <2>2 DEF EditInv, PendingStored, SessionOpen, Here
  <2> QED BY <2>3, <2>4 DEF EditInv
<1>3. CASE ~(widget # NoWidget /\ widget.alive)
  <2>1. widget' = NoWidget
    BY <1>3 DEF NotDrawn
  <2>2. TypeOK'
    BY <1>1, <2>1 DEF EditInv, TypeOK, Stored
  <2>3. PendingStored'
    BY <1>1 DEF EditInv, PendingStored
  <2>4. ASSUME NEW n \in unsaved, n \notin abandoned PROVE n \in Unheard
    <3>1. pending = Here(n) /\ widget \in Widget /\ n \in Stored
      BY <2>4 DEF EditInv, SessionOpen, TypeOK
    <3> QED BY <1>3, <3>1 DEF Unheard, PendingNode
  <2>5. SessionOpen'
    BY <1>1, <2>4 DEF SessionOpen
  <2> QED BY <2>2, <2>3, <2>5 DEF EditInv
<1> QED BY <1>2, <1>3

\* Saving, switching and dying leave no text that differs from the file.
LEMMA WrittenSteps ==
  ASSUME EditInv, SaveToDisk \/ SwitchProject \/ Crash
  PROVE  EditInv'
<1> USE DEF SaveToDisk, SwitchProject, Crash, Free, EndFrame, OpenedSelection
<1>1. unsaved' = {} /\ abandoned' = {} /\ UNCHANGED <<size, links>>
      /\ pending' \in {pending, NoEdit} /\ widget' \in {widget, NoWidget}
  OBVIOUS
<1>2. /\ part' \in {"select", "inspect", "buttons"} /\ project' \in Projects
      /\ ride' \in BOOLEAN /\ inspector' \in BOOLEAN /\ pressed' \in BOOLEAN
  BY DEF EditInv, TypeOK
<1>3. \A p \in Projects : size[p] \in 0..size[p]
  BY DEF EditInv, TypeOK
<1>4. shown' \in 0..size[project'] /\ switches' \in 0..MaxSwitches
  BY <1>3 DEF EditInv, TypeOK
<1>5. selected' \in Stored' \cup {None}
  BY <1>1 DEF EditInv, TypeOK, Stored
<1>6. TypeOK'
  <2>1. /\ size' \in [Projects -> Loaded..MaxNodes]
        /\ links' \in [Projects -> SUBSET (Nodes \X Nodes)]
        /\ \A p \in Projects : links'[p] \subseteq (0..(size'[p] - 1)) \X (0..(size'[p] - 1))
    BY <1>1 DEF EditInv, TypeOK
  <2>2. widget' \in Widget \cup {NoWidget} /\ pending' \in Edit \cup {NoEdit}
    BY <1>1 DEF EditInv, TypeOK
  <2> QED BY <1>1, <1>2, <1>4, <1>5, <2>1, <2>2 DEF TypeOK
<1>7. PendingStored' /\ SessionOpen'
  BY <1>1 DEF EditInv, PendingStored, SessionOpen
<1> QED BY <1>6, <1>7 DEF EditInv

\* The add-edge list adds an edge between two stored nodes.
LEMMA AddEdgeStep ==
  ASSUME EditInv, AddEdge
  PROVE  EditInv'
<1>1. PICK n \in Stored : links' = [links EXCEPT ![project] = @ \cup {<<selected, n>>}]
  BY DEF AddEdge
<1>2. /\ part' = "select" /\ pressed' = FALSE /\ selected \in Stored
      /\ UNCHANGED <<project, size, switches, unsaved, widget, pending, abandoned,
                     shown, selected, ride, inspector>>
  BY DEF AddEdge, Free, EndFrame, Drawn
<1>3. /\ project \in Projects /\ size[project] \in Nat /\ size[project] <= MaxNodes
      /\ links \in [Projects -> SUBSET (Nodes \X Nodes)]
      /\ \A p \in Projects : links[p] \subseteq (0..(size[p] - 1)) \X (0..(size[p] - 1))
  BY DEF EditInv, TypeOK
<1>4. Stored \subseteq Nodes
  BY <1>3 DEF Stored, Nodes
<1>5. links' \in [Projects -> SUBSET (Nodes \X Nodes)]
  BY <1>1, <1>2, <1>3, <1>4
<1>6. \A p \in Projects : links'[p] \subseteq (0..(size[p] - 1)) \X (0..(size[p] - 1))
  BY <1>1, <1>2, <1>3 DEF Stored
<1>7. TypeOK'
  BY <1>2, <1>5, <1>6 DEF EditInv, TypeOK, Stored
<1>8. PendingStored' /\ SessionOpen'
  BY <1>2 DEF EditInv, PendingStored, SessionOpen, Here
<1> QED BY <1>7, <1>8 DEF EditInv

LEMMA InvStutter ==
  ASSUME EditInv, UNCHANGED vars
  PROVE  EditInv'
<1>1. TypeOK'
  BY DEF EditInv, TypeOK, Stored
<1>2. PendingStored' /\ SessionOpen'
  BY DEF EditInv, PendingStored, SessionOpen, Here
<1> QED BY <1>1, <1>2 DEF EditInv

LEMMA InvInductive == EditInv /\ [Next]_vars => EditInv'
<1> SUFFICES ASSUME EditInv, [Next]_vars PROVE EditInv'
  OBVIOUS
<1>1. CASE NoChange \/ StartRide \/ EndRide \/ PickNode \/ NoButton \/ GoElsewhere
  BY <1>1, ViewSteps
<1>2. CASE PickPhantom
  BY <1>2, PickPhantomStep
<1>3. CASE DrawWidget
  BY <1>3, DrawWidgetStep
<1>4. CASE NotDrawn
  BY <1>4, NotDrawnStep
<1>5. CASE SaveToDisk \/ SwitchProject \/ Crash
  BY <1>5, WrittenSteps
<1>6. CASE AddEdge
  BY <1>6, AddEdgeStep
<1>7. CASE UNCHANGED vars
  BY <1>7, InvStutter
<1> QED BY <1>1, <1>2, <1>3, <1>4, <1>5, <1>6, <1>7 DEF Next, Select, Inspect, Buttons

LEMMA Invariance == Spec => []EditInv
<1> QED BY InvInit, InvInductive, PTL DEF Spec

\* Every edge and every pending edit is of stored nodes, in every behaviour
\* (app/session.h:24-46, inspector_tab.cpp:158-168).
THEOREM EditTypeCorrect == Spec => []TypeOK
<1>1. EditInv => TypeOK
  BY DEF EditInv
<1> QED BY <1>1, Invariance, PTL

\* What a crash would lose is the pending edit of the focused widget or of an abandoned
\* session, for any projects and sizes (inspector_tab.cpp:158-205).
THEOREM UnsavedKnown == Spec => []UnsavedIsKnown
<1>1. EditInv => UnsavedIsKnown
  BY DEF EditInv, SessionOpen, UnsavedIsKnown
<1> QED BY <1>1, Invariance, PTL

------------------------------------------------------------------------------
\* The flush adds edges from its node, and the touch-edge, only between nodes not
\* joined yet.
LEMMA LinksJoin ==
  ASSUME NEW n, NEW targets, NEW e \in LinksOf(n, targets), e \notin Edges
  PROVE  e[1] # e[2] /\ <<e[2], e[1]>> \notin LinksOf(n, targets)
<1>1. e \in Touched(n) => n # Self /\ ~Linked(Edges, Self, n) /\ e = <<Self, n>>
  BY DEF Touched
<1>2. e \notin Touched(n) => \E t \in targets : t # n /\ ~Linked(Touched(n), n, t) /\ e = <<n, t>>
  BY DEF LinksOf
<1>3. CASE e \in Touched(n)
  <2>1. n # Self /\ e[1] = Self /\ e[2] = n /\ <<n, Self>> \notin Edges /\ e = <<Self, n>>
    BY <1>1, <1>3 DEF Linked
  <2>2. <<n, Self>> \notin Touched(n)
    BY <2>1 DEF Touched
  <2>3. Linked(Touched(n), n, Self)
    BY <1>3, <2>1 DEF Linked
  <2>4. <<n, Self>> \notin LinksOf(n, targets)
    BY <2>2, <2>3 DEF LinksOf
  <2> QED BY <2>1, <2>4
<1>4. CASE e \notin Touched(n)
  <2>1. PICK t \in targets : t # n /\ ~Linked(Touched(n), n, t) /\ e = <<n, t>>
    BY <1>2, <1>4
  <2>2. <<t, n>> \notin LinksOf(n, targets)
    BY <2>1 DEF LinksOf, Linked
  <2> QED BY <2>1, <2>2
<1> QED BY <1>3, <1>4

\* Drawing the widget adds what one flush adds, or nothing.
LEMMA DrawWidgetLinks ==
  ASSUME DrawWidget
  PROVE  \E id, targets : links' = [links EXCEPT ![project] = LinksOf(id, targets)] \/ links' = links
<1>1. PICK a \in Answers, targets \in SUBSET Stored :
        LET known == IF a.changed THEN Here(selected) ELSE pending
            edit == IF known # NoEdit /\ known.project # project THEN NoEdit ELSE known
        IN IF a.done /\ edit # NoEdit
             THEN /\ links' = [links EXCEPT ![project] =
                                 LinksOf(FlushPending(edit).id, targets)]
                  /\ targets = {} \/ FewLinks(links')
             ELSE targets = {} /\ UNCHANGED links
  BY DEF DrawWidget
<1> DEFINE known == IF a.changed THEN Here(selected) ELSE pending
           edit == IF known # NoEdit /\ known.project # project THEN NoEdit ELSE known
<1>2. links' = [links EXCEPT ![project] = LinksOf(FlushPending(edit).id, targets)] \/ links' = links
  BY <1>1
<1> HIDE DEF edit
<1> QED BY <1>2

\* Who has a place is stored; the next index is not.
LEMMA PlacedStored ==
  ASSUME NEW m \in Nat, NEW k \in 0..m, NEW T \in SUBSET (0..(k - 1)), NEW t \in T
  PROVE  t \in 0..(m - 1) /\ m \notin 0..(m - 1)
<1>1. t \in 0..(k - 1)
  OBVIOUS
<1> QED BY <1>1

\* One step joins only what was not joined.
LEMMA JoinsStep ==
  ASSUME EditInv, [Next]_vars, NEW p \in Projects, NEW e \in links'[p] \ links[p]
  PROVE  e[1] # e[2] /\ <<e[2], e[1]>> \notin links'[p]
<1>1. /\ project \in Projects /\ size[project] \in Nat
      /\ links \in [Projects -> SUBSET (Nodes \X Nodes)]
      /\ \A q \in Projects : links[q] \subseteq (0..(size[q] - 1)) \X (0..(size[q] - 1))
  BY DEF EditInv, TypeOK
<1>2. CASE PickPhantom
  <2>1. PICK targets \in SUBSET (0..(shown' - 1)) :
          links' = [links EXCEPT ![project] = @ \cup {<<size[project], t>> : t \in targets}]
    BY <1>2 DEF PickPhantom
  <2>2. shown' \in 0..size[project]
    BY <1>2 DEF PickPhantom, Snapshot, EditInv, TypeOK
  <2>3. p = project /\ links'[p] = links[p] \cup {<<size[project], t>> : t \in targets}
    BY <1>1, <2>1
  <2>4. PICK t \in targets : e = <<size[project], t>>
    BY <2>3
  <2>5. t \in 0..(size[project] - 1) /\ size[project] \notin 0..(size[project] - 1)
    BY <1>1, <2>2, PlacedStored
  <2>6. <<t, size[project]>> \notin links[p]
    <3>1. links[p] \subseteq (0..(size[project] - 1)) \X (0..(size[project] - 1))
      BY <1>1, <2>3
    <3> QED BY <2>5, <3>1
  <2>7. t # size[project]
    BY <2>5
  <2> QED BY <2>3, <2>4, <2>6, <2>7
<1>3. CASE DrawWidget
  <2>1. PICK id, targets :
          links' = [links EXCEPT ![project] = LinksOf(id, targets)] \/ links' = links
    BY <1>3, DrawWidgetLinks
  <2>2. p = project /\ links'[p] = LinksOf(id, targets)
    BY <1>1, <2>1
  <2>3. e \notin Edges
    BY <2>2 DEF Edges
  <2> QED BY <2>2, <2>3, LinksJoin
<1>4. CASE AddEdge
  <2>1. PICK n \in Stored \ {selected} :
          /\ ~Linked(Edges, selected, n)
          /\ links' = [links EXCEPT ![project] = @ \cup {<<selected, n>>}]
    BY <1>4 DEF AddEdge
  <2>2. p = project /\ links'[p] = links[p] \cup {<<selected, n>>} /\ e = <<selected, n>>
    BY <1>1, <2>1
  <2>3. <<n, selected>> \notin links[p]
    BY <2>1, <2>2 DEF Linked, Edges
  <2> QED BY <2>1, <2>2, <2>3
<1>5. CASE UNCHANGED links
  BY <1>5
<1>6. PickPhantom \/ DrawWidget \/ AddEdge \/ UNCHANGED links
  BY DEF Next, Select, Inspect, Buttons, NoChange, StartRide, EndRide, PickNode, NotDrawn,
         NoButton, GoElsewhere, SaveToDisk, SwitchProject, Crash
<1> QED BY <1>2, <1>3, <1>4, <1>5, <1>6

\* Pins, touch-edges, wikilinks and the add-edge list join two nodes one way only, for
\* any number of nodes, targets and edges (inspector_tab.cpp:219-272 and 467-488).
THEOREM JoinedOneWay == Spec => JoinsTheUnjoined
<1>1. EditInv /\ [Next]_vars =>
        [\A p \in Projects : \A e \in links'[p] \ links[p] :
           e[1] # e[2] /\ <<e[2], e[1]>> \notin links'[p]]_vars
  BY JoinsStep
<1> QED BY <1>1, Invariance, PTL DEF Spec, JoinsTheUnjoined
===============================================================================
