---------------------------- MODULE LayoutService ----------------------------
(***************************************************************************)
(* What the layout worker promises its caller, without threads, locks or a *)
(* wake-up flag: the service serves requests for nodes, edges, pins and    *)
(* tombstones a few at a time, and it may settle, that is stop working,    *)
(* only when it has served them all.  A request unsettles it.              *)
(***************************************************************************)
EXTENDS Naturals, Sequences

CONSTANTS Edges, Pin, NoPin, MaxNodes

VARIABLES
  wantNodes, wantEdges, wantPins, wantDisabled, \* what has been asked for
  seenNodes, seenEdges, seenPins, seenDisabled, \* what the layout accounts for
  settled                                       \* the service has stopped

want == <<wantNodes, wantEdges, wantPins, wantDisabled>>
seen == <<seenNodes, seenEdges, seenPins, seenDisabled>>
vars == <<want, seen, settled>>

Served == want = seen

Init ==
  /\ wantNodes \in 1..MaxNodes /\ wantEdges \in Seq(Edges)   \* the loaded graph
  /\ wantPins = [i \in 1..MaxNodes |-> NoPin] /\ wantDisabled = {}
  /\ Served
  /\ settled = FALSE

AddNode == wantNodes' = wantNodes + 1 /\ UNCHANGED <<wantEdges, wantPins, wantDisabled>>
AddEdge == /\ \E e \in Edges : wantEdges' = Append(wantEdges, e)
           /\ UNCHANGED <<wantNodes, wantPins, wantDisabled>>
ChangePin == /\ \E i \in 1..MaxNodes, p \in Pin :
                  i <= wantNodes /\ wantPins' = [wantPins EXCEPT ![i] = p]
             /\ UNCHANGED <<wantNodes, wantEdges, wantDisabled>>
Disable == /\ \E i \in 1..wantNodes : wantDisabled' = wantDisabled \cup {i}
           /\ UNCHANGED <<wantNodes, wantEdges, wantPins>>

Request == (AddNode \/ AddEdge \/ ChangePin \/ Disable) /\ settled' = FALSE /\ UNCHANGED seen

\* Nodes and edges enter together; a pin or a tombstone of a node that has not
\* entered yet waits for it.
TakeGraph == /\ seenNodes' = wantNodes /\ seenEdges' = wantEdges
             /\ UNCHANGED <<seenPins, seenDisabled>>
TakePins == /\ seenPins' = [i \in 1..MaxNodes |-> IF i <= seenNodes THEN wantPins[i]
                                                                  ELSE NoPin]
            /\ UNCHANGED <<seenNodes, seenEdges, seenDisabled>>
TakeDisabled == /\ seenDisabled' = wantDisabled \cap (1..seenNodes)
                /\ UNCHANGED <<seenNodes, seenEdges, seenPins>>

Serve == ~settled /\ (TakeGraph \/ TakePins \/ TakeDisabled) /\ UNCHANGED <<want, settled>>

Settle == ~settled /\ Served /\ settled' = TRUE /\ UNCHANGED <<want, seen>>

\* A phantom makes a settled layout move again.
Disturb == settled /\ settled' = FALSE /\ UNCHANGED <<want, seen>>

Next == Request \/ Serve \/ Settle \/ Disturb

Spec == Init /\ [][Next]_vars
==============================================================================
