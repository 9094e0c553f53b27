----------------------------- MODULE DurableGraph -----------------------------
(***************************************************************************)
(* What the project files promise the operator.  A project has a history   *)
(* of graphs, the last of which is current; a crash of the process loses   *)
(* none of it, a loss of power may lose the newest ones, never more than   *)
(* back to the last checkpoint, and never a part of one.  From one graph   *)
(* to the next a node, an edge or a tombstone is added or a tier changed:  *)
(* a node never disappears, is never renumbered and never comes back, and  *)
(* an edge always joins two nodes of its graph.                            *)
(***************************************************************************)
EXTENDS Naturals, Sequences

CONSTANT Projects

VARIABLE history

Node == [self : BOOLEAN, deleted : BOOLEAN]
Final(s) == s[Len(s)]

\* A project that was never saved as a whole.
NoGraph == [nodes |-> <<>>, edges |-> <<>>]

\* A graph as load_graph accepts it: numbered without gaps, no edge dangling.
IsGraph(g) ==
  /\ g.nodes \in Seq(Node) /\ g.nodes # <<>>
  /\ \A k \in 1..Len(g.edges) : g.edges[k] \in (1..Len(g.nodes)) \X (1..Len(g.nodes))

AddsNode(g, h) == \E n \in Node : h = [g EXCEPT !.nodes = Append(@, n)]
AddsEdge(g, h) == \E e \in (1..Len(g.nodes)) \X (1..Len(g.nodes)) :
                    h = [g EXCEPT !.edges = Append(@, e)]
Retires(g, h) == \E i \in 1..Len(g.nodes) : h = [g EXCEPT !.nodes[i].deleted = TRUE]
Retiers(g, h) == \E i \in 1..Len(g.nodes), b \in BOOLEAN : h = [g EXCEPT !.nodes[i].self = b]

\* One commit.
Commits(g, h) == \/ h = g
                 \/ g = NoGraph /\ IsGraph(h)
                 \/ /\ g # NoGraph /\ h # NoGraph
                    /\ AddsNode(g, h) \/ AddsEdge(g, h) \/ Retires(g, h) \/ Retiers(g, h)

Init == \A p \in Projects : \/ history[p] = <<>>
                            \/ \E g \in {Final(history[p])} : history[p] = <<g>> /\ IsGraph(g)

Create(p) == history[p] = <<>> /\ history'[p] = <<NoGraph>>
Commit(p) == /\ history[p] # <<>> /\ Len(history'[p]) = Len(history[p]) + 1
             /\ SubSeq(history'[p], 1, Len(history[p])) = history[p]
             /\ Commits(Final(history[p]), Final(history'[p]))
Checkpoint(p) == history[p] # <<>> /\ history'[p] = <<Final(history[p])>>
LosePower(p) == \E k \in 1..Len(history[p]) : history'[p] = SubSeq(history[p], 1, k)
Remove(p) == history'[p] = <<>>

\* A loss of power may strike every file at once; the rest is one project's.
Next == \/ \E p \in Projects :
             /\ Create(p) \/ Commit(p) \/ Checkpoint(p) \/ Remove(p)
             /\ \A q \in Projects \ {p} : history'[q] = history[q]
        \/ \A p \in Projects : history'[p] = history[p] \/ LosePower(p)

Spec == Init /\ [][Next]_history
===============================================================================
