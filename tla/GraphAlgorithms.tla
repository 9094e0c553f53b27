----------------------------- MODULE GraphAlgorithms -----------------------------
(***************************************************************************)
(* Two algorithms over the nodes and edges of a project:                   *)
(* label_propagation (graph/cluster.cpp), which "auto-cluster" runs, and   *)
(* personalized_pagerank (graph/ppr.cpp), which ranks the neighbourhood of *)
(* an anchor.  A step is one node of a sweep, or one iteration.            *)
(*                                                                         *)
(* Of a rank only matters whether it is positive.  Edges have no           *)
(* direction; loops and edges out of bounds are dropped by both functions. *)
(***************************************************************************)
EXTENDS Integers, FiniteSetsExt

CONSTANTS
  NodeCount,
  MaxParallel,   \* bound on the edges between two nodes
  MaxIters,      \* max_iters of label_propagation, 100 in project_tab.cpp
  Iterations     \* iterations of personalized_pagerank, 20 by default

ASSUME GraphAssumption == {NodeCount, MaxParallel, MaxIters, Iterations} \subseteq Nat

Nodes == 0..(NodeCount - 1)

VARIABLES
  parallel,    \* the edges between each two nodes, by number
  alive,       \* the nodes that are no tombstones
  job,         \* what runs, or has returned
  labels, node, changed, iter,    \* label_propagation
  anchor, ranked, walked          \* personalized_pagerank: who has a rank

graphVars == <<parallel, alive>>
clusterVars == <<labels, node, changed, iter>>
rankVars == <<anchor, ranked, walked>>
algorithmVars == <<graphVars, job, clusterVars, rankVars>>

GraphInit ==
  /\ parallel \in [kSubset(2, Nodes) -> 0..MaxParallel] /\ alive \in SUBSET Nodes
  /\ labels = [i \in Nodes |-> i] /\ node = 0 /\ changed = FALSE /\ iter = 0
  /\ walked = 0
  /\ \/ job = "cluster" /\ anchor = 0 /\ ranked = {}
     \/ job = "rank" /\ anchor \in alive /\ ranked = {anchor}

\* adj: how often b is among a's neighbours.
Weight(a, b) == IF a # b /\ {a, b} \subseteq alive THEN parallel[{a, b}] ELSE 0
Neighbors(a) == {b \in Nodes : Weight(a, b) > 0}

------------------------------------------------------------------------------
(* label_propagation.  A label that changes is seen by the nodes after it  *)
(* in the same sweep.                                                      *)

\* The edges that count, each by its ends and its number.
LiveEdges == {x \in kSubset(2, alive) \X (1..MaxParallel) : x[2] <= parallel[x[1]]}

Votes(i, label) == Cardinality({x \in LiveEdges :
                     i \in x[1] /\ \A n \in x[1] \ {i} : labels[n] = label})
Leading(i) == {l \in {labels[n] : n \in Neighbors(i)} :
                 \A n \in Neighbors(i) : Votes(i, labels[n]) <= Votes(i, l)}

LastOfLeading(i) == Max(Leading(i))     \* mutant: ties to the largest label
BestLabel(i) == Min(Leading(i))

LastChange(relabelled) == relabelled      \* mutant: reset at each node, not at each sweep
AnyChange(relabelled) == changed \/ relabelled

Relabel ==
  /\ job = "cluster" /\ iter < MaxIters /\ node < NodeCount
  /\ labels' = IF Neighbors(node) = {} THEN labels
                                       ELSE [labels EXCEPT ![node] = BestLabel(node)]
  /\ changed' = AnyChange(labels' # labels)
  /\ node' = node + 1
  /\ UNCHANGED <<graphVars, job, iter, rankVars>>

NextSweep ==
  /\ job = "cluster" /\ iter < MaxIters /\ node = NodeCount /\ changed
  /\ iter' = iter + 1 /\ node' = 0 /\ changed' = FALSE
  /\ UNCHANGED <<graphVars, job, labels, rankVars>>

ReturnLabels ==
  /\ job = "cluster"
  /\ iter = MaxIters \/ (node = NodeCount /\ ~changed)
  /\ job' = "clustered"
  /\ UNCHANGED <<graphVars, clusterVars, rankVars>>

------------------------------------------------------------------------------
(* personalized_pagerank, with a restart between 0 and 1.                  *)

\* A share goes back to the anchor, and so does what a node without neighbours has.
Walk ==
  /\ job = "rank" /\ walked < Iterations
  /\ ranked' = {anchor} \cup UNION {Neighbors(u) : u \in ranked}
  /\ walked' = walked + 1
  /\ UNCHANGED <<graphVars, job, clusterVars, anchor>>

ReturnRanks ==
  /\ job = "rank" /\ walked = Iterations
  /\ job' = "ranked"
  /\ UNCHANGED <<graphVars, clusterVars, rankVars>>

GraphNext == Relabel \/ NextSweep \/ ReturnLabels \/ Walk \/ ReturnRanks

GraphSpec == GraphInit /\ [][GraphNext]_algorithmVars

------------------------------------------------------------------------------
(* Properties.                                                             *)

\* The live edges whose ends carry the same label.
Agreement == Cardinality({x \in LiveEdges : \A a, b \in x[1] : labels[a] = labels[b]})

\* Why clustering stops: a node is relabelled only if more of the edges then agree, or
\* as many and its label is smaller, so no sweep undoes another and two nodes never
\* swap labels for ever (cluster.cpp:36-57).
RelabelRises ==
  [][\A i \in Nodes : labels'[i] # labels[i] =>
       Agreement' > Agreement \/ (Agreement' = Agreement /\ labels'[i] < labels[i])]_algorithmVars

\* Some set closed under the edges holds a and not b.
Apart(a, b) == \E S \in SUBSET Nodes : /\ a \in S /\ b \notin S
                                       /\ \A s \in S : Neighbors(s) \subseteq S

InHops(v) == \E n \in 0..Iterations : \E path \in [0..n -> Nodes] :
               /\ path[0] = anchor /\ path[n] = v
               /\ \A k \in 1..n : path[k] \in Neighbors(path[k - 1])

\* Clusters never join what no live edge joins (cluster.h:24-26), and unless the cap
\* cut them short every node has the label its neighbours have most (cluster.h:12-15);
\* a rank is positive for exactly the live nodes within `iterations` hops of the
\* anchor (ppr.h:23-25, which leaves the hops out).
ResultsRight ==
  /\ \A i \in Nodes : ~Apart(i, labels[i])
  /\ job = "clustered" => iter = MaxIters \/ \A i \in Nodes :
                            Neighbors(i) # {} => labels[i] = BestLabel(i)
  /\ job = "ranked" => ranked = {v \in Nodes : InHops(v)}
===============================================================================
