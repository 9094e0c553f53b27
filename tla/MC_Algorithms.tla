------------------------------ MODULE MC_Algorithms ------------------------------
(* GraphAlgorithms and Octree for TLC: in each behaviour one call of one of them. *)
EXTENDS GraphAlgorithms, Octree

\* One fixed input for the module that does not run, which takes no step.
NoGraph == /\ parallel = [e \in kSubset(2, Nodes) |-> 0] /\ alive = {}
           /\ labels = [i \in Nodes |-> i] /\ node = 0 /\ changed = FALSE /\ iter = 0
           /\ walked = 0 /\ job = "none" /\ anchor = 0 /\ ranked = {}
NoOctree == /\ at = [p \in Particles |-> [k \in 1..(MaxDepth + 1) |-> 0]] /\ off = {}
            /\ next = 0 /\ calls = <<>> /\ split = {} /\ holds = <<>>
            /\ target = -1 /\ visits = <<>> /\ felt = [p \in Particles |-> 0]

Init == \/ GraphInit /\ NoOctree
        \/ OctreeInit /\ NoGraph

Next == \/ job # "none" /\ GraphNext /\ UNCHANGED octreeVars
        \/ job = "none" /\ OctreeNext /\ UNCHANGED algorithmVars

Spec == Init /\ [][Next]_<<algorithmVars, octreeVars>>
===================================================================================
