------------------------------ MODULE MC_AskBridge ------------------------------
(* AskBridge for TLC.  Runs of the script differ only in their sockets, tools too. *)
EXTENDS AskBridge

Symmetry == Permutations(Scripts) \cup Permutations(Clients \ Scripts) \cup Permutations(Nodes)
=================================================================================
