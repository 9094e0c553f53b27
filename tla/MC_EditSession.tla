------------------------------ MODULE MC_EditSession ------------------------------
(* EditSession for TLC: two projects of two nodes each, and room for a pinned one. *)
EXTENDS EditSession
===================================================================================
