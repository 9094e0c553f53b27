--------------------------- MODULE MC_PhysicsThread ---------------------------
(* PhysicsThread for TLC.  A place the operator pins nodes to and a place the  *)
(* forces move them to are enough to tell a held node from a moving one.  The  *)
(* loaded edge is an orphan, until the next new node takes the index it names. *)
EXTENDS PhysicsThread

Orphans == {<<1, 2>>}
===============================================================================
