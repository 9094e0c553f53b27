---------------------------- MODULE MC_SessionStore ----------------------------
(* SessionStore for TLC.  Two projects, one of which does not exist yet, so that  *)
(* seeding, switching, deleting and recreating are all met.  The kinds of edges   *)
(* are only ever compared with each other, so they are interchangeable.           *)
EXTENDS SessionStore, TLC

KindSymmetry == Permutations(Kinds)
================================================================================
