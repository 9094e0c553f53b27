-------------------------- MODULE MC_PhantomLifecycle --------------------------
(* PhantomLifecycle for TLC.  Two ids, so that one can collide with or outlive  *)
(* another; two projects, so that a phantom can arrive for the one just left.   *)
EXTENDS PhantomLifecycle
================================================================================
