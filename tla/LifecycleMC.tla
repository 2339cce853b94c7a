---------------------------- MODULE LifecycleMC ----------------------------
(***************************************************************************)
(* Lifecycle on a small queue.  The constant is given in the cfg.          *)
(***************************************************************************)
EXTENDS Lifecycle
=============================================================================
