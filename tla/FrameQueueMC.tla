---------------------------- MODULE FrameQueueMC ----------------------------
(***************************************************************************)
(* FrameQueue on a small instance.  The constants are given in the cfgs.   *)
(***************************************************************************)
EXTENDS FrameQueue
=============================================================================
