--------------------------- MODULE HlsRecorderMC ---------------------------
(***************************************************************************)
(* HlsRecorder on small instances.  The constants are given in the cfgs.   *)
(***************************************************************************)
EXTENDS HlsRecorder
=============================================================================
