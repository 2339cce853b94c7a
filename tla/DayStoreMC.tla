----------------------------- MODULE DayStoreMC -----------------------------
(***************************************************************************)
(* DayStore on small instances.  The constants are given in the cfgs.      *)
(***************************************************************************)
EXTENDS DayStore
=============================================================================
