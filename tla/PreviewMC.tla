----------------------------- MODULE PreviewMC -----------------------------
(***************************************************************************)
(* Preview with two browsers.  The constants are given in the cfgs.        *)
(***************************************************************************)
EXTENDS Preview
=============================================================================
