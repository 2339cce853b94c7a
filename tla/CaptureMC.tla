----------------------------- MODULE CaptureMC -----------------------------
(***************************************************************************)
(* Capture on small instances: 12 units make a second, the high rate is 3  *)
(* frames a second and the low rate 1.  The sensor is faster than the high *)
(* rate, under-runs it, or stalls for more than a second.                  *)
(***************************************************************************)
EXTENDS Capture

SensorGaps == {3, 5, 14}
=============================================================================
