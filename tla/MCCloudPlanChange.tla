--------------------------- MODULE MCCloudPlanChange ----------------------------
(***************************************************************************)
(* Two processes on the request and one that cancels it, over two or three *)
(* days with the paid period ending on the second.                         *)
(***************************************************************************)
EXTENDS CloudPlanChange, TLC

CONSTANTS w1, w2, c1

Symmetry == Permutations(Workers)
===============================================================================
