--------------------------- MODULE MCCloudOnboarding ---------------------------
(***************************************************************************)
(* Instances of CloudOnboarding for TLC.                                   *)
(***************************************************************************)
EXTENDS CloudOnboarding

CONSTANTS c1, c2, e1, e2
===============================================================================
