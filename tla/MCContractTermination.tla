------------------------- MODULE MCContractTermination -------------------------
(***************************************************************************)
(* Instances of ContractTermination for TLC.                               *)
(***************************************************************************)
EXTENDS ContractTermination, TLC

CONSTANTS w1, w2, c1, c2, i1

\* Timers are interchangeable, and so are handlers of one kind.
Symmetry == Permutations(Workers) \cup Permutations(Callers)
===============================================================================
