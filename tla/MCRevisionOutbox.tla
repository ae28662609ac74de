--------------------------- MODULE MCRevisionOutbox ---------------------------
(***************************************************************************)
(* Instances of RevisionOutbox for TLC.                                    *)
(***************************************************************************)
EXTENDS RevisionOutbox, TLC

CONSTANTS w1, w2, c1, c2

\* Timers are interchangeable, and so are handlers.
Symmetry == Permutations(Workers) \cup Permutations(Callers)
===============================================================================
