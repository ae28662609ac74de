-------------------------- MODULE MCCommercialTerms --------------------------
(***************************************************************************)
(* Instances of CommercialTerms for TLC.                                   *)
(***************************************************************************)
EXTENDS CommercialTerms, TLC

CONSTANTS k1, k2, h1, h2, t1, t2, x, y

\* Handlers are interchangeable, and so are keys.
Symmetry == Permutations(Handlers) \cup Permutations(Keys)
===============================================================================
