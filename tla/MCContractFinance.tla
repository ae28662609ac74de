--------------------------- MODULE MCContractFinance ----------------------------
(***************************************************************************)
(* A small instance: restricted and suspended one and two days after an    *)
(* invoice was due instead of four and eight, a period of a day or two.    *)
(***************************************************************************)
EXTENDS ContractFinance
===============================================================================
