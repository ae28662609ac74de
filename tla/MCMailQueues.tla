------------------------------ MODULE MCMailQueues ------------------------------
(***************************************************************************)
(* Three instances of the program at one mail of each queue.                *)
(***************************************************************************)
EXTENDS MailQueues

CONSTANTS w1, w2, w3
===============================================================================
