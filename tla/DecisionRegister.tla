---------------------------- MODULE DecisionRegister ----------------------------
(***************************************************************************)
(* What the delivery of financial decisions promises: the decisions about  *)
(* a contract are numbered, each receiver only ever moves on to a later    *)
(* one, and Control counts a decision as settled only when every receiver  *)
(* it is meant for has moved on to it, and not to an earlier or other one. *)
(***************************************************************************)
EXTENDS Integers

CONSTANT Receivers

VARIABLES
    decided,   \* number of the last decision
    meant,     \* the receivers each decision is meant for
    held,      \* the decision each receiver has got to
    settled    \* the decisions that are settled

vars == <<decided, meant, held, settled>>

\* At rest: every receiver has got to the last decision, and all are settled.
Init == /\ decided \in Nat
        /\ meant \in [1..decided -> SUBSET Receivers]
        /\ held = [r \in Receivers |-> decided]
        /\ settled = 1..decided

\* A new decision may be taken at any time, whatever became of the others.
Decide == \E to \in SUBSET Receivers :
    /\ decided' = decided + 1
    /\ meant' = [v \in 1..(decided + 1) |-> IF v <= decided THEN meant[v] ELSE to]
    /\ UNCHANGED <<held, settled>>

Receive == \E r \in Receivers, v \in 1..decided :
    /\ v >= held[r]
    /\ held' = [held EXCEPT ![r] = v]
    /\ UNCHANGED <<decided, meant, settled>>

\* Only the last decision is settled.
Settle == /\ decided > 0
          /\ \A r \in meant[decided] : held[r] = decided
          /\ settled' = settled \cup {decided}
          /\ UNCHANGED <<decided, meant, held>>

Next == Decide \/ Receive \/ Settle

Spec == Init /\ [][Next]_vars

-----------------------------------------------------------------------------
\* What follows: whoever a settled decision is meant for has got to it, and
\* never falls behind it again.
SettledIsHeld == \A v \in settled : \A r \in meant[v] : held[r] >= v
===============================================================================
