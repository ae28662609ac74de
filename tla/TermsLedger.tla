------------------------------ MODULE TermsLedger ------------------------------
(***************************************************************************)
(* What the delivery of commercial revisions promises, without saying how: *)
(* Billing holds only what Control has recorded, Control believes only     *)
(* what Billing has confirmed, and a revision withdrawn before it takes    *)
(* effect ends up dropped by Billing once Billing has heard of it.  No     *)
(* claim, lease, attempt, timer or message appears here.                   *)
(***************************************************************************)
CONSTANT Revisions

VARIABLES
    control,    \* what Control records of the delivery of each revision
    effective,  \* whether its date has come
    withdrawn,  \* what Control records of its cancellation
    ledger      \* what Billing holds

vars == <<control, effective, withdrawn, ledger>>

Init == /\ control   = [r \in Revisions |-> "absent"]
        /\ effective = [r \in Revisions |-> FALSE]
        /\ withdrawn = [r \in Revisions |-> "none"]
        /\ ledger    = [r \in Revisions |-> "unknown"]

Record(r) ==
    /\ control[r] = "absent"
    /\ control' = [control EXCEPT ![r] = "pending"]
    /\ \E now \in BOOLEAN : effective' = [effective EXCEPT ![r] = now]
    /\ UNCHANGED <<withdrawn, ledger>>

TakesEffect(r) ==
    /\ control[r] # "absent"
    /\ effective' = [effective EXCEPT ![r] = TRUE]
    /\ UNCHANGED <<control, withdrawn, ledger>>

BillingLearns(r) ==
    /\ control[r] # "absent"
    /\ ledger[r] = "unknown"
    /\ ledger' = [ledger EXCEPT ![r] = "open"]
    /\ UNCHANGED <<control, effective, withdrawn>>

ControlLearns(r) ==
    /\ control[r] = "pending"
    /\ ledger[r] # "unknown"
    /\ control' = [control EXCEPT ![r] = "synced"]
    /\ UNCHANGED <<effective, withdrawn, ledger>>

Withdraw(r) ==
    /\ control[r] # "absent"
    /\ withdrawn[r] = "none"
    /\ ~effective[r]
    /\ withdrawn' = [withdrawn EXCEPT ![r] = "pending"]
    /\ UNCHANGED <<control, effective, ledger>>

BillingDrops(r) ==
    /\ withdrawn[r] # "none"
    /\ ledger[r] = "open"
    /\ ledger' = [ledger EXCEPT ![r] = "cancelled"]
    /\ UNCHANGED <<control, effective, withdrawn>>

WithdrawalSettles(r) ==
    /\ withdrawn[r] = "pending"
    /\ ledger[r] = "cancelled"
    /\ withdrawn' = [withdrawn EXCEPT ![r] = "synced"]
    /\ UNCHANGED <<control, effective, ledger>>

Next == \E r \in Revisions :
            \/ Record(r)   \/ TakesEffect(r)   \/ BillingLearns(r)
            \/ ControlLearns(r) \/ Withdraw(r) \/ BillingDrops(r)
            \/ WithdrawalSettles(r)

Spec == Init /\ [][Next]_vars
================================================================================
