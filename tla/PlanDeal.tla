-------------------------------- MODULE PlanDeal --------------------------------
(***************************************************************************)
(* What a change of plan promises the customer, without saying who carries *)
(* it out.  A change with a price is published only for money that Billing *)
(* has, and the money is used only once the new conditions are in force in *)
(* Billing; who is told that the change was cancelled owes nothing; who is *)
(* told that it is done has got it; and unless a claim has lapsed under    *)
(* somebody who goes on, neither answer is ever taken back.                *)
(***************************************************************************)
VARIABLES
    priced,      \* whether there is an invoice: not for a downgrade
    payment,     \* the invoice in Billing
    conditions,  \* none, published by Control, delivered to Billing
    shown,       \* what the customer is told
    contested    \* whether two may be working on it

vars == <<priced, payment, conditions, shown, contested>>

Init == /\ priced \in BOOLEAN
        /\ payment = "none"
        /\ conditions = "none"
        /\ shown = "none"
        /\ contested = FALSE

Open ==
    /\ shown = "none"
    /\ shown' = "open"
    /\ UNCHANGED <<priced, payment, conditions, contested>>

Invoice ==
    /\ shown # "none" /\ priced
    /\ payment = "none"
    /\ payment' = "awaiting_payment"
    /\ UNCHANGED <<priced, conditions, shown, contested>>

Settle ==
    /\ payment = "awaiting_payment"
    /\ payment' \in {"paid", "expired"}
    /\ UNCHANGED <<priced, conditions, shown, contested>>

GiveUp ==
    /\ payment \in {"awaiting_payment", "expired"}
    /\ payment' = "cancelled"
    /\ UNCHANGED <<priced, conditions, shown, contested>>

Publish ==
    /\ shown # "none"
    /\ priced => payment \in {"paid", "activated"}
    /\ conditions = "none"
    /\ conditions' \in {"published", "delivered"}
    /\ UNCHANGED <<priced, payment, shown, contested>>

Deliver ==
    /\ conditions = "published"
    /\ conditions' = "delivered"
    /\ UNCHANGED <<priced, payment, shown, contested>>

Use ==
    /\ conditions = "delivered"
    /\ payment = "paid"
    /\ payment' = "activated"
    /\ UNCHANGED <<priced, conditions, shown, contested>>

Tell ==
    /\ shown # "none"
    /\ shown \in {"done", "cancelled"} => contested
    /\ shown' \in {"open", "active", "done", "review", "cancelled"}
    /\ shown' \in {"active", "done"} =>
           conditions = "delivered" /\ (priced => payment = "activated")
    /\ shown' = "cancelled" /\ priced => payment = "cancelled"
    /\ UNCHANGED <<priced, payment, conditions, contested>>

Contest ==
    /\ contested' = TRUE
    /\ UNCHANGED <<priced, payment, conditions, shown>>

Next == \/ Open \/ Invoice \/ Settle \/ GiveUp \/ Publish \/ Deliver \/ Use
        \/ Tell \/ Contest

Spec == Init /\ [][Next]_vars
===============================================================================
