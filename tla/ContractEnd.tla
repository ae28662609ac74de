------------------------------ MODULE ContractEnd ------------------------------
(***************************************************************************)
(* What the end of a contract promises as long as nobody issues licenses,  *)
(* without saying who brings it about: an end is announced once, and never *)
(* for the past; Billing hears of no other end; the license is taken, for  *)
(* good, only from a contract that is closed or whose end has come; and a  *)
(* contract with a recurrence closes only at its end, with Billing told,   *)
(* no license left and its recurrence ended.  No lock, transaction, retry, *)
(* timer or message appears here.                                          *)
(***************************************************************************)
EXTENDS Integers

CONSTANT Times

VARIABLES
    now,         \* the clock
    contract,    \* draft, open, closed or cancelled
    recurrence,  \* none, enabled, paused or ended
    end,         \* the date of the end, once it is announced
    told,        \* whether Billing has heard of it
    license,     \* none, active or revoked
    settled      \* whether the end has been carried out

vars == <<now, contract, recurrence, end, told, license, settled>>

Init == /\ now = 0
        /\ contract \in {"draft", "open"}
        /\ recurrence = "none"
        /\ end = {}
        /\ told = FALSE
        /\ license \in {"none", "active"}
        /\ settled = FALSE

Pass == /\ now' = now + 1
        /\ UNCHANGED <<contract, recurrence, end, told, license, settled>>

Sign == /\ contract = "draft"
        /\ contract' \in {"open", "cancelled"}
        /\ UNCHANGED <<now, recurrence, end, told, license, settled>>

Recur == /\ contract = "open"
         /\ recurrence' \in {"enabled", "paused"}
         /\ UNCHANGED <<now, contract, end, told, license, settled>>

Announce == /\ contract = "open"
            /\ end = {}
            /\ \E date \in Times : date >= now /\ end' = {date}
            /\ UNCHANGED <<now, contract, recurrence, told, license, settled>>

BillingHears == /\ end # {}
                /\ told' = TRUE
                /\ UNCHANGED <<now, contract, recurrence, end, license, settled>>

Come == \E date \in end : date <= now

Revoke == /\ contract = "closed" \/ Come
          /\ license = "active"
          /\ license' = "revoked"
          /\ UNCHANGED <<now, contract, recurrence, end, told, settled>>

Close == /\ contract = "open"
         /\ recurrence = "none"
         /\ contract' = "closed"
         /\ UNCHANGED <<now, recurrence, end, told, license, settled>>

\* The end of a contract that was closed before it still has to be settled.
Settle == /\ contract \in {"open", "closed"}
          /\ Come
          /\ told
          /\ license # "active"
          /\ contract' = "closed"
          /\ recurrence' = IF recurrence = "none" THEN "none" ELSE "ended"
          /\ settled' = TRUE
          /\ UNCHANGED <<now, end, told, license>>

Next == \/ Pass \/ Sign \/ Recur \/ Announce \/ BillingHears \/ Revoke
        \/ Close \/ Settle

Spec == Init /\ [][Next]_vars
===============================================================================
