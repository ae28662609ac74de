--------------------------- MODULE FinancialDecisions ---------------------------
(***************************************************************************)
(* ContractFinancialService: process() records what follows from the       *)
(* payment state as a numbered decision, deliver() takes the oldest one    *)
(* that waits to Billing and to Licensing.                                 *)
(***************************************************************************)
EXTENDS FinanceState

\* Forgets that the last decision may have been dropped.
SameAsBefore_Dropped(core) == decisions # <<>> /\ Latest.core = core

\* process(): the state is read under the lock; the read and the inserts are
\* one step, as an answer that changes afterwards is a later change.
SameAsBefore(core) ==
    decisions # <<>> /\ Latest.core = core /\ Latest.status # "superseded"

Superseded(ds) == [v \in DOMAIN ds |->
    IF ds[v].status = "pending" THEN [ds[v] EXCEPT !.status = "superseded"]
                                ELSE ds[v]]

Recorded(core) ==
    Append(Superseded(decisions),
           [core |-> core, deliverable |-> Deliverable(core, now),
            status |-> "pending"])

\* Compares with the healthy state instead of the previous decision.
Notified_NotHealthy(core) ==
    IF core.access # "healthy" /\ EnforcedFor(core)
    THEN Append(notices, core.access) ELSE notices

\* A customer is written to when the access changes, and about a recovery
\* only when there was something to recover from.
Notified(core) ==
    LET before == IF decisions = <<>> THEN "none" ELSE Latest.core.access
        recovered == before \notin {"none", "healthy"} /\ core.overdue = None
    IN  IF /\ before # core.access
           /\ EnforcedFor(core)
           /\ core.access = "healthy" => recovered
        THEN Append(notices, core.access)
        ELSE notices

Decide ==
    /\ Free /\ Active
    /\ ~SameAsBefore(CurrentCore)
    /\ decisions' = Recorded(CurrentCore)
    /\ notices' = Notified(CurrentCore)
    /\ UNCHANGED <<now, contract, enrollment, billing, licensing, tx, wire,
                   events>>

-----------------------------------------------------------------------------
\* Trusts the decision as it was recorded.
StillTrue_Trusted(v) == v \in Pending

\* deliver(): the state is read again, and a decision it no longer supports
\* is dropped.
StillTrue(v) == CurrentCore = decisions[v].core

Drop(v) == /\ ~StillTrue(v)
           /\ decisions' = [decisions EXCEPT ![v].status = "superseded"]
           /\ UNCHANGED tx

Post(v) == /\ StillTrue(v)
           /\ tx' = [pc |-> "posting", version |-> v, core |-> CurrentCore]
           /\ UNCHANGED decisions

Deliver ==
    /\ Free /\ Active
    /\ \E v \in Pending :
        /\ \A w \in Pending : v <= w
        /\ Drop(v) \/ Post(v)
    /\ UNCHANGED <<now, contract, enrollment, notices, billing, licensing,
                   wire, events>>

\* Billing keeps to the highest number it was sent.  A recurrence that becomes
\* active again does not go back to the cycles it missed.
HeardBy(b, r) ==
    IF r.version < b.version THEN b
    ELSE [b EXCEPT !.version = r.version, !.recurrence = r.recurrence,
                   !.next = IF r.recurrence = "active" /\ b.recurrence # "active"
                               /\ b.next # None /\ b.next < now
                            THEN now ELSE b.next]

BillingAcks ==
    /\ tx.pc = "posting"
    /\ LET heard == HeardBy(billing, ToBilling(tx.version, tx.core)) IN
        /\ billing' = heard
        /\ tx' = [pc |-> "told", version |-> tx.version, core |-> tx.core,
                  next |-> IF tx.core.recurrence = "active" THEN heard.next ELSE None]
    /\ UNCHANGED <<now, contract, enrollment, decisions, notices, licensing,
                   wire, events>>

LicensedBy(l, r) ==
    IF r.version < l.version THEN l ELSE [version |-> r.version, core |-> r.core]

LicensingAcks ==
    /\ tx.pc = "told"
    /\ decisions[tx.version].deliverable
    /\ licensing' = LicensedBy(licensing, ToLicensing(tx.version, tx.core))
    /\ tx' = [tx EXCEPT !.pc = "licensed"]
    /\ UNCHANGED <<now, contract, enrollment, decisions, notices, billing,
                   wire, events>>

\* The cycle that Billing answered is written with the outcome, or with the
\* failure of Licensing.
NextCycleTold ==
    enrollment' = IF tx.pc \in {"told", "licensed"} /\ tx.next # None
                  THEN [enrollment EXCEPT !.next = tx.next] ELSE enrollment

\* Calls a decision synced before Licensing has answered.
Outcome_Early ==
    CASE tx.pc \in {"told", "licensed"} /\ decisions[tx.version].deliverable -> {"synced"}
      [] tx.pc = "told" -> {"observed"}
      [] OTHER -> {}

Outcome ==
    CASE tx.pc = "licensed" -> {"synced"}
      [] tx.pc = "told" /\ ~decisions[tx.version].deliverable -> {"observed"}
      [] OTHER -> {}

Settle ==
    /\ \E s \in Outcome : decisions' = [decisions EXCEPT ![tx.version].status = s]
    /\ NextCycleTold
    /\ tx' = Idle
    /\ UNCHANGED <<now, contract, notices, billing, licensing, wire, events>>

\* catch: the decision stays pending, to be sent again from the start.  The
\* request may be on its way, or lost.
DeliveryFails ==
    /\ tx.pc = "posting" \/ (tx.pc = "told" /\ decisions[tx.version].deliverable)
    /\ Event
    /\ NextCycleTold
    /\ wire' = wire \cup Awaited
    /\ tx' = Idle
    /\ UNCHANGED <<now, contract, decisions, notices, billing, licensing>>

\* suspensionPolicy(), before its process().
SetPolicy(policy) ==
    /\ Free /\ Active
    /\ policy = "continue" => SelfHosted
    /\ NotStopped
    /\ enrollment.exists
    /\ enrollment.policy # policy
    /\ Event
    /\ enrollment' = [enrollment EXCEPT !.policy = policy]
    /\ UNCHANGED <<now, contract, decisions, notices, billing, licensing, tx,
                   wire>>
===============================================================================
