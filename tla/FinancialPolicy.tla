----------------------------- MODULE FinancialPolicy ----------------------------
(***************************************************************************)
(* From what Billing reports of a contract to the access its customer has: *)
(* financialAccess() of the domain, and access() and core() of             *)
(* ContractFinancialService.  Pure functions; a date is a day, and a       *)
(* timestamp that is null is None.                                         *)
(***************************************************************************)
EXTENDS Integers

CONSTANTS
    RestrictAfter,  \* FINANCIAL_RESTRICT_AFTER_DAYS
    SuspendAfter,   \* FINANCIAL_SUSPEND_AFTER_DAYS
    Enforced        \* FINANCIAL_SUSPENSION_ENABLED

ASSUME PolicyAssumption ==
    /\ RestrictAfter \in Nat
    /\ SuspendAfter \in Nat
    /\ RestrictAfter < SuspendAfter
    /\ Enforced \in BOOLEAN

None == -1

AccessStates == {"healthy", "payment_attention",
                 "payment_restricted", "payment_suspended"}

\* What is overdue at time t, and what is due later is not.
OverdueSince(due, t) == IF due # None /\ due <= t THEN due ELSE None

\* Counts the day on which the invoice was due.
DebtState_FirstDay(due, t) ==
    IF OverdueSince(due, t) = None THEN "healthy"
    ELSE CASE t - due + 1 >= SuspendAfter -> "payment_suspended"
           [] t - due + 1 \in RestrictAfter..(SuspendAfter - 1) -> "payment_restricted"
           [] OTHER -> "payment_attention"

\* Durations are complete days since the invoice was due.
DebtState(due, t) ==
    IF OverdueSince(due, t) = None THEN "healthy"
    ELSE CASE t - due >= SuspendAfter -> "payment_suspended"
           [] t - due \in RestrictAfter..(SuspendAfter - 1) -> "payment_restricted"
           [] OTHER -> "payment_attention"

\* A situation s is what Billing reports: overdue and until are dates,
\* renewal whether the contract has to be renewed, courtesy is none, active
\* or ended.  A courtesy stands above debts and renewals.
PolicyState(s, t) ==
    CASE s.courtesy = "active" -> "healthy"
      [] s.courtesy = "ended"  -> "payment_suspended"
      [] OTHER                 -> DebtState(s.overdue, t)

EffectiveState(s, t) ==
    IF s.courtesy = "none"
    THEN IF s.renewal THEN "payment_suspended"
         ELSE IF Enforced THEN PolicyState(s, t) ELSE "healthy"
    ELSE PolicyState(s, t)

RecurrenceStates == {"active", "paused", "renewal_required"}

\* What Billing is told to do with the recurrence of the contract.
RecurrenceState(s, policy, t) ==
    CASE s.courtesy # "none"                           -> "paused"
      [] s.courtesy = "none" /\ policy = "continue"    -> "active"
      [] s.courtesy = "none" /\ policy = "pause" /\ s.renewal -> "renewal_required"
      [] OTHER -> IF EffectiveState(s, t) = "payment_suspended" THEN "paused"
                                                                ELSE "active"

\* core(): what a decision says.  Two decisions of equal cores have one hash.
Core(s, policy, t) ==
    [access     |-> EffectiveState(s, t),
     state      |-> PolicyState(s, t),
     recurrence |-> RecurrenceState(s, policy, t),
     policy     |-> policy,
     overdue    |-> IF s.courtesy = "none" THEN OverdueSince(s.overdue, t) ELSE None,
     until      |-> s.until,
     courtesy   |-> s.courtesy # "none"]

\* Whether Licensing is told at all: there is no license to speak of before
\* the first payment, and none to extend once the paid period is over.
Deliverable(core, t) ==
    core.until # None /\ (core.access # "healthy" \/ core.until > t)

\* Whether a customer is written to about a change of access.
EnforcedFor(core) == Enforced \/ core.courtesy
===============================================================================
