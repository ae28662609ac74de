---------------------------- MODULE ContractFinance -----------------------------
(***************************************************************************)
(* A contract from its first cycle on: the timers and the operators decide *)
(* about its access and bill its cycles, while invoices fall overdue and   *)
(* are paid, courtesies come and go, its termination is recorded, calls    *)
(* fail and processes die.                                                 *)
(***************************************************************************)
EXTENDS FinancialDecisions, BillingRecurrence

\* A process dies with the lock: the transaction rolls back.
Crash ==
    /\ ~Free
    /\ Event
    /\ wire' = wire \cup Awaited
    /\ tx' = Idle
    /\ UNCHANGED <<now, contract, enrollment, decisions, notices, billing,
                   licensing>>

\* A request nobody waits for any more is received after all.
Arrives ==
    /\ \E r \in wire :
        /\ wire' = wire \ {r}
        /\ billing' = CASE r.to = "billing" -> HeardBy(billing, r)
                        [] r.to = "cycle"   -> Advanced(billing, r)
                        [] OTHER            -> billing
        /\ licensing' = IF r.to = "licensing" THEN LicensedBy(licensing, r)
                                              ELSE licensing
    /\ UNCHANGED <<now, contract, enrollment, decisions, notices, tx, events>>

-----------------------------------------------------------------------------
\* What happens in Billing by itself, as long as the contract is active.  Only
\* a cycle it opened can be overdue or paid; after a stop that outlasted what
\* was paid, a renewal is required.
BillingOnly == /\ Active
               /\ UNCHANGED <<now, contract, enrollment, decisions, notices,
                              licensing, tx, wire>>

FallsOverdue ==
    /\ billing.schedule /\ billing.overdue = None
    /\ billing' = [billing EXCEPT !.overdue = now]
    /\ BillingOnly /\ Event

Pays ==
    /\ billing.schedule
    /\ billing.renewal => billing.invoiced
    /\ billing.overdue # None \/ billing.until < now + Cycle
    /\ billing' = [billing EXCEPT !.overdue = None, !.until = now + Cycle,
                                  !.renewal = FALSE, !.invoiced = FALSE]
    /\ BillingOnly /\ Event

RenewalRequired ==
    /\ billing.recurrence # "active" /\ ~billing.renewal
    /\ billing.overdue = None /\ billing.courtesy = "none"
    /\ billing.next # None /\ billing.next <= now
    /\ billing' = [billing EXCEPT !.renewal = TRUE]
    /\ BillingOnly /\ UNCHANGED events

CourtesyEnds ==
    /\ billing.courtesy = "active"
    /\ billing' = [billing EXCEPT !.courtesy = "ended"]
    /\ BillingOnly /\ UNCHANGED events

\* Conditions are published under the lock of the contract, but come into
\* effect with their date, which waits for no lock; Billing confirms them later,
\* with the courtesy they start or end.  A courtesy follows what is confirmed.
TakesEffect(revision) ==
    /\ Active
    /\ contract.revision # revision
    /\ revision = "courtesy" => billing.courtesy = "none"
    /\ Event
    /\ contract' = [contract EXCEPT !.revision = revision]
    /\ UNCHANGED <<now, enrollment, decisions, notices, billing, licensing, tx,
                   wire>>

Confirms ==
    /\ contract.revision # "paid"
    /\ contract.revision = "courtesy" => billing.courtesy = "none"
    /\ IF contract.revision = "courtesy"
       THEN /\ billing' = [billing EXCEPT !.courtesy = "active"]
            /\ UNCHANGED contract
       ELSE /\ billing' = [billing EXCEPT !.courtesy = "none"]
            /\ contract' = [contract EXCEPT !.revision = "paid"]
    /\ UNCHANGED <<now, enrollment, decisions, notices, licensing, tx, wire,
                   events>>

\* The termination is recorded under the lock; at its date it closes the
\* contract and ends the recurrence.
RecordTermination(day) ==
    /\ Free /\ Active
    /\ contract.term = None
    /\ Event
    /\ contract' = [contract EXCEPT !.term = day]
    /\ UNCHANGED <<now, enrollment, decisions, notices, billing, licensing, tx,
                   wire>>

Terminates ==
    /\ Free /\ Active
    /\ contract.term # None /\ contract.term <= now
    /\ contract' = [contract EXCEPT !.status = "encerrado"]
    /\ enrollment' = [enrollment EXCEPT !.enabled = FALSE, !.next = None]
    /\ UNCHANGED <<now, decisions, notices, billing, licensing, tx, wire,
                   events>>

Tick ==
    /\ now < Horizon
    /\ now' = now + 1
    /\ UNCHANGED <<contract, enrollment, decisions, notices, billing, licensing,
                   tx, wire, events>>

-----------------------------------------------------------------------------
\* run() of the financial timer selects contracts with a recurrence and those
\* on a courtesy.
Selected == enrollment.exists \/ contract.revision = "courtesy"

TimerDecides == Selected /\ Decide

Operators ==
    \/ \E first \in {now, now + 1} : Enroll(first)
    \/ \E enabled \in BOOLEAN : SetEnabled(enabled)
    \/ \E policy \in {"pause", "continue"} : SetPolicy(policy)
    \/ \E revision \in {"courtesy", "unconfirmed"} : TakesEffect(revision)
    \/ \E day \in {now, now + 1} : RecordTermination(day)
    \/ Renew

Deliveries == Deliver \/ BillingAcks \/ LicensingAcks \/ Settle \/ DeliveryFails

TimerAdvances == enrollment.next <= now /\ Advance

Cycles == Advance \/ CycleAcked \/ CycleFails

Elsewhere == FallsOverdue \/ Pays \/ RenewalRequired \/ CourtesyEnds
                          \/ Confirms \/ Arrives

Next == TimerDecides \/ Deliveries \/ Cycles \/ Operators \/ Elsewhere
                     \/ Terminates \/ Crash \/ Tick

Spec == Init /\ [][Next]_vars

\* The timers come back every minute, answers come unless a call fails, and
\* what was put off is due again.  The lock of a row is granted in turn: who
\* waits for it gets it although others take it in between.
Fairness ==
    /\ SF_vars(TimerDecides) /\ SF_vars(Deliver) /\ SF_vars(TimerAdvances)
    /\ WF_vars(BillingAcks) /\ WF_vars(LicensingAcks) /\ WF_vars(Settle)
    /\ WF_vars(CycleAcked)

FairSpec == Spec /\ Fairness

-----------------------------------------------------------------------------
Receivers == {"billing", "licensing"}

\* The delivery of decisions, with its locks, retries and late requests, is a
\* register of numbered decisions: receivers only move forward, and a decision
\* counts as settled only when all it is meant for have got to it.
Register == INSTANCE DecisionRegister WITH
    decided <- Len(decisions),
    meant   <- [v \in DOMAIN decisions |->
                   IF decisions[v].deliverable THEN Receivers ELSE {"billing"}],
    held    <- [r \in Receivers |-> IF r = "billing" THEN billing.version
                                                     ELSE licensing.version],
    settled <- {v \in DOMAIN decisions : decisions[v].status \in {"observed", "synced"}}

ImplementsRegister == Register!Spec

\* A version has one meaning wherever it is: what the receivers hold, and what
\* is on its way to them, is what Control recorded under that number.
OneMeaningPerVersion ==
    /\ billing.version > 0 =>
        billing.recurrence = decisions[billing.version].core.recurrence
    /\ licensing.version > 0 =>
        licensing.core = decisions[licensing.version].core
    /\ \A r \in wire \cup Awaited :
        /\ r.to = "billing" =>
            r.recurrence = decisions[r.version].core.recurrence
        /\ r.to = "licensing" => r.core = decisions[r.version].core

\* Control never skips a cycle: the next cycle it asks for is not beyond the
\* one Billing expects, through retries, renewals and stops; nothing else than
\* the end of the contract's cycles or its termination ends the asking.
NeverAhead ==
    billing.schedule /\ Active =>
        /\ enrollment.next = None => billing.next = None
        /\ enrollment.next # None /\ billing.next # None =>
            enrollment.next <= billing.next

\* While Billing is asked for a cycle, nobody has recorded since the conditions
\* were read that the contract may not have one: no termination at or before it,
\* no pause, no stop.  Only conditions that come into effect meanwhile are not
\* waited for.
MayHave(day) ==
    /\ Active
    /\ contract.term = None \/ day < contract.term
    /\ enrollment.exists /\ enrollment.enabled
    /\ \A v \in DOMAIN decisions :
        v = Len(decisions) => decisions[v].core.recurrence = "active"

CyclesAllowed ==
    /\ tx.pc = "advancing" => MayHave(tx.expected)
    /\ tx.pc = "renewing"  => /\ Active /\ contract.term = None
                              /\ enrollment.enabled

\* With suspension in force, the notices recorded for the customer follow the
\* decisions, whatever was superseded or repeated in between: the last is about
\* the access of the last decision, and no two in a row about the same.  Which
\* of them are sent is for FinancialNoticeWorker to say: it drops a notice whose
\* access has passed, and skips who wants none (MailQueues).
NoticesFollow ==
    Enforced =>
        /\ LET noted == IF notices = <<>> THEN "healthy" ELSE Last(notices)
           IN  decisions # <<>> => noted = Latest.core.access
        /\ \A i \in 1..(Len(notices) - 1) : notices[i] # notices[i + 1]

\* No access is taken early, however late the decision is delivered: for a
\* debt Licensing restricts and suspends only when the days of tolerance are
\* over, and without a debt it suspends only a contract whose recurrence an
\* earlier decision had stopped.
OverdueFor(core, days) == core.overdue # None /\ core.overdue + days <= now

TakenInTime(core, earlier) ==
    ~core.courtesy =>
        /\ core.state = "payment_restricted" => OverdueFor(core, RestrictAfter)
        /\ core.state = "payment_suspended"  => OverdueFor(core, SuspendAfter)
        /\ core.access = "payment_restricted" => OverdueFor(core, RestrictAfter)
        /\ core.access = "payment_suspended" =>
            \/ OverdueFor(core, SuspendAfter)
            \/ \E v \in earlier : decisions[v].core.recurrence # "active"

NoEarlySanction ==
    licensing.version > 0 =>
        TakenInTime(licensing.core, 1..(licensing.version - 1))

\* Once nothing changes any more, the decision that follows from the payment
\* state is recorded, and Billing and Licensing have it.
Current == /\ decisions # <<>>
           /\ Latest.core = CurrentCore
           /\ Latest.status \in {"observed", "synced"}

DecisionsSettle == <>[](Active /\ Selected => Current)

\* A cycle that is due and may be billed does not stay due: through lost
\* answers and failures it is opened, or stops being billable.
CycleWaits == /\ enrollment.next \in 0..now
              /\ MayHave(enrollment.next) /\ contract.revision = "paid"
              /\ billing.recurrence = "active"

DueCyclesOpen == []<>~CycleWaits
===============================================================================
