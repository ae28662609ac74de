--------------------------- MODULE BillingRecurrence ----------------------------
(***************************************************************************)
(* The recurrence of a contract: enroll(), run() and state() of            *)
(* ContractRecurrenceRepository, and renew() of ContractFinancialService,  *)
(* which all ask Billing for the next cycle and write down its answer.     *)
(***************************************************************************)
EXTENDS FinanceState

EnrollmentOnly == UNCHANGED <<now, contract, decisions, notices, billing,
                              licensing, tx, wire>>

Enroll(first) ==
    /\ Free /\ Active
    /\ ~enrollment.exists
    /\ contract.revision = "paid"
    /\ first >= now
    /\ enrollment' = [enrollment EXCEPT !.exists = TRUE, !.first = first, !.next = first]
    /\ EnrollmentOnly /\ UNCHANGED events

\* state(): only an active contract is resumed.
SetEnabled(enabled) ==
    /\ Free
    /\ enrollment.exists
    /\ enabled => Active
    /\ enrollment.enabled # enabled
    /\ Event
    /\ enrollment' = [enrollment EXCEPT !.enabled = enabled]
    /\ EnrollmentOnly

-----------------------------------------------------------------------------
\* Forgets the termination.
BeforeTerm_Always == TRUE

\* run(): the conditions that return before anything is asked for.
BeforeTerm == contract.term # None => enrollment.next < contract.term

\* Forgets that there may be no next cycle.
Billable_NoNext ==
    /\ Active
    /\ enrollment.exists
    /\ enrollment.enabled
    /\ BeforeTerm
    /\ NotStopped
    /\ contract.revision # "courtesy"

Billable ==
    /\ Active
    /\ enrollment.exists
    /\ enrollment.enabled
    /\ enrollment.next # None
    /\ BeforeTerm
    /\ NotStopped
    /\ contract.revision # "courtesy"

\* The timer selects cycles whose day has come, an operator any; run() itself
\* asks for the next cycle, whatever its day.  Conditions that Billing has not
\* confirmed are an error that leaves the cycle as it is.
Advance ==
    /\ Free
    /\ Billable
    /\ contract.revision = "paid"
    /\ tx' = [pc |-> "advancing", expected |-> enrollment.next]
    /\ UNCHANGED <<now, contract, enrollment, decisions, notices, billing,
                   licensing, wire, events>>

\* Billing, asked to advance.  It keeps a schedule of its own, opens a cycle
\* once, when its day has come and the recurrence is active, and answers with
\* the cycle it expects next, none after the last.
After(day) == IF day + Cycle <= Horizon THEN day + Cycle ELSE None

Scheduled(b, r) ==
    IF b.schedule THEN b ELSE [b EXCEPT !.schedule = TRUE, !.next = r.expected]

Opens(b, r) ==
    IF r.renewal
    THEN b.renewal /\ ~b.invoiced
    ELSE b.next = r.expected /\ b.next <= now /\ b.recurrence = "active"

Advanced(b, r) ==
    LET s == Scheduled(b, r)
    IN  IF Opens(s, r)
        THEN [s EXCEPT !.next = After(IF r.renewal THEN now ELSE s.next),
                       !.invoiced = r.renewal]
        ELSE s

\* Does not write the answer down.
NextCycleIs_Kept(next) == UNCHANGED enrollment

\* The answer is committed: the next cycle is the one Billing names.
NextCycleIs(next) ==
    enrollment' = [enrollment EXCEPT !.next = next, !.schedule = TRUE]

\* Billing has one schedule of a contract.  run() learns which with the first
\* answer it gets; renew() takes no answer of a schedule that is not known.
Recognised == tx.pc = "advancing" \/ enrollment.schedule

CycleAcked ==
    /\ tx.pc \in {"advancing", "renewing"}
    /\ \E r \in Awaited :
        /\ billing' = Advanced(billing, r)
        /\ IF Recognised THEN NextCycleIs(Advanced(billing, r).next)
                         ELSE UNCHANGED enrollment
    /\ tx' = Idle
    /\ UNCHANGED <<now, contract, decisions, notices, licensing, wire, events>>

\* The call fails: run() and renew() leave the cycle as it was.
\* Counts a call that failed as a cycle that was billed.
CycleFails_Skips ==
    /\ tx.pc = "advancing"
    /\ Event
    /\ NextCycleIs(After(tx.expected))
    /\ wire' = wire \cup Awaited
    /\ tx' = Idle
    /\ UNCHANGED <<now, contract, decisions, notices, billing, licensing>>

CycleFails ==
    /\ tx.pc \in {"advancing", "renewing"}
    /\ Event
    /\ wire' = wire \cup Awaited
    /\ tx' = Idle
    /\ UNCHANGED <<now, contract, enrollment, decisions, notices, billing,
                   licensing>>

-----------------------------------------------------------------------------
\* renew(), after its process(): a customer whose paid period ran out while
\* the recurrence was stopped starts again, without the cycles in between.
Renewable ==
    /\ Active
    /\ contract.term = None
    /\ billing.courtesy = "none"
    /\ billing.overdue = None
    /\ billing.renewal
    /\ enrollment.exists /\ enrollment.enabled
    /\ contract.revision = "paid"

Renew ==
    /\ Free
    /\ Renewable
    /\ tx' = [pc |-> "renewing",
              expected |-> IF enrollment.next # None THEN enrollment.next
                                                     ELSE enrollment.first]
    /\ UNCHANGED <<now, contract, enrollment, decisions, notices, billing,
                   licensing, wire, events>>
===============================================================================
