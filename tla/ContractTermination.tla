-------------------------- MODULE ContractTermination --------------------------
(***************************************************************************)
(* The end of one contract: its termination, requested by a customer or an *)
(* operator and carried out by the handler that took the request and by    *)
(* the timer of any instance (ContractTerminationWorker); the other ways   *)
(* an operator changes the status of the contract; its billing recurrence; *)
(* and the issue of its license.                                           *)
(*                                                                         *)
(* request() and process() keep the row of the contract locked during      *)
(* their calls to Billing and Licensing.  updateContract() calls Licensing *)
(* after its transaction, and issueContractLicense() takes no lock.  Both  *)
(* services are external, and a request to them that timed out after 45    *)
(* seconds may still reach them at any later moment.                       *)
(***************************************************************************)
EXTENDS Integers, FiniteSets

CONSTANTS
    Workers,    \* timers, one per instance of the service
    Callers,    \* HTTP handlers that change the contract
    Issuers,    \* HTTP handlers that issue its license
    Horizon,    \* bound: instants of a behaviour
    MaxFaults   \* bound: failed calls and crashes in a behaviour

ASSUME TerminationAssumption ==
    /\ Horizon \in Nat
    /\ MaxFaults \in Nat
    /\ Workers \cap Callers = {}
    /\ Issuers \cap (Workers \cup Callers) = {}

VARIABLES
    now,         \* the clock
    status,      \* of customer_contracts
    enrollment,  \* the row of contract_billing_enrollments
    term,        \* the row of contract_terminations
    billing,     \* whether Billing has recorded the end of the contract
    license,     \* what Licensing holds for the contract
    wire,        \* abandoned requests that may still be received
    actor,       \* where each timer and handler stands
    faults,      \* faults so far
    plan         \* plan_id of the contract: set, absent, or saved by issueContractLicense()

vars == <<now, status, enrollment, term, billing, license, wire, actor, faults,
          plan>>

Actors == Workers \cup Callers \cup Issuers
Times  == 0..Horizon

-------------------------------------------------------------------------------
Statuses == {"rascunho", "em_assinatura", "ativo", "encerrado", "cancelado"}

\* "ended" is enabled = false with next_cycle_on = NULL.
Enrollments == {"none", "enabled", "paused", "ended"}

\* next is next_attempt_at: reached, in a minute, or at the effective date.
Terms == [status    : {"none", "scheduled", "completed"},
          effective : Times,
          billed    : BOOLEAN,     \* billing_synced_at is set
          next      : {"due", "minute", "effective"}]

Steps == {"idle",
          "asking",     \* request(): asks Billing how far the contract is paid
          "process",    \* about to begin process()
          "telling",    \* in process(): POST .../termination to Billing
          "told",       \* Billing has answered in this transaction
          "revoking",   \* in process(): POST .../revoke to Licensing
          "revoked",    \* Licensing has answered, nothing committed yet
          "failed",     \* process() threw: about to record the retry
          "closed",     \* updateContract() has committed: POST .../revoke
          "looking",    \* issueContractLicense(): GET .../active
          "saving",     \* issueContractLicense(): about to save the contract
          "issuing"}    \* issueContractLicense(): POST .../activate

NoTerm == [status |-> "none", effective |-> 0, billed |-> FALSE, next |-> "due"]

\* An active contract may have got its license already.
Init == /\ now = 0
        /\ status \in {"rascunho", "ativo"}
        /\ enrollment = "none"
        /\ term = NoTerm
        /\ billing = "open"
        /\ license \in IF status = "ativo" THEN {"none", "active"} ELSE {"none"}
        /\ wire = {}
        /\ actor = [a \in Actors |-> "idle"]
        /\ faults = 0
        /\ plan \in {"id", "name"}

Goto(a, step) == actor' = [actor EXCEPT ![a] = step]

Fault == faults < MaxFaults /\ faults' = faults + 1

\* The row of the contract is locked by an open transaction.
InTransaction == {"asking", "telling", "told", "revoking", "revoked"}

Locked == \E a \in Actors : actor[a] \in InTransaction

Advance == /\ now < Horizon
           /\ now' = now + 1
           /\ UNCHANGED <<status, enrollment, term, billing, license, wire, actor, faults, plan>>

-------------------------------------------------------------------------------
\* request()

\* A second request, with whatever key, finds the row and goes on with it.
RequestEnd(c) ==
    /\ actor[c] = "idle"
    /\ ~Locked
    /\ \/ term.status # "none" /\ Goto(c, "process")
       \/ term.status = "none" /\ status = "ativo" /\ Goto(c, "asking")
    /\ UNCHANGED <<now, status, enrollment, term, billing, license, wire, faults, plan>>

\* Variant: the last instant that is paid.
EndDate_LastPaid(paid) == IF paid > now THEN paid ELSE now - 1

\* terminationDate(): the end of what is paid, and never before now.
EndDate(paid) == IF paid > now THEN paid ELSE now

EndRecorded(c) ==
    /\ actor[c] = "asking"
    /\ \E paid \in Times :
         term' = [status |-> "scheduled", effective |-> EndDate(paid),
                  billed |-> FALSE, next |-> "due"]
    /\ Goto(c, "process")
    /\ UNCHANGED <<now, status, enrollment, billing, license, wire, faults, plan>>

AskingFails(c) ==
    /\ actor[c] = "asking"
    /\ Fault
    /\ Goto(c, "idle")
    /\ UNCHANGED <<now, status, enrollment, term, billing, license, wire, plan>>

-------------------------------------------------------------------------------
\* process()

TimerFinds(w) ==
    /\ actor[w] = "idle"
    /\ term.status = "scheduled"
    /\ term.next = "due"
    /\ Goto(w, "process")
    /\ UNCHANGED <<now, status, enrollment, term, billing, license, wire, faults, plan>>

\* Variant: once Billing was told there is nothing more to do.
Begin_ToldOnce(a) ==
    /\ actor[a] = "process"
    /\ ~Locked
    /\ Goto(a, IF term.status # "scheduled" \/ term.billed THEN "idle" ELSE "telling")
    /\ UNCHANGED <<now, status, enrollment, term, billing, license, wire, faults, plan>>

\* The transaction begins, unless the termination is completed already.
Begin(a) ==
    /\ actor[a] = "process"
    /\ ~Locked
    /\ \/ term.status # "scheduled" /\ Goto(a, "idle")
       \/ term.status = "scheduled" /\ term.billed /\ Goto(a, "told")
       \/ term.status = "scheduled" /\ ~term.billed /\ Goto(a, "telling")
    /\ UNCHANGED <<now, status, enrollment, term, billing, license, wire, faults, plan>>

\* Billing keeps one end per contract: row.id is the key of the request.
BillingAnswers(a) ==
    /\ actor[a] = "telling"
    /\ billing' = "ended"
    /\ Goto(a, "told")
    /\ UNCHANGED <<now, status, enrollment, term, license, wire, faults, plan>>

\* The paid period has not ended: what Billing answered is committed.
Waits(a) ==
    /\ actor[a] = "told"
    /\ now < term.effective
    /\ term' = [term EXCEPT !.billed = TRUE, !.next = "effective"]
    /\ Goto(a, "idle")
    /\ UNCHANGED <<now, status, enrollment, billing, license, wire, faults, plan>>

\* Variant: the effective date is not looked at.
GoesOn_AnyTime(a) ==
    /\ actor[a] = "told"
    /\ Goto(a, "revoking")
    /\ UNCHANGED <<now, status, enrollment, term, billing, license, wire, faults, plan>>

GoesOn(a) ==
    /\ actor[a] = "told"
    /\ now >= term.effective
    /\ Goto(a, "revoking")
    /\ UNCHANGED <<now, status, enrollment, term, billing, license, wire, faults, plan>>

\* Licensing is external: it revokes an active license and accepts otherwise.
AfterRevoke == IF license = "active" THEN "revoked" ELSE license

LicensingAnswers(a) ==
    /\ actor[a] = "revoking"
    /\ license' = AfterRevoke
    /\ Goto(a, "revoked")
    /\ UNCHANGED <<now, status, enrollment, term, billing, wire, faults, plan>>

Completes(a) ==
    /\ actor[a] = "revoked"
    /\ status' = "encerrado"
    /\ enrollment' = IF enrollment = "none" THEN "none" ELSE "ended"
    /\ term' = [term EXCEPT !.status = "completed", !.billed = TRUE]
    /\ Goto(a, "idle")
    /\ UNCHANGED <<now, billing, license, wire, faults, plan>>

\* A call fails, or a statement after it: all that was not committed is lost.
RequestOf(step) == CASE step = "telling"                -> {"end"}
                     [] step \in {"revoking", "closed"} -> {"revoke"}
                     [] step = "issuing"                -> {"activate"}
                     [] OTHER                           -> {}

Throws(a) ==
    /\ actor[a] \in InTransaction \ {"asking"}
    /\ Fault
    /\ wire' \in {wire, wire \cup RequestOf(actor[a])}
    /\ Goto(a, "failed")
    /\ UNCHANGED <<now, status, enrollment, term, billing, license, plan>>

\* Variant: a failure of Licensing is not a failure.
RetryLater_AsDone(a) ==
    /\ actor[a] = "failed"
    /\ ~Locked
    /\ term' = [term EXCEPT !.status = "completed"]
    /\ Goto(a, "idle")
    /\ UNCHANGED <<now, status, enrollment, billing, license, wire, faults, plan>>

RetryLater(a) ==
    /\ actor[a] = "failed"
    /\ ~Locked
    /\ term' = IF term.status = "scheduled" THEN [term EXCEPT !.next = "minute"]
                                            ELSE term
    /\ Goto(a, "idle")
    /\ UNCHANGED <<now, status, enrollment, billing, license, wire, faults, plan>>

\* next_attempt_at is reached.
Due == /\ term.status = "scheduled"
       /\ \/ term.next = "minute"
          \/ term.next = "effective" /\ now >= term.effective
       /\ term' = [term EXCEPT !.next = "due"]
       /\ UNCHANGED <<now, status, enrollment, billing, license, wire, actor, faults, plan>>

-------------------------------------------------------------------------------
\* updateContract()

AllowedStatuses(s) ==
    CASE s = "rascunho"      -> {"rascunho", "em_assinatura", "ativo", "cancelado"}
      [] s = "em_assinatura" -> {"em_assinatura", "ativo", "cancelado"}
      [] s = "ativo"         -> {"ativo", "encerrado"}
      [] OTHER               -> {}

\* Variant: an enrolled contract may be closed by hand.
MayBecome_Enrolled(s) == s \in AllowedStatuses(status)

\* Closing a contract with a recurrence is left to request().
MayBecome(s) == /\ s \in AllowedStatuses(status)
                /\ s = "encerrado" => enrollment = "none"

UpdateContract(c) ==
    /\ actor[c] = "idle"
    /\ ~Locked
    /\ \E s \in Statuses :
         /\ MayBecome(s)
         /\ status' = s
         /\ Goto(c, IF s = "encerrado" THEN "closed" ELSE "idle")
    /\ UNCHANGED <<now, enrollment, term, billing, license, wire, faults, plan>>

ClosedRevoked(c) ==
    /\ actor[c] = "closed"
    /\ license' = AfterRevoke
    /\ Goto(c, "idle")
    /\ UNCHANGED <<now, status, enrollment, term, billing, wire, faults, plan>>

-------------------------------------------------------------------------------
\* The recurrence of the contract: enroll() and state().

Enroll(c) ==
    /\ actor[c] = "idle"
    /\ ~Locked
    /\ enrollment = "none"
    /\ status = "ativo"
    /\ enrollment' = "enabled"
    /\ UNCHANGED <<now, status, term, billing, license, wire, actor, faults, plan>>

Pause(c) ==
    /\ actor[c] = "idle"
    /\ ~Locked
    /\ enrollment = "enabled"
    /\ enrollment' = "paused"
    /\ UNCHANGED <<now, status, term, billing, license, wire, actor, faults, plan>>

\* Variant: the status of the contract is not looked at.
Resume_AnyStatus(c) ==
    /\ actor[c] = "idle"
    /\ ~Locked
    /\ enrollment \in {"paused", "ended"}
    /\ enrollment' = "enabled"
    /\ UNCHANGED <<now, status, term, billing, license, wire, actor, faults, plan>>

Resume(c) ==
    /\ actor[c] = "idle"
    /\ ~Locked
    /\ status = "ativo"
    /\ enrollment \in {"paused", "ended"}
    /\ enrollment' = "enabled"
    /\ UNCHANGED <<now, status, term, billing, license, wire, actor, faults, plan>>

-------------------------------------------------------------------------------
\* issueContractLicense(): no lock, and nothing is looked at again.

IssueLicense(i) ==
    /\ actor[i] = "idle"
    /\ status = "ativo"
    /\ Goto(i, "looking")
    /\ UNCHANGED <<now, status, enrollment, term, billing, license, wire, faults, plan>>

\* An active license is returned as it is, and terms that are past or not yet
\* synced issue none.  A contract without terms has no recurrence either; if it
\* has no plan_id, the plan is looked up by its name.
Looked(i) ==
    /\ actor[i] = "looking"
    /\ \/ Goto(i, "idle")
       \/ license # "active" /\ Goto(i, "issuing")
       \/ license # "active" /\ enrollment = "none" /\ plan # "id" /\ Goto(i, "saving")
    /\ UNCHANGED <<now, status, enrollment, term, billing, license, wire, faults, plan>>

\* The entity that was read before the calls, when it was active, is saved as a
\* whole: what differs from the row is written over it, the status included.
Saves(i) ==
    /\ actor[i] = "saving"
    /\ (status # "ativo" => ~Locked)
    /\ status' = "ativo"
    /\ plan' = "saved"
    /\ Goto(i, "issuing")
    /\ UNCHANGED <<now, enrollment, term, billing, license, wire, faults>>

Issued(i) ==
    /\ actor[i] = "issuing"
    /\ license' = "active"
    /\ Goto(i, "idle")
    /\ UNCHANGED <<now, status, enrollment, term, billing, wire, faults, plan>>

\* The call of a handler that does not retry fails.
HandlerFails(a) ==
    /\ actor[a] \in {"closed", "looking", "saving", "issuing"}
    /\ Fault
    /\ wire' \in {wire, wire \cup RequestOf(actor[a])}
    /\ Goto(a, "idle")
    /\ UNCHANGED <<now, status, enrollment, term, billing, license, plan>>

-------------------------------------------------------------------------------
\* The process of an actor stops; its transaction is rolled back.
Crash(a) ==
    /\ actor[a] # "idle"
    /\ Fault
    /\ wire' \in {wire, wire \cup RequestOf(actor[a])}
    /\ Goto(a, "idle")
    /\ UNCHANGED <<now, status, enrollment, term, billing, license, plan>>

\* An abandoned request is received.
Arrives(request) ==
    /\ request \in wire
    /\ wire' = wire \ {request}
    /\ billing' = IF request = "end" THEN "ended" ELSE billing
    /\ license' = CASE request = "revoke"   -> AfterRevoke
                    [] request = "activate" -> "active"
                    [] OTHER                -> license
    /\ UNCHANGED <<now, status, enrollment, term, actor, faults, plan>>

-------------------------------------------------------------------------------
Proceeds(a) == \/ EndRecorded(a) \/ Begin(a) \/ BillingAnswers(a) \/ Waits(a)
               \/ GoesOn(a) \/ LicensingAnswers(a) \/ Completes(a) \/ RetryLater(a)
               \/ ClosedRevoked(a) \/ Looked(a) \/ Saves(a) \/ Issued(a)

Misfortune(a) == AskingFails(a) \/ Throws(a) \/ HandlerFails(a) \/ Crash(a)

Change(c) == \/ RequestEnd(c) \/ UpdateContract(c)
             \/ Enroll(c) \/ Pause(c) \/ Resume(c)

Next == \/ \E a \in Actors : Proceeds(a) \/ Misfortune(a)
        \/ \E w \in Workers : TimerFinds(w)
        \/ \E c \in Callers : Change(c)
        \/ \E i \in Issuers : IssueLicense(i)
        \/ \E request \in wire : Arrives(request)
        \/ Advance \/ Due

Spec == Init /\ [][Next]_vars

\* Whoever holds the lock goes on or gives up within a timeout, so that who
\* waits for it gets it in turn; the timer fires every 30 seconds; the clock
\* reaches the end of the paid period.
Fairness == /\ \A a \in Actors : SF_vars(Proceeds(a))
            /\ \A w \in Workers : WF_vars(TimerFinds(w))
            /\ WF_vars(Advance) /\ WF_vars(Due)

FairSpec == Spec /\ Fairness
-------------------------------------------------------------------------------
\* Types of the variables.
TypeOK ==
    /\ now \in Times
    /\ status \in Statuses
    /\ enrollment \in Enrollments
    /\ term \in Terms
    /\ billing \in {"open", "ended"}
    /\ license \in {"none", "active", "revoked"}
    /\ wire \subseteq {"end", "revoke", "activate"}
    /\ actor \in [Actors -> Steps]
    /\ faults \in 0..MaxFaults
    /\ plan \in {"id", "name", "saved"}

\* A contract with a recurrence is closed by its termination only: not before
\* the end of what is paid, with Billing told, and with its recurrence ended
\* for good, whatever order termination, recurrence and status changes take.
\* Here and below: as long as no license issue has written the contract back.
EnrolledEndsByTermination ==
    plan # "saved" /\ status = "encerrado" /\ enrollment # "none" =>
        /\ term.status = "completed"
        /\ now >= term.effective
        /\ billing = "ended"
        /\ enrollment = "ended"

\* While nobody issues licenses, a completed termination leaves none active:
\* "Revoke before completing" (contract-termination.service.ts:206), through
\* failures of Licensing, rolled back transactions and late requests.
CompletedLeavesNoLicense == term.status = "completed" => license # "active"

\* "retries must never re-open a terminated contract": once closed, a contract
\* stays closed, its termination stays completed and nothing is billed again;
\* the one step that opens it is the save of a license issue (Saves).
ClosedForGood ==
    [][plan' # "saved" =>
         /\ status = "encerrado" => status' = "encerrado"
         /\ term.status = "completed" => /\ term'.status = "completed"
                                         /\ status' = "encerrado"
                                         /\ enrollment' # "enabled"]_vars

\* The license of a contract with a recurrence is not revoked before the end
\* of what is paid, neither by a retry nor by a request that arrives late.
PaidPeriodKept ==
    [][plan # "saved" /\ enrollment # "none" /\ license = "active" /\ license' = "revoked" =>
           term.status # "none" /\ now >= term.effective]_vars

\* A termination that was recorded is completed, whoever recorded it and
\* whatever failed since.
TerminationsComplete == term.status = "scheduled" ~> term.status = "completed"

\* While nobody issues licenses, whatever the timers, handlers, faults and late
\* requests do is a step of ContractEnd: one end, not in the past; a license
\* taken only from what is closed or has come to its end; an enrolled contract
\* closed only by that end.
Stage == CASE status \in {"rascunho", "em_assinatura"} -> "draft"
           [] status = "ativo"                         -> "open"
           [] status = "encerrado"                     -> "closed"
           [] OTHER                                    -> "cancelled"

Announced == IF term.status = "none" THEN {} ELSE {term.effective}

End == INSTANCE ContractEnd WITH
    contract   <- Stage,
    recurrence <- enrollment,
    end        <- Announced,
    told       <- billing = "ended",
    settled    <- term.status = "completed"

ImplementsEnd == End!Spec

\* "A licença só pode ser emitida para contrato ativo."
\* (customers.service.ts:324)
IssuedWhileActive ==
    [][license # "active" /\ license' = "active" => status = "ativo"]_vars
===============================================================================
