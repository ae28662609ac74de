------------------------------- MODULE MailQueues -------------------------------
(***************************************************************************)
(* The three queues of mails, each a column or two of a table and a timer  *)
(* in every instance of the program:                                       *)
(*   "notices"       overdue, restricted and suspended customers are told, *)
(*                   unless that is no longer true (FinancialNoticeWorker);*)
(*   "terminations"  the confirmation of a request to end a contract       *)
(*                   (ContractTerminationEmailWorker);                     *)
(*   "requests"      the team is told of a self-hosted request; parked     *)
(*                   after some attempts, until an operator sends it again *)
(*                   (RequestEmailWorker, RequestRepository).              *)
(*                                                                         *)
(* A mail is claimed for two minutes under the number of the attempt, and  *)
(* what became of it is written only while that number stands.  The mails  *)
(* of a queue do not touch each other, so this is about one of them.       *)
(***************************************************************************)
EXTENDS Integers, FiniteSets

CONSTANTS
    Workers,     \* timers, one in each instance of the program
    Queues,      \* queues the mail may be in
    Cap,         \* attempts after which a mail of "requests" is parked: 5
    MaxChanges,  \* bound: changes of the customer's state
    MaxRetries,  \* bound: times an operator sends a parked mail again
    MaxFaults    \* bound: calls that fail, processes that die, claims that lapse

ASSUME MailAssumption ==
    /\ IsFiniteSet(Workers)
    /\ Queues \subseteq {"notices", "terminations", "requests"}
    /\ Cap \in Nat \ {0}
    /\ MaxChanges \in Nat
    /\ MaxRetries \in Nat
    /\ MaxFaults \in Nat

VARIABLES
    queue,     \* of the mail, from the beginning
    row,       \* the mail: its state, attempts, lease, and whether it is due
    stands,    \* the customer is in the state a notice tells of
    active,    \* the contract is ativo
    wants,     \* the customer has an address and did not refuse notices
    worker,    \* what each worker does, and under which attempt
    copies,    \* copies of the mail that the mail server took
    late,      \* workers that had last looked when the state changed
    changes, retries, faults

vars == <<queue, row, stands, active, wants, worker, copies, late,
          changes, retries, faults>>

Final == {"sent", "superseded", "skipped"}

StatusesOf(q) == IF q = "requests" THEN {"none", "pending", "sending", "sent", "failed"}
                                   ELSE {"pending"} \cup Final

Idle == [pc |-> "idle"]

Busy == [pc : {"checking", "asking", "rechecking", "sending", "failing"}, attempt : Nat]
Done == [pc : {"finishing"}, attempt : Nat, outcome : Final]

TypeOK ==
    /\ queue \in Queues
    /\ row \in [status : StatusesOf(queue), attempts : Nat, leased : BOOLEAN, due : BOOLEAN]
    /\ stands \in BOOLEAN /\ active \in BOOLEAN /\ wants \in BOOLEAN
    /\ worker \in [Workers -> {Idle} \cup Busy \cup Done]
    /\ copies \in Nat
    /\ late \subseteq Workers
    /\ changes \in 0..MaxChanges
    /\ retries \in 0..MaxRetries
    /\ faults \in 0..MaxFaults

Init ==
    /\ queue \in Queues
    /\ row = [status   |-> IF queue = "requests" THEN "none" ELSE "pending",
              attempts |-> 0, leased |-> FALSE, due |-> TRUE]
    /\ stands = TRUE /\ active = TRUE
    /\ wants \in BOOLEAN
    /\ worker = [w \in Workers |-> Idle]
    /\ copies = 0
    /\ late = {}
    /\ changes = 0
    /\ retries = 0
    /\ faults = 0

-----------------------------------------------------------------------------
Fault == faults < MaxFaults /\ faults' = faults + 1

At(w, pc)     == worker[w].pc = pc
Goes(w, pc)   == worker' = [worker EXCEPT ![w] = [pc |-> pc, attempt |-> worker[w].attempt]]
Ends(w, how)  == worker' = [worker EXCEPT ![w] = [pc |-> "finishing",
                                                  attempt |-> worker[w].attempt,
                                                  outcome |-> how]]
WorkerOnly    == UNCHANGED <<queue, row, stands, active, wants, copies, late,
                             changes, retries, faults>>
RowOnly       == UNCHANGED <<queue, stands, active, wants, worker, copies, late,
                             changes, retries, faults>>

\* submit(): the first request of a customer; repeated ones are answered with it.
Submit ==
    /\ row.status = "none"
    /\ row' = [row EXCEPT !.status = "pending"]
    /\ RowOnly

\* Takes a mail somebody else is at.
Claimable_Leased == row.due /\ row.status \in {"pending", "sending"}

\* Takes up no mail of a process that died.
Claimable_NotSending == row.status = "pending" /\ row.due /\ ~row.leased

Claimable ==
    /\ ~row.leased
    /\ \/ row.status = "pending" /\ row.due
       \/ row.status = "sending"

\* Marks the mail in the way of the requests, in every queue.
Taken_Sending(r) == [r EXCEPT !.status = "sending", !.leased = TRUE, !.attempts = @ + 1]

Taken(r) == [r EXCEPT !.status = IF queue = "requests" THEN "sending" ELSE @,
                      !.leased = TRUE, !.attempts = @ + 1]

Claim(w) ==
    /\ worker[w] = Idle
    /\ Claimable
    /\ row' = Taken(row)
    /\ worker' = [worker EXCEPT ![w] =
                    [pc      |-> IF queue = "notices" THEN "checking" ELSE "sending",
                     attempt |-> row.attempts + 1]]
    /\ late' = late \ {w}
    /\ UNCHANGED <<queue, stands, active, wants, copies, changes, retries, faults>>

\* A notice: is the customer still in that state, and is the contract running?
Check(w) ==
    /\ At(w, "checking")
    /\ IF active /\ stands THEN Goes(w, "asking") ELSE Ends(w, "superseded")
    /\ WorkerOnly

\* Billing is asked for the address, and then for a link to the portal.
Ask(w) ==
    /\ At(w, "asking")
    /\ IF wants THEN Goes(w, "rechecking") ELSE Ends(w, "skipped")
    /\ WorkerOnly

\* A payment could have arrived meanwhile.
StillTrue_Trusted == TRUE

StillTrue == stands

Recheck(w) ==
    /\ At(w, "rechecking")
    /\ IF StillTrue THEN Goes(w, "sending") ELSE Ends(w, "superseded")
    /\ WorkerOnly

Send(w) ==
    /\ At(w, "sending")
    /\ copies' = copies + 1
    /\ Ends(w, "sent")
    /\ UNCHANGED <<queue, row, stands, active, wants, late, changes, retries, faults>>

\* What became of it is written under the number of the attempt.
Fenced(w) ==
    /\ row.attempts = worker[w].attempt
    /\ queue = "requests" => row.status = "sending"

Finish(w) ==
    /\ At(w, "finishing")
    /\ row' = IF Fenced(w)
              THEN [row EXCEPT !.status = worker[w].outcome, !.leased = FALSE]
              ELSE row
    /\ worker' = [worker EXCEPT ![w] = Idle]
    /\ UNCHANGED <<queue, stands, active, wants, copies, late, changes, retries, faults>>

\* Another try later, or none.
Failed(r) == [r EXCEPT !.leased = FALSE, !.due = FALSE,
                       !.status = IF queue # "requests" THEN @
                                  ELSE IF r.attempts >= Cap THEN "failed" ELSE "pending"]

Fail(w) ==
    /\ At(w, "failing")
    /\ row' = IF Fenced(w) THEN Failed(row) ELSE row
    /\ worker' = [worker EXCEPT ![w] = Idle]
    /\ UNCHANGED <<queue, stands, active, wants, copies, late, changes, retries, faults>>

\* A call of Billing, the mail server or the database fails; the mail server
\* may have taken the mail all the same.
CallFails(w) ==
    /\ worker[w].pc \in {"checking", "asking", "rechecking", "sending", "finishing"}
    /\ Fault
    /\ copies' \in {copies, IF At(w, "sending") THEN copies + 1 ELSE copies}
    /\ Goes(w, "failing")
    /\ UNCHANGED <<queue, row, stands, active, wants, late, changes, retries>>

-----------------------------------------------------------------------------
Crash(w) ==
    /\ worker[w] # Idle
    /\ Fault
    /\ worker' = [worker EXCEPT ![w] = Idle]
    /\ UNCHANGED <<queue, row, stands, active, wants, copies, late, changes, retries>>

\* Two minutes are over: for the claim of a dead process, or of a slow one.
Held == \E w \in Workers : worker[w] # Idle /\ worker[w].attempt = row.attempts

Lapse ==
    /\ row.leased
    /\ IF Held THEN Fault ELSE UNCHANGED faults
    /\ row' = [row EXCEPT !.leased = FALSE]
    /\ UNCHANGED <<queue, stands, active, wants, worker, copies, late, changes, retries>>

Due ==
    /\ ~row.due
    /\ row' = [row EXCEPT !.due = TRUE]
    /\ RowOnly

\* retry(): an operator has a parked mail sent again, and counted anew.
Retry ==
    /\ row.status = "failed"
    /\ retries < MaxRetries
    /\ retries' = retries + 1
    /\ row' = [row EXCEPT !.status = "pending", !.attempts = 0, !.due = TRUE]
    /\ UNCHANGED <<queue, stands, active, wants, worker, copies, late, changes, faults>>

\* The customer pays, or falls back.
StateChanges ==
    /\ queue = "notices"
    /\ changes < MaxChanges
    /\ changes' = changes + 1
    /\ stands' = ~stands
    /\ late' = {w \in Workers : At(w, "sending")}
    /\ UNCHANGED <<queue, row, active, wants, worker, copies, retries, faults>>

Ended ==
    /\ queue = "notices"
    /\ active
    /\ active' = FALSE
    /\ UNCHANGED <<queue, row, stands, wants, worker, copies, late, changes, retries, faults>>

Works(w) == Check(w) \/ Ask(w) \/ Recheck(w) \/ Send(w) \/ Finish(w) \/ Fail(w)

Next ==
    \/ Submit
    \/ \E w \in Workers : Claim(w) \/ Works(w) \/ CallFails(w) \/ Crash(w)
    \/ Lapse \/ Due \/ Retry \/ StateChanges \/ Ended

Spec == Init /\ [][Next]_vars

\* The timers look every 30 seconds; calls have time limits; time goes on.
Fairness ==
    /\ \A w \in Workers : WF_vars(Claim(w)) /\ WF_vars(Works(w))
    /\ WF_vars(Lapse) /\ WF_vars(Due)

FairSpec == Spec /\ Fairness

-----------------------------------------------------------------------------
\* A notice that is no longer true, because the customer paid or fell back since,
\* goes out only if it was already being handed to the mail server: whoever
\* claims, resumes or repeats it afterwards drops it.
NoticesAreTrue ==
    [][\A w \in Workers :
        queue = "notices" /\ ~stands /\ At(w, "sending") /\ copies' # copies
            /\ worker'[w] # worker[w]
        => w \in late]_vars

\* Copies are paid for with faults: without a failed call, a crash or a claim
\* that lapsed under its holder, a mail goes out once, and each fault accounts
\* for one more at most; also when an operator has started the count again,
\* and an old answer is taken for that of a new attempt.
CopiesPaidFor == copies <= 1 + faults

\* Every mail comes to an end: sent, dropped with a reason, or parked for an
\* operator; whoever had it died, or failed, at whatever step.
MailSettles == <>[](row.status \in Final \cup {"none", "failed"})
===============================================================================
