---------------------------- MODULE RevisionOutbox ----------------------------
(***************************************************************************)
(* Delivery of commercial revisions and of their cancellations to Billing. *)
(*                                                                         *)
(* A revision is committed in Control first and posted to Billing later,   *)
(* by the HTTP handler that saved it, by an operator who asks for a sync,  *)
(* or by the timer of any instance (ContractSyncWorker).  Who posts it     *)
(* holds it under a lease of two minutes and no lock.  A cancellation is   *)
(* posted under a row lock.  Requests time out after 45 seconds, and one   *)
(* that timed out may still reach Billing at any later moment.             *)
(*                                                                         *)
(* Revisions are numbered in the order they were created (created_at).     *)
(* claim_id is a fresh UUID: it is represented by the value that attempts  *)
(* takes in the same UPDATE, which no earlier claim of the row had; 0      *)
(* stands for NULL.  Billing is external.                                  *)
(***************************************************************************)
EXTENDS Integers, Sequences, FiniteSets

CONSTANTS
    NumRevisions,  \* bound: revisions created in a behaviour
    Workers,       \* timers, one per instance of the service
    Callers,       \* HTTP handlers and the courtesy expiry
    MaxAttempts,   \* the timer takes no revision after this many claims (10)
    Batch,         \* turns of each loop in one run of a timer (10, 10 and 25)
    MaxFaults      \* bound: failed calls, crashes and stalls in a behaviour

ASSUME OutboxAssumption ==
    /\ NumRevisions \in Nat \ {0}
    /\ MaxAttempts \in Nat \ {0}
    /\ Batch \in Nat \ {0}
    /\ MaxFaults \in Nat
    /\ Workers \cap Callers = {}

VARIABLES
    created,  \* number of revisions saved
    rev,      \* rows of contract_commercial_revisions
    canc,     \* rows of commercial_cancellations
    queue,    \* due cancellations, in the order of next_attempt_at
    ledger,   \* what Billing holds of each revision
    wire,     \* abandoned requests that Billing may still receive
    actor,    \* where each timer and handler stands
    faults    \* faults so far

vars == <<created, rev, canc, queue, ledger, wire, actor, faults>>

Revisions == 1..NumRevisions
Actors    == Workers \cup Callers

Saved(r)  == r <= created

-------------------------------------------------------------------------------
Rows == [status    : {"pending", "synced"},
         cancelled : BOOLEAN,   \* cancelled_at is set
         effective : BOOLEAN,   \* payload.effectiveAt <= now
         claim     : Nat,       \* claim_id
         lease     : {"none", "live", "lapsed"},  \* lease_until against now
         attempts  : Nat,
         due       : BOOLEAN]   \* next_attempt_at <= now

Steps == {"idle",
          "claim",      \* about to claim the revision rev
          "post",       \* has claimed it: POST /commercial/contract-terms
          "acked",      \* Billing has answered
          "errored",    \* the call failed, or complete() did
          "drop",       \* about to deliver the cancellation of rev
          "dropping",   \* holds its row lock: POST .../cancel
          "dropped",    \* Billing has answered
          "refused"}    \* the call failed

Phases == {"rest", "cancellations", "revisions", "expiry"}

ActorStates == [pc    : Steps,
                rev   : Revisions \cup {0},
                token : Nat,          \* claimId of the row it was given
                phase : Phases,       \* which loop of run() a timer is in
                left  : 0..Batch]     \* iterations left in that loop

Requests == {"terms", "cancel"} \X Revisions

BlankRow == [status |-> "pending", cancelled |-> FALSE, effective |-> FALSE,
             claim |-> 0, lease |-> "none", attempts |-> 0, due |-> TRUE]

Resting == [pc |-> "idle", rev |-> 0, token |-> 0, phase |-> "rest", left |-> 0]

Init == /\ created = 0
        /\ rev     = [r \in Revisions |-> BlankRow]
        /\ canc    = [r \in Revisions |-> "none"]
        /\ queue   = <<>>
        /\ ledger  = [r \in Revisions |-> "unknown"]
        /\ wire    = {}
        /\ actor   = [a \in Actors |-> Resting]
        /\ faults  = 0

-------------------------------------------------------------------------------
\* Moves of one actor between its steps.

Goto(a, pc) == actor' = [actor EXCEPT ![a].pc = pc]

Finish(a) == actor' = [actor EXCEPT ![a] =
                         [@ EXCEPT !.pc = "idle", !.rev = 0, !.token = 0]]

\* The actor goes on with r; for a timer this is one iteration of its loop.
LeftAfter(a) == IF a \in Workers THEN actor[a].left - 1 ELSE actor[a].left

Start(a, pc, r, token) ==
    actor' = [actor EXCEPT ![a] =
                [@ EXCEPT !.pc = pc, !.rev = r, !.token = token, !.left = LeftAfter(a)]]

EnterPhase(w, phase, n) ==
    actor' = [actor EXCEPT ![w] = [@ EXCEPT !.phase = phase, !.left = n]]

Fault == faults < MaxFaults /\ faults' = faults + 1

\* A handler may begin; so may a timer, inside courtesyExpiry.run().
FreeToCall(a) == /\ actor[a].pc = "idle"
                 /\ a \in Workers => /\ actor[a].phase = "expiry"
                                     /\ actor[a].left > 0

-------------------------------------------------------------------------------
\* Publication.

\* save() commits a new row; the publisher then delivers it by id.
Publish(a) ==
    /\ FreeToCall(a)
    /\ created < NumRevisions
    /\ created' = created + 1
    /\ \E now \in BOOLEAN : rev' = [rev EXCEPT ![created + 1].effective = now]
    /\ Start(a, "claim", created + 1, 0)
    /\ UNCHANGED <<canc, queue, ledger, wire, faults>>

\* publishConfirmedSnapshot and endCourtesy with a key already used: the
\* revision is delivered again unless it is synced, cancelled or not.
Republish(a, r) ==
    /\ FreeToCall(a)
    /\ Saved(r)
    /\ rev[r].status # "synced"
    /\ Start(a, "claim", r, 0)
    /\ UNCHANGED <<created, rev, canc, queue, ledger, wire, faults>>

\* An operator asks for a revision to be delivered now.
Sync(c, r) ==
    /\ actor[c].pc = "idle"
    /\ Saved(r)
    /\ ~rev[r].cancelled
    /\ rev[r].status # "synced"
    /\ Start(c, "claim", r, 0)
    /\ UNCHANGED <<created, rev, canc, queue, ledger, wire, faults>>

\* payload.effectiveAt is reached.
TakesEffect(r) ==
    /\ Saved(r)
    /\ ~rev[r].effective
    /\ rev' = [rev EXCEPT ![r].effective = TRUE]
    /\ UNCHANGED <<created, canc, queue, ledger, wire, actor, faults>>

-------------------------------------------------------------------------------
\* Claim of a revision.

\* Variants with a plausible bug: the lease ignored, the lease never expiring.
Claimable_NoLease(r) == Saved(r) /\ rev[r].status = "pending" /\ ~rev[r].cancelled

Claimable_NoExpiry(r) == Claimable_NoLease(r) /\ rev[r].lease = "none"

Claimable(r) == /\ Saved(r)
                /\ rev[r].status = "pending"
                /\ ~rev[r].cancelled
                /\ rev[r].lease # "live"

DueRevisions == {r \in Revisions : /\ Claimable(r)
                                   /\ rev[r].attempts < MaxAttempts
                                   /\ rev[r].due}

First(i, S) == i \in S /\ \A j \in S : i <= j

Claimed(r) == [rev EXCEPT ![r] = [@ EXCEPT !.claim    = rev[r].attempts + 1,
                                           !.lease    = "live",
                                           !.attempts = rev[r].attempts + 1]]

\* claim(id): neither the cap nor next_attempt_at counts.
ClaimById(a) ==
    LET r == actor[a].rev IN
    /\ actor[a].pc = "claim"
    /\ IF Claimable(r)
         THEN /\ rev' = Claimed(r)
              /\ actor' = [actor EXCEPT ![a] =
                             [@ EXCEPT !.pc = "post",
                                       !.token = rev[r].attempts + 1]]
         ELSE Finish(a) /\ UNCHANGED rev
    /\ UNCHANGED <<created, canc, queue, ledger, wire, faults>>

\* Variant: the loop has no last turn.
ClaimNext_NoLastTurn(w) ==
    /\ actor[w].pc = "idle" /\ actor[w].phase = "revisions"
    /\ \E r \in Revisions :
         /\ First(r, DueRevisions)
         /\ rev' = Claimed(r)
         /\ Start(w, "post", r, rev[r].attempts + 1)
    /\ UNCHANGED <<created, canc, queue, ledger, wire, faults>>

\* claim() by a timer.
ClaimNext(w) ==
    /\ actor[w].pc = "idle" /\ actor[w].phase = "revisions"
    /\ actor[w].left > 0
    /\ \E r \in Revisions :
         /\ First(r, DueRevisions)
         /\ rev' = Claimed(r)
         /\ Start(w, "post", r, rev[r].attempts + 1)
    /\ UNCHANGED <<created, canc, queue, ledger, wire, faults>>

\* lease_until passes.  Nobody works on the row any more, or its holder is
\* stalled, which is a fault: its calls end well within the lease otherwise.
Holds(a, r) == /\ actor[a].pc \in {"post", "acked", "errored"}
               /\ actor[a].rev = r
               /\ actor[a].token = rev[r].claim

Abandoned(r) == rev[r].lease = "live" /\ \A a \in Actors : ~Holds(a, r)

LeaseLapses(r) ==
    /\ Abandoned(r)
    /\ rev' = [rev EXCEPT ![r].lease = "lapsed"]
    /\ UNCHANGED <<created, canc, queue, ledger, wire, actor, faults>>

HolderStalls(r) ==
    /\ rev[r].lease = "live" /\ ~Abandoned(r)
    /\ Fault
    /\ rev' = [rev EXCEPT ![r].lease = "lapsed"]
    /\ UNCHANGED <<created, canc, queue, ledger, wire, actor>>

\* next_attempt_at passes.
RevisionDue(r) ==
    /\ ~rev[r].due
    /\ rev' = [rev EXCEPT ![r].due = TRUE]
    /\ UNCHANGED <<created, canc, queue, ledger, wire, actor, faults>>

-------------------------------------------------------------------------------
\* The calls, and what Billing does of them.  The revision's id is the
\* idempotency key of its terms: Billing records them once.

LedgerAfter(request) ==
    LET r == request[2] IN
    CASE request[1] = "terms"  /\ ledger[r] = "unknown" ->
             [ledger EXCEPT ![r] = "open"]
      [] request[1] = "cancel" /\ ledger[r] # "unknown" ->
             [ledger EXCEPT ![r] = "cancelled"]
      [] OTHER -> ledger

PostAnswered(a) ==
    /\ actor[a].pc = "post"
    /\ ledger' = LedgerAfter(<<"terms", actor[a].rev>>)
    /\ Goto(a, "acked")
    /\ UNCHANGED <<created, rev, canc, queue, wire, faults>>

\* Refused, cut off or timed out; in the last case Billing may still get it.
PostFails(a) ==
    /\ actor[a].pc = "post"
    /\ Fault
    /\ wire' \in {wire, wire \cup {<<"terms", actor[a].rev>>}}
    /\ Goto(a, "errored")
    /\ UNCHANGED <<created, rev, canc, queue, ledger>>

\* The answer does not name the revision, or complete() throws.
AckNotRecorded(a) ==
    /\ actor[a].pc = "acked"
    /\ Fault
    /\ Goto(a, "errored")
    /\ UNCHANGED <<created, rev, canc, queue, ledger, wire>>

\* An abandoned request reaches Billing.
Arrives(request) ==
    /\ request \in wire
    /\ ledger' = LedgerAfter(request)
    /\ wire' = wire \ {request}
    /\ UNCHANGED <<created, rev, canc, queue, actor, faults>>

\* Variant: WHERE id=$1 alone.
StillClaimed_Unfenced(a) == actor[a].rev # 0

\* WHERE id=$1 AND claim_id=$2
StillClaimed(a) == rev[actor[a].rev].claim = actor[a].token

Complete(a) ==
    LET r == actor[a].rev IN
    /\ actor[a].pc = "acked"
    /\ rev' = IF StillClaimed(a)
                THEN [rev EXCEPT ![r] = [@ EXCEPT !.status = "synced",
                                                  !.claim  = 0,
                                                  !.lease  = "none"]]
                ELSE rev
    /\ Finish(a)
    /\ UNCHANGED <<created, canc, queue, ledger, wire, faults>>

Fail(a) ==
    LET r == actor[a].rev IN
    /\ actor[a].pc = "errored"
    /\ rev' = IF StillClaimed(a)
                THEN [rev EXCEPT ![r] = [@ EXCEPT !.due   = FALSE,
                                                  !.claim = 0,
                                                  !.lease = "none"]]
                ELSE rev
    /\ Finish(a)
    /\ UNCHANGED <<created, canc, queue, ledger, wire, faults>>

-------------------------------------------------------------------------------
\* Cancellation.

\* Variant: the date is not looked at.
Cancel_AnyTime(c, r) ==
    /\ actor[c].pc = "idle" /\ Saved(r) /\ canc[r] = "none"
    /\ rev'   = [rev EXCEPT ![r].cancelled = TRUE]
    /\ canc'  = [canc EXCEPT ![r] = "pending"]
    /\ queue' = Append(queue, r)
    /\ Start(c, "drop", r, 0)
    /\ UNCHANGED <<created, ledger, wire, faults>>

\* The transaction of cancel(); the handler then delivers it by id.  A second
\* request for the same revision only delivers.
Cancel(c, r) ==
    /\ actor[c].pc = "idle"
    /\ Saved(r)
    /\ canc[r] = "none"
    /\ ~rev[r].effective
    /\ rev'   = [rev EXCEPT ![r].cancelled = TRUE]
    /\ canc'  = [canc EXCEPT ![r] = "pending"]
    /\ queue' = Append(queue, r)
    /\ Start(c, "drop", r, 0)
    /\ UNCHANGED <<created, ledger, wire, faults>>

CancelAgain(c, r) ==
    /\ actor[c].pc = "idle"
    /\ canc[r] # "none"
    /\ Start(c, "drop", r, 0)
    /\ UNCHANGED <<created, rev, canc, queue, ledger, wire, faults>>

\* The row is locked by the transaction of an actor that is dropping it.
Locked(r) == \E a \in Actors : /\ actor[a].pc \in {"dropping", "dropped", "refused"}
                               /\ actor[a].rev = r

\* deliver(id): the row is locked, or skipped when another one has it.
DropById(c) ==
    /\ actor[c].pc = "drop"
    /\ IF canc[actor[c].rev] = "pending" /\ ~Locked(actor[c].rev)
         THEN Goto(c, "dropping")
         ELSE Finish(c)
    /\ UNCHANGED <<created, rev, canc, queue, ledger, wire, faults>>

\* deliver() by a timer: the first due row that is not locked.
FreeInQueue == {i \in 1..Len(queue) : ~Locked(queue[i])}

DropNext(w) ==
    /\ actor[w].pc = "idle" /\ actor[w].phase = "cancellations"
    /\ actor[w].left > 0
    /\ \E i \in 1..Len(queue) :
         /\ First(i, FreeInQueue)
         /\ Start(w, "dropping", queue[i], 0)
    /\ UNCHANGED <<created, rev, canc, queue, ledger, wire, faults>>

\* Billing drops a revision it holds and refuses to drop one it does not.
DropAnswered(a) ==
    LET r == actor[a].rev IN
    /\ actor[a].pc = "dropping"
    /\ ledger' = LedgerAfter(<<"cancel", r>>)
    /\ Goto(a, IF ledger[r] = "unknown" THEN "refused" ELSE "dropped")
    /\ UNCHANGED <<created, rev, canc, queue, wire, faults>>

DropFails(a) ==
    /\ actor[a].pc = "dropping"
    /\ Fault
    /\ wire' \in {wire, wire \cup {<<"cancel", actor[a].rev>>}}
    /\ Goto(a, "refused")
    /\ UNCHANGED <<created, rev, canc, queue, ledger>>

Places(q, r) == {i \in 1..Len(q) : q[i] = r}

Without(q, r) ==
    LET i == CHOOSE j \in Places(q, r) : TRUE
    IN  IF Places(q, r) = {} THEN q
        ELSE [j \in 1..(Len(q) - 1) |-> IF j < i THEN q[j] ELSE q[j + 1]]

DropDone(a) ==
    LET r == actor[a].rev IN
    /\ actor[a].pc = "dropped"
    /\ canc'  = [canc EXCEPT ![r] = "synced"]
    /\ queue' = Without(queue, r)
    /\ Finish(a)
    /\ UNCHANGED <<created, rev, ledger, wire, faults>>

\* next_attempt_at is moved five minutes ahead.
DropPutOff(a) ==
    /\ actor[a].pc = "refused"
    /\ queue' = Without(queue, actor[a].rev)
    /\ Finish(a)
    /\ UNCHANGED <<created, rev, canc, ledger, wire, faults>>

\* Variant: ordered by creation, so that the same row is tried first again.
CancellationDue_First(r) ==
    /\ canc[r] = "pending"
    /\ Places(queue, r) = {}
    /\ queue' = <<r>> \o queue
    /\ UNCHANGED <<created, rev, canc, ledger, wire, actor, faults>>

\* next_attempt_at passes: behind every cancellation already due.
CancellationDue(r) ==
    /\ canc[r] = "pending"
    /\ Places(queue, r) = {}
    /\ queue' = Append(queue, r)
    /\ UNCHANGED <<created, rev, canc, ledger, wire, actor, faults>>

-------------------------------------------------------------------------------
\* The run() of a timer: a loop of cancellations, a loop of revisions, the
\* courtesy expiry.  A loop ends when nothing is found or at its last turn.

Tick(w) ==
    /\ actor[w].pc = "idle" /\ actor[w].phase = "rest"
    /\ EnterPhase(w, "cancellations", Batch)
    /\ UNCHANGED <<created, rev, canc, queue, ledger, wire, faults>>

NextPhase(w) ==
    /\ actor[w].pc = "idle"
    /\ \/ /\ actor[w].phase = "cancellations"
          /\ actor[w].left = 0 \/ FreeInQueue = {}
          /\ EnterPhase(w, "revisions", Batch)
       \/ /\ actor[w].phase = "revisions"
          /\ actor[w].left = 0 \/ DueRevisions = {}
          /\ EnterPhase(w, "expiry", Batch)
       \/ /\ actor[w].phase = "expiry"
          /\ EnterPhase(w, "rest", 0)
    /\ UNCHANGED <<created, rev, canc, queue, ledger, wire, faults>>

\* The process of an actor stops; a transaction it had open is rolled back,
\* and a request it had sent may still be received.
InFlight(a) == CASE actor[a].pc = "post"     -> {<<"terms", actor[a].rev>>}
                 [] actor[a].pc = "dropping" -> {<<"cancel", actor[a].rev>>}
                 [] OTHER                    -> {}

Crash(a) ==
    /\ actor[a].pc # "idle"
    /\ Fault
    /\ wire' \in {wire, wire \cup InFlight(a)}
    /\ actor' = [actor EXCEPT ![a] = Resting]
    /\ UNCHANGED <<created, rev, canc, queue, ledger>>

-------------------------------------------------------------------------------
\* What an actor does once it has begun, and what time does.
Proceeds(a) == \/ ClaimById(a) \/ PostAnswered(a) \/ Complete(a) \/ Fail(a)
               \/ DropById(a) \/ DropAnswered(a) \/ DropDone(a) \/ DropPutOff(a)

Run(w)      == Tick(w) \/ DropNext(w) \/ ClaimNext(w) \/ NextPhase(w)

Misfortune(a) == PostFails(a) \/ AckNotRecorded(a) \/ DropFails(a) \/ Crash(a)

Request(c)  == \E r \in Revisions : Sync(c, r) \/ Cancel(c, r) \/ CancelAgain(c, r)

Clock(r)    == \/ TakesEffect(r) \/ LeaseLapses(r) \/ HolderStalls(r)
               \/ RevisionDue(r) \/ CancellationDue(r)

Next == \/ \E a \in Actors : \/ Publish(a) \/ Proceeds(a) \/ Misfortune(a)
                             \/ \E r \in Revisions : Republish(a, r)
        \/ \E w \in Workers : Run(w)
        \/ \E c \in Callers : Request(c)
        \/ \E r \in Revisions : Clock(r)
        \/ \E request \in wire : Arrives(request)

Spec == Init /\ [][Next]_vars

\* What has begun goes on (every call ends within its timeout), timers fire
\* every minute, and leases and back-offs run out.  Nobody is obliged to send
\* a request, to sync by hand, or to let a lost request arrive.
Fairness == /\ \A a \in Actors : WF_vars(Proceeds(a))
            /\ \A w \in Workers : WF_vars(Run(w))
            /\ \A r \in Revisions : /\ WF_vars(LeaseLapses(r))
                                    /\ WF_vars(RevisionDue(r))
                                    /\ WF_vars(CancellationDue(r))

FairSpec == Spec /\ Fairness
-------------------------------------------------------------------------------
\* Types of the variables.
TypeOK ==
    /\ created \in 0..NumRevisions
    /\ rev     \in [Revisions -> Rows]
    /\ canc    \in [Revisions -> {"none", "pending", "synced"}]
    /\ queue   \in Seq(Revisions)
    /\ ledger  \in [Revisions -> {"unknown", "open", "cancelled"}]
    /\ wire    \subseteq Requests
    /\ actor   \in [Actors -> ActorStates]
    /\ faults  \in 0..MaxFaults

\* A revision that Control shows as synced is held by Billing, and is open
\* there unless it was cancelled: no failed, stale or crashed delivery is
\* ever recorded as one that succeeded.
SyncedIsHeld ==
    \A r \in Revisions : rev[r].status = "synced" =>
        /\ ledger[r] # "unknown"
        /\ ledger[r] = "cancelled" => rev[r].cancelled

\* A cancellation that Control shows as synced is final: Billing has dropped
\* the revision, whatever request for it is still on its way.
SettledIsDropped ==
    \A r \in Revisions : canc[r] = "synced" => ledger[r] = "cancelled"

\* The row of a cancellation is worked on by one transaction at a time,
\* although it is picked by id and by every timer.
OneDropper ==
    \A a, b \in Actors :
        /\ actor[a].pc \in {"dropping", "dropped", "refused"}
        /\ actor[b].pc \in {"dropping", "dropped", "refused"}
        /\ actor[a].rev = actor[b].rev
        => a = b

\* Every claim of a revision but the first was paid for by a fault: while the
\* lease excludes others and success ends the queueing, the ten attempts of
\* the timer are not used up by concurrency alone.
AttemptsPaidFor == \A r \in Revisions : rev[r].attempts <= faults + 1

\* While a lease is live only the actor that holds the claim changes it: one
\* that answers late never frees or takes the row of its successor.
LeaseRespected ==
    [][\A r \in Revisions :
          rev[r].lease = "live" /\ rev'[r].claim # rev[r].claim =>
              \E a \in Actors : Holds(a, r) /\ actor'[a].pc = "idle"]_vars

\* What this module promises to the rest of the system.
Ledger == INSTANCE TermsLedger WITH
              control   <- [r \in Revisions |-> IF Saved(r) THEN rev[r].status
                                                            ELSE "absent"],
              effective <- [r \in Revisions |-> rev[r].effective],
              withdrawn <- canc

\* The outbox implements the abstract ledger.
ImplementsLedger == Ledger!Spec

\* A cancelled revision that Billing holds is dropped by Billing, however the
\* terms, the cancellation and their retries overtake each other.
CancellationsWin ==
    \A r \in Revisions : rev[r].cancelled /\ ledger[r] = "open"
                             ~> ledger[r] = "cancelled"

\* A saved revision is delivered or cancelled in the end, also when the
\* handler that saved it crashed before the first attempt.
RevisionsSettle ==
    \A r \in Revisions : Saved(r) ~> rev[r].status = "synced" \/ rev[r].cancelled
===============================================================================
