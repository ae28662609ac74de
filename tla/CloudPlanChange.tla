----------------------------- MODULE CloudPlanChange ----------------------------
(***************************************************************************)
(* The change of plan a customer asks for in the Cloud panel: an upgrade   *)
(* (of the free plan or of a paid one) that is paid, published, activated  *)
(* in Billing and told to Licensing, or a downgrade at the end of what is  *)
(* paid.  CloudPlanChangeService carries it out in steps that a timer and  *)
(* the panel repeat until it is over; cancel() withdraws it.               *)
(*                                                                         *)
(* A row is claimed for five minutes.  Nothing renews the claim, and the   *)
(* writes name the row by its id alone: an actor whose claim lapsed goes   *)
(* on writing, and its last write frees whatever claim there is.           *)
(***************************************************************************)
EXTENDS Integers, Sequences, FiniteSets, FiniteSetsExt

CONSTANTS
    Workers,     \* timers and handlers in start() and process()
    Cancellers,  \* handlers in cancel()
    Kinds,       \* kinds of change that are asked for
    PaidUntil,   \* quote.endsOn: end of the paid period
    Grace,       \* how far back an operator may date conditions
    Horizon,     \* bound: last day
    MaxMoves,    \* bound: revisions operators publish or cancel, terminations
    MaxFaults    \* bound: calls that fail, processes that die, claims that lapse

ASSUME PlanAssumption ==
    /\ Workers \cap Cancellers = {}
    /\ Kinds \subseteq {"free_upgrade", "upgrade", "downgrade"}
    /\ PaidUntil \in Nat \ {0}
    /\ Grace \in Nat
    /\ Horizon \in Nat \ {0}
    /\ MaxMoves \in Nat
    /\ MaxFaults \in Nat

VARIABLES
    now,
    kind,        \* of the change, from the beginning
    request,     \* the row of cloud_plan_change_requests, with its claim
    revisions,   \* of the contract, in the order of their versions: since
                 \* when they apply, and when they were saved
    ending,      \* a termination of the contract is recorded
    next,        \* next_cycle_on of the enrollment
    billing,     \* the change in Billing: its payment, the next cycle it answers
    announced,   \* entries in the timeline that the upgrade is done, up to two
    lapsed,      \* whether a claim has lapsed under a process that goes on
    actor, moves, faults

vars == <<now, kind, request, revisions, ending, next, billing, announced,
          lapsed, actor, moves, faults>>

Actors == Workers \cup Cancellers
Days   == 0..(Horizon + PaidUntil)

Open        == {"requested", "awaiting_payment", "scheduled", "activated"}
Cancellable == {"scheduled", "awaiting_payment", "needs_review"}
Statuses    == Open \cup {"none", "completed", "needs_review", "cancelled"}
Payments    == {"none", "awaiting_payment", "paid", "activated", "expired", "cancelled"}

\* The first revision is what the contract has; the change publishes one of
\* its own under a key made of its id.
Keys == {"base", "change", "operator"}

Idle == [pc |-> "idle"]

At(pc) == [pc |-> pc]

States ==
    {At(pc) : pc \in {"idle", "checking", "published", "billing", "acked",
                      "telling", "completing", "conflict", "dropped", "leaving"}}
    \cup [pc : {"quoted"}, base : Nat, at : Days]
    \cup [pc : {"publishing"}, at : Days]
    \cup [pc : {"claimed", "asking"}, status : Open]
    \cup [pc : {"answered"}, status : Open, payment : Payments]
    \cup [pc : {"cancelling", "dropping"}, revision : Nat]

TypeOK ==
    /\ now \in 0..Horizon
    /\ kind \in Kinds
    /\ request \in [status : Statuses, base : Nat, at : Days, revision : Nat,
                    leased : BOOLEAN]
    /\ revisions \in Seq([key : Keys, at : Days, made : Days, cancelled : BOOLEAN,
                          synced : BOOLEAN])
    /\ ending \in BOOLEAN
    /\ next \in Days
    /\ billing \in [payment : Payments, paidAt : Days, next : Days]
    /\ announced \in 0..2
    /\ lapsed \in BOOLEAN
    /\ actor \in [Actors -> States]
    /\ moves \in 0..MaxMoves
    /\ faults \in 0..MaxFaults

Init ==
    /\ now = 0
    /\ kind \in Kinds
    /\ request = [status |-> "none", base |-> 0, at |-> 0, revision |-> 0,
                  leased |-> FALSE]
    /\ revisions = <<[key |-> "base", at |-> 0, made |-> 0, cancelled |-> FALSE,
                     synced |-> TRUE]>>
    /\ ending = FALSE
    /\ next = PaidUntil
    /\ billing = [payment |-> "none", paidAt |-> 0, next |-> PaidUntil]
    /\ announced = 0
    /\ lapsed = FALSE
    /\ actor = [a \in Actors |-> Idle]
    /\ moves = 0
    /\ faults = 0

-----------------------------------------------------------------------------
Standing == {i \in DOMAIN revisions : ~revisions[i].cancelled}
InEffect == {i \in Standing : revisions[i].at <= now}
Current  == Max(InEffect)
Changed  == {i \in DOMAIN revisions : revisions[i].key = "change"}

Goes(a, state) == actor' = [actor EXCEPT ![a] = state]
Status(s)      == request' = [request EXCEPT !.status = s]
Fault          == faults < MaxFaults /\ faults' = faults + 1

RequestOnly  == UNCHANGED <<now, kind, revisions, ending, next, billing,
                            announced, lapsed, moves, faults>>
ActorOnly    == RequestOnly /\ UNCHANGED request
BillingOnly  == UNCHANGED <<now, kind, request, revisions, ending, next,
                            announced, lapsed, moves, faults>>

\* start(): the price and the base are read before the lock.
Quote(w) ==
    /\ actor[w] = Idle
    /\ request.status = "none"
    /\ revisions[Current].synced
    /\ Goes(w, [pc |-> "quoted", base |-> Current,
                at |-> IF kind = "downgrade" THEN PaidUntil ELSE now])
    /\ ActorOnly

\* Under the lock of the contract: a repeated key is answered with the row
\* there is, and process() follows either way.
MayStart == /\ ~ending
            /\ request.status = "none"
            /\ \A i \in Standing : revisions[i].at <= now

Start(w) ==
    /\ actor[w].pc = "quoted"
    /\ request' = IF MayStart
                  THEN [status |-> "requested", base |-> actor[w].base,
                        at |-> actor[w].at, revision |-> 0, leased |-> FALSE]
                  ELSE request
    /\ Goes(w, Idle)
    /\ RequestOnly

-----------------------------------------------------------------------------
\* process(): the row is claimed, unless somebody else has it.
Claimable_Taken == request.status \in Open

\* Forgets the requests that are activated and not yet completed.
Claimable_NotActivated == request.status \in Open \ {"activated"} /\ ~request.leased

Claimable == request.status \in Open /\ ~request.leased

Claim(w) ==
    /\ actor[w] = Idle
    /\ Claimable
    /\ request' = [request EXCEPT !.leased = TRUE]
    /\ Goes(w, [pc |-> "claimed", status |-> request.status])
    /\ RequestOnly

CheckTermination(w) ==
    /\ actor[w].pc = "claimed"
    /\ IF ending
       THEN /\ request' = [request EXCEPT !.status = "needs_review", !.leased = FALSE]
            /\ Goes(w, Idle)
       ELSE /\ UNCHANGED request
            /\ Goes(w, IF kind = "downgrade"
                       THEN [pc |-> "publishing", at |-> request.at]
                       ELSE [pc |-> "asking", status |-> actor[w].status])
    /\ RequestOnly

\* Billing opens an invoice for a change once, and says how it stands.
Asked(b) == IF b.payment = "none" THEN [b EXCEPT !.payment = "awaiting_payment"] ELSE b

Ask(w) ==
    /\ actor[w].pc = "asking"
    /\ LET b == IF actor[w].status = "requested" THEN Asked(billing) ELSE billing IN
        /\ billing' = b
        /\ Goes(w, [pc |-> "answered", status |-> actor[w].status,
                    payment |-> b.payment])
    /\ BillingOnly

\* Writes down what Billing answers.
StatusOf_Verbatim(status, payment) ==
    IF payment \in {"expired", "cancelled"} THEN payment
    ELSE IF status = "requested" THEN "awaiting_payment" ELSE ""

\* What the payment makes of the request; "" leaves it as it is.  "expired" stands
\* for a change that Billing wants reviewed, too.
StatusOf(status, payment) ==
    CASE payment = "expired"   -> "needs_review"
      [] payment = "cancelled" -> "cancelled"
      [] OTHER -> IF status = "requested" THEN "awaiting_payment" ELSE ""

\* Goes on once it is paid, and not for any other answer.
Paid_NotAwaiting(payment) == payment # "awaiting_payment"

Paid(payment) == payment \in {"paid", "activated"}

Answered(w) ==
    /\ actor[w].pc = "answered"
    /\ LET s == StatusOf(actor[w].status, actor[w].payment) IN
        IF s = "" THEN UNCHANGED request ELSE Status(s)
    /\ Goes(w, IF Paid(actor[w].payment) THEN At("checking") ELSE At("leaving"))
    /\ RequestOnly

\* A change that is not published yet needs the conditions it was quoted on.
BaseStillCurrent_Ignored == TRUE

BaseStillCurrent == Changed # {} \/ Current = request.base

\* The new conditions are dated when it was paid, or as they were published.
ChangeAt == IF Changed # {} THEN revisions[Max(Changed)].at
                            ELSE Max({billing.paidAt, request.at})

Check(w) ==
    /\ actor[w].pc = "checking"
    /\ Goes(w, IF BaseStillCurrent THEN [pc |-> "publishing", at |-> ChangeAt]
                                   ELSE At("conflict"))
    /\ ActorOnly

-----------------------------------------------------------------------------
\* publishConfirmedSnapshot(): the revision with the key of the change, if it has
\* the same date, or a new one, which has to come after all that stand, however
\* far back it is dated.
MaySave(at) == ~ending /\ \A i \in Standing : revisions[i].at < at

MayPublish(at) == IF Changed = {} THEN MaySave(at) ELSE revisions[Max(Changed)].at = at

\* Billing gets the terms, unless the call fails or the revision is cancelled.
Delivered(rev) == {rev, [rev EXCEPT !.synced = ~rev.cancelled \/ rev.synced]}

Publish(w) ==
    /\ actor[w].pc = "publishing"
    /\ IF ~MayPublish(actor[w].at)
       THEN Goes(w, At("conflict")) /\ UNCHANGED <<revisions, faults>>
       ELSE \E rev \in Delivered(
                IF Changed = {}
                THEN [key |-> "change", at |-> actor[w].at, made |-> now,
                      cancelled |-> FALSE, synced |-> FALSE]
                ELSE revisions[Max(Changed)]) :
             /\ revisions' = IF Changed = {} THEN Append(revisions, rev)
                             ELSE [revisions EXCEPT ![Max(Changed)] = rev]
             /\ Goes(w, IF rev.synced THEN At("published") ELSE At("leaving"))
             /\ IF rev.synced \/ rev.cancelled THEN UNCHANGED faults ELSE Fault
    /\ UNCHANGED <<now, kind, request, ending, next, billing, announced, lapsed, moves>>

\* A downgrade waits for the end of the paid period.
Schedule(w) ==
    /\ actor[w].pc = "published" /\ kind = "downgrade"
    /\ request' = [request EXCEPT !.status = "scheduled", !.revision = Max(Changed)]
    /\ Goes(w, IF request.at <= now THEN At("billing") ELSE At("leaving"))
    /\ RequestOnly

\* The cycle at its end is billed, if everything else about it is ready.
BillCycle(w) ==
    /\ actor[w].pc = "billing"
    /\ \E n \in {next, Max({next, PaidUntil + 1})} :
        /\ next' = n
        /\ Goes(w, IF n > PaidUntil THEN At("completing") ELSE At("leaving"))
    /\ UNCHANGED <<now, kind, request, revisions, ending, billing, announced,
                   lapsed, moves, faults>>

\* An upgrade is activated in Billing, once.
Activated(b) == IF b.payment = "paid"
                THEN [b EXCEPT !.payment = "activated",
                               !.next = IF kind = "free_upgrade" THEN now + PaidUntil ELSE b.next]
                ELSE b

Activate(w) ==
    /\ actor[w].pc = "published" /\ kind # "downgrade"
    /\ billing' = Activated(billing)
    /\ Goes(w, At("acked"))
    /\ BillingOnly

RecordActivation(w) ==
    /\ actor[w].pc = "acked"
    /\ request' = [request EXCEPT !.status = "activated", !.revision = Max(Changed)]
    /\ next' = IF kind = "free_upgrade" THEN billing.next ELSE next
    /\ Goes(w, At("telling"))
    /\ UNCHANGED <<now, kind, revisions, ending, billing, announced, lapsed, moves, faults>>

\* ContractFinancialService.process(): unless Licensing has the decision that
\* follows, the rest is left for the next time.
Tell(w) ==
    /\ actor[w].pc = "telling"
    /\ \/ Goes(w, At("completing")) /\ UNCHANGED faults
       \/ Goes(w, At("leaving")) /\ Fault
    /\ UNCHANGED <<now, kind, request, revisions, ending, next, billing, announced,
                   lapsed, moves>>

Complete(w) ==
    /\ actor[w].pc = "completing"
    /\ LET done == kind = "downgrade" \/ request.status = "activated" IN
        /\ IF done THEN Status("completed") ELSE UNCHANGED request
        /\ announced' = IF done /\ kind # "downgrade" /\ announced < 2
                         THEN announced + 1 ELSE announced
    /\ Goes(w, At("leaving"))
    /\ UNCHANGED <<now, kind, revisions, ending, next, billing, lapsed, moves, faults>>

-----------------------------------------------------------------------------
\* The catch: a conflict is for a person to look at, anything else is tried
\* again.  The finally: the claim is given up, whose ever it is.
Conflict(w) ==
    /\ actor[w].pc = "conflict"
    /\ IF request.status \in Open THEN Status("needs_review") ELSE UNCHANGED request
    /\ Goes(w, At("leaving"))
    /\ RequestOnly

Leave(a) ==
    /\ actor[a].pc = "leaving"
    /\ request' = [request EXCEPT !.leased = FALSE]
    /\ Goes(a, Idle)
    /\ RequestOnly

\* cancel(): the row is read, then claimed in a state that can be cancelled.
Cancel(c) ==
    /\ actor[c] = Idle
    /\ request.status \in Cancellable
    /\ Goes(c, [pc |-> "cancelling", revision |-> request.revision])
    /\ ActorOnly

ClaimToCancel(c) ==
    /\ actor[c].pc = "cancelling"
    /\ IF request.status \in Cancellable /\ ~request.leased
       THEN /\ request' = [request EXCEPT !.leased = TRUE]
            /\ Goes(c, [pc |-> "dropping", revision |-> actor[c].revision])
       ELSE /\ UNCHANGED request
            /\ Goes(c, Idle)
    /\ RequestOnly

\* A downgrade: its revision, if it was published and is still ahead.
DropRevision(c) ==
    /\ actor[c].pc = "dropping" /\ kind = "downgrade"
    /\ LET r == actor[c].revision
           drops == r # 0 /\ (revisions[r].cancelled \/ revisions[r].at > now)
       IN  /\ revisions' = IF drops THEN [revisions EXCEPT ![r].cancelled = TRUE]
                                    ELSE revisions
           /\ Goes(c, IF drops THEN At("dropped") ELSE At("leaving"))
    /\ UNCHANGED <<now, kind, request, ending, next, billing, announced, lapsed, moves, faults>>

\* An upgrade: Billing gives up an invoice that is not paid.
GivesUp(b) == b.payment \in {"awaiting_payment", "expired", "cancelled"}

Refused == ~GivesUp(billing)

DropPayment(c) ==
    /\ actor[c].pc = "dropping" /\ kind # "downgrade"
    /\ billing' = IF GivesUp(billing) THEN [billing EXCEPT !.payment = "cancelled"]
                                      ELSE billing
    /\ Goes(c, IF Refused THEN At("leaving") ELSE At("dropped"))
    /\ BillingOnly

Cancelled(c) ==
    /\ actor[c].pc = "dropped"
    /\ Status("cancelled")
    /\ Goes(c, At("leaving"))
    /\ RequestOnly

-----------------------------------------------------------------------------
\* A call fails or its answer is lost: what it asked for may have happened.  Or
\* it is refused, which to process() is a conflict.
Calls == {"asking", "billing", "published", "telling", "dropping"}

CallFails(a) ==
    /\ actor[a].pc \in Calls
    /\ Fault
    /\ \/ /\ a \in Workers
          /\ Goes(a, At("conflict"))
          /\ UNCHANGED billing
       \/ /\ Goes(a, At("leaving"))
          /\ billing' \in {billing} \cup
              (CASE actor[a].pc = "asking" /\ actor[a].status = "requested" -> {Asked(billing)}
                 [] actor[a].pc = "published" /\ kind # "downgrade" -> {Activated(billing)}
                 [] actor[a].pc = "dropping" /\ kind # "downgrade" /\ GivesUp(billing)
                      -> {[billing EXCEPT !.payment = "cancelled"]}
                 [] OTHER -> {})
    /\ UNCHANGED <<now, kind, request, revisions, ending, next, announced, lapsed, moves>>

\* A process dies with its claim.
Crash(a) ==
    /\ actor[a].pc \notin {"idle", "quoted", "cancelling"}
    /\ Fault
    /\ Goes(a, Idle)
    /\ UNCHANGED <<now, kind, request, revisions, ending, next, billing,
                   announced, lapsed, moves>>

\* Five minutes are over: for the claim of a dead process, or of a slow one.
Inside(a) == actor[a].pc \notin {"idle", "quoted", "cancelling"}

Lapse ==
    /\ request.leased
    /\ lapsed' = (lapsed \/ \E a \in Actors : Inside(a))
    /\ IF \E a \in Actors : Inside(a) THEN Fault ELSE UNCHANGED faults
    /\ request' = [request EXCEPT !.leased = FALSE]
    /\ UNCHANGED <<now, kind, revisions, ending, next, billing, announced,
                   actor, moves>>

-----------------------------------------------------------------------------
Move == moves < MaxMoves /\ moves' = moves + 1

\* Operators publish conditions, dated back a little at most, and cancel future
\* ones by other ways, which do not look at the change.
OperatorPublishes(at) ==
    /\ Move
    /\ ~ending
    /\ at + Grace >= now
    /\ \A i \in Standing : revisions[i].at < at
    /\ revisions' = Append(revisions, [key |-> "operator", at |-> at, made |-> now,
                                       cancelled |-> FALSE, synced |-> TRUE])
    /\ UNCHANGED <<now, kind, request, ending, next, billing, announced,
                   lapsed, actor, faults>>

OperatorCancels(i) ==
    /\ Move
    /\ revisions[i].at > now /\ ~revisions[i].cancelled
    /\ revisions' = [revisions EXCEPT ![i].cancelled = TRUE]
    /\ UNCHANGED <<now, kind, request, ending, next, billing, announced,
                   lapsed, actor, faults>>

Terminate ==
    /\ Move
    /\ ~ending
    /\ ending' = TRUE
    /\ UNCHANGED <<now, kind, request, revisions, next, billing, announced,
                   lapsed, actor, faults>>

\* The customer pays the invoice, or it expires.
PaymentSettles ==
    /\ billing.payment = "awaiting_payment"
    /\ billing' \in {[billing EXCEPT !.payment = "paid", !.paidAt = now],
                     [billing EXCEPT !.payment = "expired"]}
    /\ BillingOnly /\ UNCHANGED actor

Tick ==
    /\ now < Horizon
    /\ now' = now + 1
    /\ UNCHANGED <<kind, request, revisions, ending, next, billing, announced,
                   lapsed, actor, moves, faults>>

Works(w) == \/ CheckTermination(w) \/ Ask(w) \/ Answered(w) \/ Check(w)
            \/ Publish(w) \/ Schedule(w) \/ BillCycle(w) \/ Activate(w)
            \/ RecordActivation(w) \/ Tell(w) \/ Complete(w) \/ Conflict(w)

Cancels(c) == DropRevision(c) \/ DropPayment(c) \/ Cancelled(c)

Operators == \/ \E at \in 0..(now + 1) : OperatorPublishes(at)
             \/ \E i \in DOMAIN revisions : OperatorCancels(i)
             \/ Terminate

Next ==
    \/ \E w \in Workers : Quote(w) \/ Start(w) \/ Claim(w) \/ Works(w)
    \/ \E c \in Cancellers : Cancel(c) \/ ClaimToCancel(c) \/ Cancels(c)
    \/ \E a \in Actors : Leave(a) \/ CallFails(a) \/ Crash(a)
    \/ Lapse \/ Operators \/ PaymentSettles \/ Tick

Spec == Init /\ [][Next]_vars

\* The timer claims every few seconds what is claimable; calls come back; a
\* claim ends after five minutes.
Fairness ==
    /\ \A w \in Workers : SF_vars(Claim(w)) /\ WF_vars(Works(w))
    /\ \A c \in Cancellers : WF_vars(Cancels(c))
    /\ \A a \in Actors : WF_vars(Leave(a))
    /\ WF_vars(Lapse)

FairSpec == Spec /\ Fairness

-----------------------------------------------------------------------------
\* No upgrade without payment: conditions of an upgrade are published, and the
\* request counts as activated or completed, only after Billing has the money
\* for it, however many actors work on a row whose claim has lapsed.
NothingUnpaid ==
    kind # "downgrade" =>
        /\ Changed # {} => billing.payment \in {"paid", "activated"}
        /\ request.status \in {"activated", "completed"} =>
            billing.payment = "activated" /\ \A i \in Changed : revisions[i].synced

\* An upgrade never takes the place of conditions that an operator published
\* after its quote and before it was paid: they are cancelled, or it is not
\* published.  What the check comes too early for, and the historical date of the
\* upgrade overtakes, is saved after the payment and dated back to before it.
BaseStands ==
    kind # "downgrade" =>
        \A i \in Changed : \A j \in (request.base + 1)..(i - 1) :
            \/ revisions[j].cancelled
            \/ revisions[j].made >= revisions[i].at /\ revisions[i].at > revisions[j].at

\* An upgrade that the customer is told is cancelled costs nothing: Billing has
\* given the invoice up, and will not take it back.
CancelledForFree ==
    kind # "downgrade" /\ request.status = "cancelled" => billing.payment = "cancelled"

\* As long as no claim lapses under a process that goes on, one process at a
\* time works on the row, and the end of an upgrade is announced once.
OneAtATime ==
    ~lapsed => Cardinality({a \in Actors : Inside(a)}) <= 1 /\ announced <= 1

\* Then an upgrade that Billing has settled comes to an end, through failed
\* calls and crashes.
UpgradesSettle ==
    <>[](/\ kind # "downgrade" /\ ~lapsed
         /\ billing.payment \notin {"none", "awaiting_payment"}
         => request.status \in {"completed", "needs_review", "cancelled"})

\* Whatever processes, lapsed claims, failed calls, crashes and operators do is a
\* step of PlanDeal: no upgrade without money, no money for a cancelled one, none
\* used before the conditions are delivered; and done or cancelled is the last
\* word, unless a claim lapsed under a process that went on.
Conditions == IF Changed = {} THEN "none"
              ELSE IF \A i \in Changed : revisions[i].synced THEN "delivered"
              ELSE "published"

Shown == CASE request.status \in {"requested", "awaiting_payment", "scheduled"} -> "open"
           [] request.status = "activated"    -> "active"
           [] request.status = "completed"    -> "done"
           [] request.status = "needs_review" -> "review"
           [] OTHER                           -> request.status

Deal == INSTANCE PlanDeal WITH
    priced     <- kind # "downgrade",
    payment    <- billing.payment,
    conditions <- Conditions,
    shown      <- Shown,
    contested  <- lapsed

ImplementsDeal == Deal!Spec

\* A downgrade that was cancelled does not come about: it counts as completed
\* only if the conditions it published stand.
CompletedStands ==
    kind = "downgrade" /\ request.status = "completed" =>
        ~revisions[request.revision].cancelled

\* It does stand as long as no operator intervenes and nothing fails: the
\* customer's own cancellation holds the claim until it has written its word.
StandsUndisturbed == moves = 0 /\ faults = 0 => CompletedStands
===============================================================================
