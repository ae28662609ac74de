# Verification of rebound-control-api

TLA+ models, TLC runs and TLAPS proofs for the control plane of Rebound
(`rebound-control-api`): a NestJS service that keeps customers, contracts and
their commercial terms in PostgreSQL (schema `control`), and pushes decisions to
two other services, **Billing** and **Licensing**, over HTTP. Paths below are
relative to the repository root.

## 1. The system

### 1.1 Components, their state and their operations

| component | state | operations that change it |
|---|---|---|
| commercial revisions (`src/commercial/infra/contract-revision.repository.ts`, `application/contract-commercial.service.ts`) | `contract_commercial_revisions`: version, payload, key + hash, `status` pending/synced, `cancelled_at`, `claim_id`, `lease_until`, `attempts`, `next_attempt_at` | `save` (advisory lock on the customer + row lock on the contract), `claim`, `complete`, `fail`; services `publish`, `publishConfirmedSnapshot`, `endCourtesy`, `sync`, `deliver` |
| cancellations (`application/contract-cancellation.service.ts`) | `commercial_cancellations`: status, `next_attempt_at` | `cancel`, `deliver` (remote call inside the transaction that locks the row) |
| sync worker (`application/contract-sync.worker.ts`) | `running` flag, one timer per instance | every minute: up to 10 cancellations, up to 10 revisions, then courtesy expiry |
| courtesy expiry (`application/contract-courtesy-expiry.service.ts`) | none of its own | publishes the return to the Free plan with a deterministic key |
| currency change (`application/contract-currency.service.ts`) | none of its own | `preview`, `schedule` (confirmed by the hash of the preview) |
| terminations (`application/contract-termination.service.ts`) | `contract_terminations`: effective date, `billing_synced_at`, `licensing_synced_at`, status scheduled/completed, retry fields | `request`, `process`, `run` |
| financial decisions (`application/contract-financial.service.ts`) | `financial_decisions`: numbered decisions, hash, status pending/superseded/observed/synced | `process`, `deliver`, `suspensionPolicy`, `renew`, `run` (with a cursor) |
| recurrence (`infra/contract-recurrence.repository.ts`) | `contract_billing_enrollments`: first and next cycle, enabled, schedule id, last invoice | `enroll`, `run`, `state`, `due` |
| financial notices (`application/financial-notice.worker.ts`), termination e-mails, self-hosted request e-mails (`src/requests`) | mail queues: lease, attempts, next attempt | claim, send, finish, back off; `retry` for requests |
| cloud plan changes (`src/cloud-billing/cloud-plan-change.service.ts`) | `cloud_plan_change_requests`: requested, awaiting_payment, scheduled, activated, completed, needs_review, cancelled; a 5 minute lease | `start`, `process`, `cancel`, `run` |
| cloud onboarding and erasure (`src/cloud-billing/cloud-billing.service.ts`, `erasure-receipt.ts`) | `cloud_billing_bindings`, receipts in a directory | `provision`, `terminate`, `confirmDataErasure` |
| customers and contracts (`src/customers/customers.service.ts`) | `customers`, `customer_contracts` (rascunho, em_assinatura, ativo, encerrado, cancelado), contract code counter | `updateContract`, `addContract`, `issueContractLicense`, plain CRUD |
| sessions (`src/application/use-cases`, `src/infra/redis`) | refresh sessions in Redis, users in PostgreSQL | login, refresh (rotation), logout, first access, change password |
| financial access policy (`src/commercial/domain`) | pure functions | `financialAccess`, `terminationDate`, `operationalRetentionUntil` |

Billing and Licensing are other programs: the code here reaches them with
`BillingAdminClient.request` and `LicensingAdminClient.request`, which give up
after 45 seconds. They are modelled as this code uses them (external): a call is
accepted, refused, or abandoned, and an abandoned call may still arrive later.

### 1.2 How they interact

* **Outbox.** A change is committed locally first, and delivered afterwards by
  whoever comes first: the HTTP handler that made it, or a timer. Every delivery
  can be repeated, so every remote call carries an identity (`row.id`, a source
  version, a cycle date).
* **Locks.** `customer_contracts ... FOR UPDATE` is the lock that orders
  publication, cancellation, termination, recurrence, financial decisions and
  plan changes of one contract. Some of these hold it across remote calls.
* **Leases.** Revisions, notices, request mails and plan changes are instead
  claimed with a lease, and worked on with no lock held. Revisions are fenced by
  a fresh `claim_id`, mails by the attempt number, plan changes by nothing.
* **Reads outside the lock.** Idempotency keys, current revisions and previews
  are read before the lock is taken, and re-checked under it, or not.

### 1.3 What is hard, and what makes each part correct

| part | hard behaviour | what must hold |
|---|---|---|
| delivery of revisions | leases that lapse under a stalled holder; late requests; crashes between save, claim, answer and record; a cap on attempts | Control never believes what Billing does not hold; a lapsed holder does not touch its successor; every revision is settled |
| cancellations | they overtake the terms they cancel, or are sent while these are on the wire | what Billing comes to hold of a cancelled revision is dropped in the end |
| publication | keys, dates and copies read before the lock; five callers of `save()` | versions start in their order, the past stands, one currency, one change at a time, a courtesy ends |
| terminations | two remote systems inside one transaction that is rolled back and retried; an operator who changes status and recurrence meanwhile | an enrolled contract ends only so, on time, for good, with no license left |
| financial decisions | the debt changes between decision, Billing and Licensing; late calls | the last decision wins in both systems |
| recurrence | the answer to an opened cycle is lost | no cycle is billed twice or skipped, none after the end |
| notices and e-mails | leases shorter than the work | at most one record per notice, failures are parked, retries do not revive old attempts |
| cloud plan changes | a lease without fence; crash between cancelling a revision and marking the request | a cancelled request stays cancelled; an upgrade paid is activated once |
| onboarding, erasure | chains of local and remote steps, repeated over what operators do meanwhile | billed in the end unless one of four named states keeps it from that, one receipt per erasure |
| customers | a second connection inside a transaction | no deadlock on the pool |
| sessions, first access | read, delete, save without a lock | one session per rotation, no login after logout |

## 2. The modules, and what became of the plan

The order was that of what a mistake would cost: delivery, publication and
termination first, then money, then what customers do by themselves.

| module | models | abstract specification | proofs |
|---|---|---|---|
| `RevisionOutbox` | delivery, cancellation, timers (section 3) | `TermsLedger` | `RevisionOutboxProofs` |
| `ContractTermination` | the end of a contract (4) | `ContractEnd` | `ContractTerminationProofs` |
| `CommercialTerms` | the rules of publication (5) | — | `CommercialTermsProofs`, `CommercialCurrencyProofs` |
| `ContractFinance` | decisions, access, recurrence (6) | `DecisionRegister` | `ContractFinanceProofs` |
| `CloudPlanChange` | the change of a Cloud plan (7) | `PlanDeal` | `CloudPlanChangeProofs` |
| `MailQueues` | notices and e-mails (8) | — | `MailQueuesProofs` |
| `CloudOnboarding` | onboarding and erasure (9) | — | `CloudOnboardingProofs` |

`ContractFinance` composes four modules: `FinancialPolicy` (pure functions of a
payment state and a day), `FinanceState` (the variables that decisions and cycles
share), `FinancialDecisions` and `BillingRecurrence` (the actions on them). Each
`MC...` module instantiates a model for TLC. Dropped from the first plan, with the
reasons in section 11: sessions, the connection pool, the plain records of customers.

Where two modules meet, one of them has the other's action in a single step:
`CommercialTerms` sees a termination, a plan change and a recurrence as fields of the
contract, because that is all `save()` reads of them; `CloudPlanChange` and
`CloudOnboarding` publish by one step, whose inside is `CommercialTerms` and
`RevisionOutbox`.

## 3. Delivery of revisions: `RevisionOutbox`, `TermsLedger`

**State.** `rev` are the rows of `contract_commercial_revisions` (`status`,
`cancelled_at`, whether `effectiveAt` has come, `claim_id`, `lease_until` as
none/live/lapsed, `attempts`, whether `next_attempt_at` has come), `canc` and
`queue` those of `commercial_cancellations` in the order in which they become due,
`ledger` what Billing holds (external), `wire` the requests whose sender gave up
and that may still arrive, `actor` the step of each timer and handler.
`claim_id` is a fresh UUID; it is represented by the number of the attempt, which
no earlier claim of the row had.

**Actions.** `Publish`, `Republish`, `Sync` are the three ways into `deliver(id)`;
`ClaimById` and `ClaimNext` are `claim()`; `PostAnswered`, `PostFails`, `Complete`,
`Fail` and `AckNotRecorded` are the body of `deliver()`, each at the point where
other actors can come between; `Cancel`, `CancelAgain`, `DropById`, `DropNext`,
`DropAnswered`, `DropFails`, `DropDone`, `DropPutOff` are the cancellation and its
delivery under the row lock (`Locked`, `SKIP LOCKED`); `Tick` and `NextPhase` are
the loops of the worker's `run()`; `Crash` stops any actor at any step.

| run | shows | bounds |
|---|---|---|
| `outbox_safety` | `AttemptsPaidFor`, `LeaseRespected`, and that every step is a step of `TermsLedger` (`ImplementsLedger`) | 2 timers, 2 handlers, 1 revision, cap 2, 2 faults; 579,372 states |
| `outbox_cancel` | `CancellationsWin`: what Billing holds of a cancelled revision is dropped, although another cancellation may be refused for ever; `RevisionsSettle`: each saved revision is delivered or cancelled, with fewer faults than the cap | 1 timer, 1 handler, 2 revisions, cap 2, 1 fault; 384,648 states |

One revision is enough for the claims, since actors meet at one row; two are
needed for the order of the queue. Two faults allow a stall followed by a late
answer, and a lost request that arrives after its repetition. Symmetry of timers
and of handlers is used in the run without liveness only.

**Fairness.** Calls end within 45 s (`AbortSignal.timeout` in both clients), so an
actor that began a step ends it; timers fire every minute; leases and back-offs
expire. Nobody is obliged to publish, cancel, or ask for a sync, and no abandoned
request is obliged to arrive.

**Proved** in `RevisionOutboxProofs`, from `OutboxAssumption` alone, for any
number of revisions, timers, handlers, attempts and faults: `TypeOK`,
`AttemptsPaidFor`, `LeaseRespected`, `Spec => ImplementsLedger`, and three facts the
refinement rests on: `SyncedHeld` (what is recorded as synced is held),
`SettledDropped` and `DropperAlone`. None is inductive: that a row is synced only if
Billing holds it depends on what the actor about to record it knows. `IInv` adds
`Knowledge` (what each actor knows at each step), `Agreement` (rows, cancellations
and ledger), `Queued` (the queue has each due cancellation once), `Claims` (claims
still in hand are distinct and younger ones are greater) and `Accounts` (attempts
are paid for by faults). The refinement maps a row to what Control records of it;
claims, leases and calls map to stuttering, the rest to one step of the ledger each.

## 4. The end of a contract: `ContractTermination`

**State.** The clock, the row of the contract (`status`), that of the recurrence
(`plan`), the row of the termination with its `next_attempt_at`, what Billing and
Licensing hold (external), abandoned requests, and where each actor stands. The
contract row is locked (`Locked`) exactly while an actor is inside the transaction
of `request()` or `process()`, remote calls included.

**Actions.** `RequestEnd`, `EndRecorded`, `AskingFails` are `request()`; `Begin`,
`BillingAnswers`, `Waits`, `GoesOn`, `LicensingAnswers`, `Completes` are the stages
of `process()`, of which `Throws` rolls back all and `RetryLater` is the catch;
`TimerFinds` and `Due` are the worker. `UpdateContract` with `ClosedRevoked`,
`Enroll`, `Pause`, `Resume`, and `IssueLicense`, `Looked`, `Issued`, `Saves` are what
operators do meanwhile; `Saves` writes the whole contract as it was read before the
call of Licensing. What Billing or Licensing did before a rollback stays done.

| run | shows | bounds |
|---|---|---|
| `termination_safety` | `EnrolledEndsByTermination`, `ClosedForGood`, `PaidPeriodKept` | 2 timers, 2 handlers, 1 issuer, 2 instants, 2 faults; 1,841,901 states |
| `termination_completes` | `ImplementsEnd` (every step is a step of `ContractEnd`) and `TerminationsComplete`, with nobody issuing licenses | 1 timer, 2 handlers, 2 instants, 2 faults; 201,228 states |
| `termination_issue` | violation of `IssuedWhileActive` | no fault |

Two instants are enough for a termination now or after what is paid, and for a
timer that comes too early. These runs do not check deadlock: a closed or cancelled
contract with nothing on the wire has nothing left to do.

**Fairness.** Actors that wait for the row lock get it in turn (PostgreSQL queues
them, and holders are bounded by the timeouts), hence strong fairness of their
steps; the timer fires every 30 s, the clock advances, `next_attempt_at` is reached.

**Proved** in `ContractTerminationProofs`, from `TerminationAssumption`: `TypeOK`,
`EnrolledEndsByTermination`, `ClosedForGood`, `PaidPeriodKept`, and, for
`Issuers = {}`, `CompletedLeavesNoLicense` and `Spec => ImplementsEnd`.
`IInv` adds `Exclusion` (the lock), `Knowledge` (what was read under it stays true),
`Agreement` (the rows and Billing), `LateRevoke` and `LateEnd` (a request on the wire
is about a recorded end, and one to revoke is not too early) and `Unissued`. What ends
a contract "for good" holds up to the `Saves` of a license issue, which section 10
describes; it is also why the refinement is stated without issuers. In `ContractEnd`
an end is a date, what Billing was told, a license and a word; that a transaction
holds the lock, is rolled back after Billing has heard, is retried, or has sent a
request that arrives after it is gone, all map to stuttering or to `BillingHears` and
`Revoke`, which is what those two are for.

## 5. What may be published: `CommercialTerms`

**State.** The clock; `rows`, all the revisions of one customer in the order of
their creation, with the conditions that `save()` tells apart (date, currency,
change of currency, kind, expiry); `contract`, what `save()` reads of contracts,
terminations, enrollments and plan changes; where each actor stands. A handler
keeps what it read until `save()`, which is one step because it holds the
customer's advisory lock and the contract's row.

**Actions.** `Publish`, `EndCourtesy`, `ScheduleCurrency`, `Expire` and `ChangePlan`
are the five callers up to `save()`; `Save` is `save()`, with one operator per rule
(`CurrencyFits`, `ContractOpen`, `NothingInTheWay`, `ChangeFits`, `CourtesyFits`,
`DateFits`, the last without its lower bound for a historical request); `StartChange`,
`ChangePaid` and `ChangeOver` are the Cloud plan change as far as it matters here: an
upgrade quoted on some conditions and published with the date of its payment, a
downgrade with that of the end of the cycle; `Sync`, `Cancel`, `Open`, `Terminate`,
`Close`, `Enroll`, `CycleBilled` are what the other services do to the same rows.

**Abstractions.** A tick is the resolution of dates; the tolerances (60 s and 1 s)
are constants of the model. A transaction is shorter than a tick, so that
`created_at` and `now()` inside it are the clock. `startsOn` is constant. A paused
recurrence is not told from none. How a plan change comes to be paid, published and
activated, and who works on it, is left to `CloudPlanChange`.

| run | shows | bounds |
|---|---|---|
| `terms_safety` | `OneCurrency`, `NoTwoChanges`, `PastStands` for conditions for money | 2 contracts, 2 handlers, 2 currencies, 2 publications or plan changes, 3 instants, no tolerance backwards and one instant forwards; 398,124 states |
| `terms_courtesy` | `VersionsInOrder`, `PastStands` for courtesies, `ExpiredCourtesyEnds` | 1 contract, 1 handler, 2 instances that expire, 2 publications or plan changes, 4 instants, a tolerance of one; 144,476 states |

The first run has the contracts and the currencies, the second the courtesies:
the rules on courtesies are per contract. Dates lie at most one or two ticks ahead,
which is enough for one version to be scheduled, overtaken and cancelled. Deadlock
is not checked: a behaviour ends at its last tick with its keys used up.

**Fairness** (`terms_courtesy`): handlers go on after `save()`; the timer runs
every minute and looks at every expired courtesy (strong fairness, since an
operator may replace the courtesy between two runs); a plan change comes to an end.

**Proved**, from `TermsAssumption`, for any contracts, currencies and tolerances.
In `CommercialTermsProofs`: `TypeOK` and `VersionsInOrder`.
`IInv` adds that a request in flight is as well formed as a row (`Asked`). That the
latest of some versions exists rests on the well-founded order of the naturals
(`LatestIsLast`); that a new version starts after all kept ones follows from
`DateFits`, which compares with the latest only, and the order so far.

In `CommercialCurrencyProofs`: `OneCurrency`, `NoTwoChanges` and `PastStands`, for a
customer that has conditions in effect from the beginning (`Established`; section 10
says why that is needed). The difficulty is that what `save()` is given was read
before the lock. `CInv` says that a request for a change of currency is out of date
in two harmless ways only (`Fits`): the currency it starts from is still the one in
use, or the contract has a version that starts no earlier, and `DateFits` refuses it.
A change that was accepted stays the last version, for the only contract that is
open, until it is in effect (`ChangeStands`), and all that is or will be in effect
without it is in the one currency (`SameAccount`). `PastStands` follows from the four
ways in which a date beyond the tolerance can be asked for (`Dated`), and from the
fact that what is saved is the last of what has started. What remains altered is named
in the property: an ended courtesy, the return from an expired one, a change of
currency for the whole of its cycle, and a plan change, with what was quoted, for the
time since it was paid for or since the end of the cycle.

## 6. Money: `ContractFinance` and its parts

**State** (`FinanceState`), for one contract: its row and the revision in effect, its
enrollment (with whether it knows its schedule in Billing), its numbered decisions, the
rows of `financial_notices`, what Billing and Licensing
hold (external), the transaction `tx` that has the lock of the contract's row and
waits for an answer, and `wire`, the requests that may yet arrive. A handler that
waits for the lock has no state: it has read nothing. Dates are days.

**Actions.** `FinancialDecisions`: `Decide` is `process()`, `Deliver`, `BillingAcks`,
`LicensingAcks`, `Settle` and `DeliveryFails` are `deliver()`, which drops a decision
that the payment state no longer supports, `SetPolicy` is `suspensionPolicy()`.
`BillingRecurrence`: `Enroll`, `SetEnabled`, `Advance`, `CycleAcked`, `CycleFails`,
`Renew`. `ContractFinance` adds what happens around them: invoices fall overdue and
are paid, conditions take effect with their date, which waits for no lock
(`TakesEffect`), and are confirmed by Billing later (`Confirms`), courtesies begin and
end, a termination is recorded and takes effect,
a process dies with the lock (`Crash`), a request arrives that nobody waits for any
more (`Arrives`).

`FinancialPolicy` are `financialAccess()`, `access()` and `core()`: from what Billing
reports and the day to the access of the customer, the state of the recurrence, and
whether Licensing has to be told. `Cycle`, `RestrictAfter` and `SuspendAfter` are the
period and the days of tolerance (a month, four and eight in the code).

**Run** `finance`: `OneMeaningPerVersion` (what the receivers hold and what is on its way
says what was recorded under its number), `NeverAhead` (no cycle is skipped through lost
answers, renewals and stops), `CyclesAllowed` (nothing that forbids a cycle is recorded
while it is asked for, but for conditions that come into effect by their date),
`NoticesFollow` (the last row of `financial_notices` is about the access of the last
decision, and no two in a row about the same; which of them are sent is a matter of
`MailQueues`), `NoEarlySanction` (Licensing restricts or suspends for a debt only after
the whole tolerance, and without a debt suspends only who was stopped by an earlier
decision), `ImplementsRegister`, `DecisionsSettle`, `DueCyclesOpen`. From a fresh contract
and from one in good standing, three days, a period of one day, restricted after one day
and suspended after two, any two events (a debt, a payment, a revision, a pause, a
termination, a failed call, a crash); 258,046 states. Two events are enough for a call
that fails and a change before its retry; with a period of one day three cycles fit.
Deadlock is not checked: a closed contract at its last day rests.

**Fairness.** The timers come back every minute, answers come unless the call fails,
the lock of a row is granted in turn, so that a timer that waits for it gets it
although others take it in between (strong fairness of `TimerDecides`, `Deliver`,
`TimerAdvances`).

**Proved** in `ContractFinanceProofs` for any policy, period, horizon and number of
events: `TypeOK`, all five safety properties, and `ImplementsRegister`. The argument:
whoever delivers a decision delivers the last (`Carried`, `LastWaits`), since a new one
waits for the lock; so what Billing and Licensing hold, and every request on its
way, says what was recorded under its number (`Says`, `Held`, `Known`), and never more
than the last. For `NeverAhead`: Billing is at most one period ahead of the day and has
no next cycle only when none fits, and until it has a schedule every request, late
ones included, names the next cycle of the enrollment. For `NoticesFollow`: a contract
without a notice is in good standing, or a decision not notified says so.
`DecisionRegister` is the abstract specification: receivers move forward only, and
only the last decision is settled, when all it is meant for have it. What is proved of
the register is inherited: `SettledReaches` says that a decision recorded as observed
or synced is held by all it is meant for, or a later one is.

`NoEarlySanction` is about a decision that may be delivered days after it was taken,
from a courtesy or a stop that are over by then. `SanctionsAreEarned` strengthens it to
`Earned`: every recorded decision, delivered or not, was taken in time (`InTime`), and
Billing requires a renewal only of a contract that an earlier decision has stopped
(`Stopped`). Both only become truer as days pass and decisions are
added (`StillInTime`, `EarlierEarned`); the rest is the arithmetic of the policy
(`Tolerates`). `DebtsOnlyHarden` states the policy by itself: the access that one debt
leaves never improves with time, for all intervals that `PolicyAssumption` allows.

## 7. The change of a Cloud plan: `CloudPlanChange`

**State.** One request of one contract: its row in `cloud_plan_change_requests` with
the claim (`leased`), the revisions of the contract with their keys, since when they
apply and when they were saved, what Billing holds
of the payment (external), whether Licensing was told (`announced`), the next cycle,
whether a termination is recorded, and where each process stands. The claim ends
after five minutes and nothing renews it; the writes name the row by its id alone.
So nothing an actor knows may rest on its claim.

**Actions.** `Quote` and `Start` are `start()`; `Claim`, `CheckTermination`, `Ask`,
`Answered`, `Check`, `Publish`, `Schedule`, `BillCycle`, `Activate`, `RecordActivation`,
`Tell`, `Complete` are `process()` and `processAccount()`, `Conflict` its catch (a refusal
leaves the request to a person, `needs_review`; any other failure leaves it as it was, to
be tried again) and `Leave` its finally; `Cancel`, `ClaimToCancel`, `DropRevision`,
`DropPayment`, `Cancelled` are `cancel()`. `CallFails`, `Crash` and `Lapse` are what can
go wrong at each of them; a decision that Licensing has not confirmed
(`licensing_pending`) is such a failure of `Tell`. A repeated key with another date is
refused by the hash (`MayPublish`). `OperatorPublishes` is an ordinary publication, which
does not look at the change and may be dated back by `Grace` (60 s in the code, a day in
the run).

| run | shows | bounds |
|---|---|---|
| `plan_change` | `BaseStands`, `OneAtATime`, `ImplementsDeal` (every step is a step of `PlanDeal`), `UpgradesSettle` | an upgrade of the free and of a paid plan and a downgrade; 2 processes, 1 that cancels, 3 days, 1 move of an operator or the customer (dated back by a day at most), 1 fault; 657,127 states |
| `plan_cancelled` | violation of `CompletedStands` | a downgrade, 1 move, no fault |

`BaseStands` says what the comparison with the base, which is made before the lock, is
worth: an upgrade overtakes no conditions that were saved before its payment. What
comes after the comparison is dated after the payment, and refuses the upgrade; its one
exception, which the property names, is dated back to before the payment (section 10).

Two processes and one that cancels are all that can be inside at once after one
lapse. Deadlock is not checked: a request that is over has no next step.

**Fairness.** The timer claims every few seconds what is claimable, again and again
(strong, as somebody else may hold the claim in between); calls come back; a claim ends.

**Proved** in `CloudPlanChangeProofs`: `TypeOK`, `NothingUnpaid`, `BaseStands`,
`CancelledForFree`, `OneAtATime` and `Spec => ImplementsDeal`, for any number of
processes, revisions, days and faults. `IInv` consists of `History` (the first conditions
stay, a change publishes once), `Money` (what rows say of each other and of Billing),
`Knowledge` (what an actor has learnt at each step: only what cannot be undone; for who is
about to publish an upgrade, that what is newer than its base lies after the payment or
was saved after it, `Ahead`) and `Alone` (until a claim lapses under its holder it
excludes). Each action is shown to take what they have learnt from nobody else
(`Progress`).

`PlanDeal` is what the customer was promised: conditions only for money that is there,
money used only for conditions that are delivered, nothing owed for what is cancelled,
and no other word after "done" or "cancelled" unless a claim has lapsed under a holder
who goes on. It has no processes and no claims: a step of `process()` or `cancel()` is
a step of the invoice, of the conditions, of what is shown, or of none. It implies
`NothingUnpaid` and `CancelledForFree`, which are therefore proved and not run.

`StandsUnlessDisturbed` draws the boundary of the finding `CompletedStands`: as long as
no operator acts and nothing fails, a downgrade that counts as completed stands. Its
invariant adds `Refers` (what the row and the actors name is the revision of the
change) and `Undisturbed` (a revision that was dropped is told to be cancelled, or is
going to be by who holds the claim).

## 8. Notices and e-mails: `MailQueues`

**State.** One mail of one of three queues (financial notices, termination e-mails,
self-hosted requests): its row with status, attempts and lease, whether the customer
is still in the state it tells of, whether the contract is active and the customer
wants notices, what each worker does and under which attempt, the copies that the
mail server took. **Actions.** `Submit`, `Claim`, the checks of a notice (`Check`,
`Ask`, `Recheck`), `Send`, `Finish` and `Fail` under the number of the attempt
(`Fenced`), `CallFails`, `Crash`, `Lapse`, `Due`, the operator's `Retry`.

**Run** `mail`: `CopiesPaidFor` (without a fault a mail goes out once, and each fault
accounts for one more copy at most, also when `retry()` starts the count again and an
old answer is taken for that of a new attempt), `NoticesAreTrue` (a notice that is no
longer true leaves only from a worker that was already handing it over),
`MailSettles` (every mail is sent, dropped or parked). 3 timers, 3 queues, a cap of 2,
2 changes of state, 1 retry, 3 faults; 327,212 states. Three workers allow two old
answers beside a new claim. **Fairness:** timers look every 30 seconds, calls have time
limits, leases and back-offs expire.

**Proved** in `MailQueuesProofs`: `TypeOK`, `CopiesPaidFor`, `NoticesAreTrue`, for any
number of timers, attempts and faults. Copies are counted by a weight: the copies,
the workers that may yet send one, and the openness of the row for a claim exceed one
by no more than the faults (`Weight`); a claim turns the open row into a worker, a
sending a worker into a copy, and only a fault adds to it.

## 9. Onboarding and erasure: `CloudOnboarding`

**State.** One account: its binding, contract, versions with their dates and
cancellations, financial profile, enrollment and whether it is paused, first cycle; its
termination and the receipt of the erasure in the
archive; where each request stands. **Actions.** `Provision` to `Process` are the steps
of `provision()`, each of which finds what earlier calls did; `Confirm` and `Archive`
are `confirmDataErasure()` and `archiveReceipt()`; `Stops` ends a request at any step;
the timers of other components (`TimerDelivers`, `TimerBills`) and operators act on
the same contract. Operators publish conditions for now, for later or dated back within
the minute (`OperatorPublishes`), cancel those to come (`OperatorCancels`), set the
profile, enable, pause and resume the recurrence, and end the contract.

**Run** `onboarding`: `ReceiptAgrees` (the erasure is confirmed only with a receipt in
the archive that names the instant of the row, after the retention) and
`OnboardingCompletes` (an account that was bound is billed in the end, unless something
named keeps it from that). 2 calls, 1 confirmation that is repeated, 3
minutes, 1 change by an operator and the cancellation of what it published, 2 faults;
635,259 states. What keeps an account from being billed (`Hindered`): no conditions are
in effect (`Unpublished`: the plan left the catalog before any were published, or those
that were published are cancelled or lie ahead); the first ones were cancelled before
Billing had them (`Stuck`); a courtesy is in effect; the recurrence is paused. TLC finds
a behaviour for each of the four when it is left out. Days are two minutes, so that
calls meet within one and across two. **Fairness:** a call goes on or fails within its
timeouts, timers run, and the Cloud application repeats its call until it is answered
"ready": that is what the statuses it is answered are for, but it is another program.

**Proved** in `CloudOnboardingProofs`: `TypeOK` and `ReceiptAgrees`, for any number of
requests, faults and changes. The instant is settled by the first confirmation and
read back by all later ones, so that whoever archives holds the instant of the row
(`Held`), and an erasure follows the end of the contract (`Ended`).

Proved there as well, and not run, is `ReadyIsSetUp`: the account that Cloud is told to
be ready has its profile and its recurrence, and is enrolled and billed only under
terms that Billing has confirmed. A call may find any of this done by another one, or
by a timer or an operator; what it has behind it at each step (`Reached`) is never
taken back (`Kept`, `Grows`), and that only bound accounts have a contract (`Founded`)
closes the induction.

## 10. What the code does and its texts do not say

With a run that shows it:

* `termination_issue`: `issueContractLicense()` checks the status, calls other
  services and activates the license without looking again; a contract closed
  meanwhile keeps an active license (`customers.service.ts:322` to `:348`).
* `plan_cancelled`: a downgrade whose revision was cancelled is reported as completed
  (`cloud-plan-change.service.ts:344`): the revision is found by its key, and whether
  it was cancelled is not asked. It takes an operator, or a fault: see
  `StandsUnlessDisturbed` in section 7.

Met while modelling, without a run of its own:

* The same license issue saves the contract it read before its calls
  (`customers.service.ts:521`), which opens a contract again that was closed meanwhile.
  In `ContractTermination` this is `Saves`, and the properties on closed contracts
  except it.
* A revision stays pending after ten failed attempts until an operator syncs it
  (`contract-revision.repository.ts:284`), while `contract-commercial.service.ts:189`
  says that failures are tried again. `RevisionsSettle` assumes fewer faults.
* A downgrade whose revision is cancelled before Billing has it stays `requested` for
  ever: the revision is found by its key, is never delivered, and each run ends in
  `commercial_pending` (`cloud-plan-change.service.ts:341`). `UpgradesSettle` is about
  upgrades for that reason.
* After a claim of a plan change has lapsed, two processes work on one row, and the
  last write of the first frees the claim of the second
  (`cloud-plan-change.service.ts:343`). What they do stays paid for (`NothingUnpaid`),
  but an end may be announced twice: `OneAtATime` holds until a claim lapses.
* The currency of a customer is taken from revisions in effect
  (`contract-revision.repository.ts:92`); two contracts whose first conditions are
  both in the future may be in different currencies. Hence `Established`.
* The timer that returns from a courtesy reads before the lock and its date is not
  compared with the tolerance (`contract-courtesy-expiry.service.ts:66`): conditions
  that an operator dated back within the tolerance, to before that date, are replaced
  by the free plan. `PastStands` names the case.
* `retry()` sets the attempts to zero (`request.repository.ts:116`), so that an old answer
  may match a new claim: a mail can be recorded as sent by the answer to an earlier
  copy. `CopiesPaidFor` still holds.
* A notice is sent although its contract was closed between the two checks: the second
  looks at the payment state only (`financial-notice.worker.ts:103`).
* An upgrade is compared with its base before the lock and saved with the date of its
  payment (`cloud-plan-change.service.ts:406` and `:446`). Conditions that an operator
  publishes in between and dates back to before the payment, which `save()` takes for
  60 s, are overtaken, although the same comparison refuses the upgrade a moment
  earlier (`:412`). `BaseStands` names the case.
* Onboarding never gets over a first version that an operator scheduled and cancelled.
  `list()` returns cancelled versions too (`contract-revision.repository.ts:50`), so that
  `provision()` publishes none of its own (`cloud-billing.service.ts:251`) and, with
  nothing in effect, answers for ever that the registration is saved and its commercial
  synchronization pending (`:287`), while nothing is pending. If the version was
  cancelled before Billing had it, every call is refused even when other conditions are
  in effect by then (`:282`, `contract-commercial.service.ts:294`).
  `OnboardingCompletes` names both (`Unpublished`, `Stuck`).
* Onboarding reads the financial profile and then puts it
  (`cloud-billing.service.ts:292`): what an operator set in between is overwritten,
  which the comment there rules out. Its
  terms may likewise follow a first version that an operator published in the same
  minute, and end a courtesy. A plan that is archived between binding and publication
  keeps the account from being billed until it is offered again.

## 11. Only model-checked, and not modelled

Liveness is checked by TLC only: a proof of "eventually" needs `ENABLED` of each fair
action and an induction over a measure that is data, and the installed provers do
neither. These are
`CancellationsWin`, `RevisionsSettle`, `TerminationsComplete`, `ExpiredCourtesyEnds`,
`DecisionsSettle`, `DueCyclesOpen`, `UpgradesSettle`, `MailSettles`,
`OnboardingCompletes`. Every safety property and every refinement of a passing run is a
theorem.

External, modelled as this code uses them: what Billing answers to a payment, a cycle
or the cancellation of terms it never had (a refusal is assumed), what Licensing keeps
of a decision, the mail server, the Cloud application. A process that reads a row
twice in one statement, a partial failure of PostgreSQL and clocks that disagree
between instances are not modelled.

Not modelled, each with its reason:

* Sessions, first access and the services around them: authentication, which shares
  no state with the commercial core.
* Customers, contacts, timeline, the counter of contract codes: single transactions on
  rows that nothing else writes. That `updateContract()` asks for a second connection
  while its transaction holds one (`customers.service.ts:268`) is a hazard whose bound,
  the size of the pool, is a setting outside the code.
* Controllers, which validate and forward; configuration, logging, mail transport.
* What only reads: usage, portal links, quotes, previews and lists.
