---------------------------- MODULE CommercialTerms ----------------------------
(***************************************************************************)
(* The commercial conditions of one customer: what may be published for    *)
(* its contracts, by operators (publish, endCourtesy, the currency         *)
(* change), by the expiry of courtesies and by changes of plan, and what   *)
(* the revisions in effect have to do with each other.                     *)
(*                                                                         *)
(* A handler reads first, outside any lock: the key of its request, the    *)
(* revision it copies, the cycle it refers to.  save() then checks again   *)
(* under the advisory lock of the customer and the row lock of the         *)
(* contract, and inserts.  Remote reads lie in between, so that anything   *)
(* may happen there.  The delivery to Billing is RevisionOutbox; here a    *)
(* revision is just synced at some moment.                                 *)
(*                                                                         *)
(* Time is counted in ticks.  A tick is the resolution of the dates (1 ms  *)
(* in the code); the tolerances of save() are Grace and Slack ticks.       *)
(***************************************************************************)
EXTENDS Integers, Sequences, FiniteSets

CONSTANTS
    Contracts,      \* contracts of the customer
    First,          \* the contract it has from the beginning
    Established,    \* whether First has conditions in effect from the beginning
    Cloud,          \* those that belong to a Cloud account
    Handlers,       \* HTTP handlers
    Timers,         \* timers in courtesyExpiry.run(), one per instance
    Keys,           \* idempotency keys of the handlers' requests
    Currencies,     \* those of accounts
    Offered,        \* kinds of conditions that are published
    Horizon,        \* bound: ticks of a behaviour
    MaxRequests,    \* bound: publications of handlers, and plan changes
    Ahead,          \* bound: how far ahead operators date conditions
    Period,         \* bound: ticks of a cycle, and of a courtesy that expires
    Grace,          \* how far back a date may lie (60 s)
    Slack           \* how far ahead an immediate date may lie (1 s)

ASSUME TermsAssumption ==
    /\ First \in Contracts
    /\ Cloud \subseteq Contracts
    /\ Established \in BOOLEAN
    /\ Handlers \cap Timers = {}
    /\ Keys # {}
    /\ "BRL" \in Currencies
    /\ "no" \notin Currencies
    /\ Offered \subseteq {"paid", "courtesy", "free"}
    /\ Horizon \in Nat \ {0}
    /\ MaxRequests \in Nat
    /\ Ahead \in Nat
    /\ Period \in Nat \ {0}
    /\ Grace \in Nat
    /\ Slack \in Nat

VARIABLES
    now,        \* the clock
    rows,       \* contract_commercial_revisions of the customer, as created
    contract,   \* its contracts
    actor       \* where each handler and timer stands

vars == <<now, rows, contract, actor>>

Actors     == Handlers \cup Timers
Times      == 0..(Horizon + Ahead + Period)
Never      == Horizon + Ahead + Period + 1       \* NULL, where a date is expected

\* Conditions for money, a courtesy (billingMode), and the default Cloud plan
\* for nothing, in which courtesies end.
Kinds == {"paid", "courtesy", "free"}

-------------------------------------------------------------------------------
\* The conditions that the rules of save() tell apart.
Conditions == [at       : Times,                   \* effectiveAt
               currency : Currencies,
               from     : Currencies \cup {"no"},  \* currencyChange.from
               kind     : Kinds,
               expires  : Times \cup {Never}]      \* courtesyExpiresAt

\* The keys of timers name the courtesy that expired, those of plan changes the
\* change.
ExpiryKeys == {"courtesy-expiry"} \X Nat

ChangeKeys == {"cloud-change"} \X Nat

AllKeys == Keys \cup ExpiryKeys \cup ChangeKeys

\* A request to save(): historical is allowHistoricalEffectiveAt.
Requests == [contract : Contracts, key : AllKeys, terms : Conditions,
             historical : BOOLEAN]

Rows == [contract : Contracts, key : AllKeys, terms : Conditions,
         cancelled : BOOLEAN, synced : BOOLEAN]

\* What a plan change goes to.
Targets == {t \in Conditions : t.from = "no" /\ t.kind # "courtesy" /\ t.expires = Never}

\* A row of cloud_plan_change_requests.
PlanChanges == [base   : Nat,      \* quote.baseRevisionId; 0 where it is not compared
                target : Targets,
                due    : BOOLEAN]  \* its date is settled: paid for, or the end of a cycle

\* "ativo" stands for the statuses before it, too, in which less is accepted;
\* "encerrado" for "cancelado".
Contracted   == [status : {"absent", "ativo", "encerrado"},
                 ending : BOOLEAN,             \* a row of contract_terminations
                 cycle  : Times \cup {Never},  \* next_cycle_on, when enabled
                 plans  : Seq(PlanChanges),    \* its plan changes, as created
                 change : BOOLEAN]             \* the last of them is not over

ContractRows == {c \in Contracted : c.change => c.plans # <<>>}

NoRequest == [contract   |-> First, key |-> CHOOSE k \in Keys : TRUE,
              historical |-> FALSE,
              terms      |-> [at |-> 0, currency |-> "BRL", from |-> "no",
                              kind |-> "paid", expires |-> Never]]

Idle == [pc |-> "idle", request |-> NoRequest]

FirstRow == [contract |-> First, key |-> <<"courtesy-expiry", 0>>,
             terms |-> NoRequest.terms, cancelled |-> FALSE, synced |-> TRUE]

Init == /\ now = 0
        /\ rows = IF Established THEN <<FirstRow>> ELSE <<>>
        /\ contract = [k \in Contracts |->
                         [status |-> IF k = First THEN "ativo" ELSE "absent",
                          ending |-> FALSE, cycle |-> Never,
                          plans |-> <<>>, change |-> FALSE]]
        /\ actor = [a \in Actors |-> Idle]

-------------------------------------------------------------------------------
\* What the queries of the repository see.  Rows are in the order of
\* created_at, which within a contract is that of source_version: a
\* transaction is taken to be shorter than a tick, its wait for the lock
\* included.

Kept(k) == {i \in DOMAIN rows : rows[i].contract = k /\ ~rows[i].cancelled}

InEffect(i) == rows[i].terms.at <= now

Latest(I) == IF I = {} THEN 0 ELSE CHOOSE i \in I : \A j \in I : j <= i

LatestActive(k) == Latest(Kept(k))

Current(k) == Latest({i \in Kept(k) : InEffect(i)})

AllKept == UNION {Kept(k) : k \in Contracts}

\* The conditions of the whole customer created last among those in effect.
Newest == Latest({i \in AllKept : InEffect(i)})

IsChange(i) == rows[i].terms.from # "no"

InCourtesy(i) == i # 0 /\ rows[i].terms.kind = "courtesy"

Closed(k) == contract[k].status \in {"absent", "encerrado"}

WithKey(k, key) == {i \in DOMAIN rows : rows[i].contract = k /\ rows[i].key = key}

-------------------------------------------------------------------------------
\* The rules of save(), under the locks, for a request r.

\* The currency of the account is that of its newest conditions in effect.
SameCurrency(t) == Newest # 0 /\ rows[Newest].terms.currency = t.currency

\* Variant: the currency of the contract instead of that of the customer.
CurrencyFits_OwnContract(r) ==
    LET c == Current(r.contract)
    IN  c # 0 /\ r.terms.from = "no" => rows[c].terms.currency = r.terms.currency

CurrencyFits(r) == Newest = 0 \/ SameCurrency(r.terms) \/ r.terms.from # "no"

ContractOpen(r) == ~contract[r.contract].ending /\ ~Closed(r.contract)

\* Revisions that are not in effect yet: of this contract, and changes of the
\* currency of any contract of the customer.
Future(k) == {i \in AllKept : ~InEffect(i) /\ (rows[i].contract = k \/ IsChange(i))}

NothingInTheWay(r) ==
    LET k == r.contract IN
    Future(k) # {} => /\ \A i \in Future(k) : ~IsChange(i)
                      /\ r.terms.from = "no"
                      /\ LatestActive(k) # 0 => ~IsChange(LatestActive(k))
                      /\ SameCurrency(r.terms)

\* Variant: plan changes under way are not looked at.
ChangeFits_AnyPlanChange(r) ==
    LET k == r.contract
        l == LatestActive(k)
    IN  r.terms.from # "no" /\ ~SameCurrency(r.terms) =>
            /\ \A other \in Contracts \ {k} : Closed(other)
            /\ contract[k].cycle # Never
            /\ l # 0 /\ rows[l].synced /\ rows[l].terms.currency = r.terms.from
            /\ r.terms.at = contract[k].cycle

\* A change of currency: one open contract, no plan change under way, synced,
\* and in effect exactly at the next cycle.
ChangeFits(r) ==
    LET k == r.contract
        l == LatestActive(k)
    IN  r.terms.from # "no" /\ ~SameCurrency(r.terms) =>
            /\ \A other \in Contracts \ {k} : Closed(other)
            /\ \A other \in Contracts : ~contract[other].change
            /\ contract[k].cycle # Never
            /\ l # 0 /\ rows[l].synced /\ rows[l].terms.currency = r.terms.from
            /\ r.terms.at = contract[k].cycle

\* Courtesies begin and end at once, and end in the free plan.
CourtesyFits(r) ==
    LET k == r.contract
        l == LatestActive(k)
    IN  r.terms.kind = "courtesy" \/ InCourtesy(l) =>
            /\ contract[k].status = "ativo"
            /\ r.terms.at <= now + Slack
            /\ ~contract[k].change
            /\ r.terms.kind # "courtesy" => k \in Cloud /\ r.terms.kind = "free"

\* Variant: the date of the last version is not looked at.
DateFits_AnyOrder(r) == r.historical \/ r.terms.at >= now - Grace

\* Variant: nor is the tolerance.
DateFits_Backdated(r) ==
    LatestActive(r.contract) # 0 => r.terms.at > rows[LatestActive(r.contract)].terms.at

DateFits(r) ==
    /\ r.historical \/ r.terms.at >= now - Grace
    /\ LatestActive(r.contract) # 0 =>
           r.terms.at > rows[LatestActive(r.contract)].terms.at

Acceptable(r) == /\ CurrencyFits(r)    /\ ContractOpen(r) /\ NothingInTheWay(r)
                 /\ ChangeFits(r)      /\ CourtesyFits(r) /\ DateFits(r)

-------------------------------------------------------------------------------
\* The handlers, up to save().

Ask(a, r) == actor' = [actor EXCEPT ![a] = [pc |-> "saving", request |-> r]]

\* A key that was used already is answered from the row it names, or refused.
Unused(k, key) == WithKey(k, key) = {}

\* Bound: each courtesy among the rows of handlers makes one more.
Room == Cardinality({i \in DOMAIN rows : rows[i].key \in Keys})
            + Cardinality({h \in Handlers : actor[h].request.key \in Keys
                                             /\ actor[h].pc = "saving"})
            + Cardinality(UNION {{k} \X DOMAIN contract[k].plans : k \in Contracts}) < MaxRequests

MayAsk(h, k, key) == /\ actor[h].pc = "idle"
                     /\ contract[k].status # "absent"
                     /\ Unused(k, key)
                     /\ Room

\* Bound: no date beyond the horizon.
Dates == {at \in 0..Horizon : at >= now - Grace /\ at <= now + Ahead}

\* publish(): a courtesy, conditions for money, or the free plan, from a date on.
Publish(h) ==
    /\ \E k \in Contracts, key \in Keys :
         /\ MayAsk(h, k, key)
         /\ \E at \in Dates, currency \in Currencies, kind \in Offered :
            \E expires \in {Never} \cup {e \in {at + Period} : kind = "courtesy" /\ e < Horizon} :
               Ask(h, [contract |-> k, key |-> key, historical |-> FALSE,
                       terms |-> [at |-> at, currency |-> currency, from |-> "no",
                                  kind |-> kind, expires |-> expires]])
    /\ UNCHANGED <<now, rows, contract>>

\* endCourtesy(): a copy of the courtesy in effect that expires now.
EndCourtesy(h) ==
    /\ \E k \in Contracts, key \in Keys :
         /\ MayAsk(h, k, key)
         /\ InCourtesy(Current(k))
         /\ now < Horizon
         /\ Ask(h, [contract |-> k, key |-> key, historical |-> TRUE,
                    terms |-> [rows[Current(k)].terms EXCEPT !.at = now, !.expires = now]])
    /\ UNCHANGED <<now, rows, contract>>

\* Variant: the currency in use may be asked for, too.
OtherCurrencies_All(k) == Currencies

OtherCurrencies(k) == Currencies \ {rows[Current(k)].terms.currency}

\* schedule() of the currency change, with the preview it repeats.
ScheduleCurrency(h) ==
    /\ \E k \in Contracts, key \in Keys :
         /\ MayAsk(h, k, key)
         /\ contract[k].status = "ativo"
         /\ contract[k].cycle # Never /\ contract[k].cycle > now
         /\ Current(k) # 0 /\ rows[Current(k)].synced
         /\ ~InCourtesy(Current(k))
         /\ \E currency \in OtherCurrencies(k) :
              Ask(h, [contract |-> k, key |-> key, historical |-> TRUE,
                      terms |-> [rows[Current(k)].terms EXCEPT
                                   !.at = contract[k].cycle, !.currency = currency,
                                   !.from = rows[Current(k)].terms.currency,
                                   !.kind = "paid"]])
    /\ UNCHANGED <<now, rows, contract>>

\* The key of the return names the courtesy that ended.
ExpiryKey(k) == <<"courtesy-expiry", Current(k)>>

\* The expiry of a courtesy: the return to the free plan, right after it.
Expired(k) == /\ contract[k].status = "ativo" /\ ~contract[k].ending
              /\ InCourtesy(Current(k))
              /\ rows[Current(k)].terms.expires <= now

\* Variant: at the expiry, and not right after it.
ReturnsAt_Expiry(k) == rows[Current(k)].terms.expires

ReturnsAt(k) == rows[Current(k)].terms.expires + 1

Expire(t) ==
    /\ actor[t].pc = "idle"
    /\ \E k \in Cloud :
         /\ Expired(k)
         /\ Unused(k, ExpiryKey(k))
         /\ Ask(t, [contract |-> k, key |-> ExpiryKey(k), historical |-> TRUE,
                    terms |-> [rows[Current(k)].terms EXCEPT
                                 !.at = ReturnsAt(k),
                                 !.kind = "free", !.expires = Never]])
    /\ UNCHANGED <<now, rows, contract>>

\* The change of plan that is under way, or was the last.
LastPlan(k) == contract[k].plans[Len(contract[k].plans)]

ChangeKey(k) == <<"cloud-change", Len(contract[k].plans)>>

\* process() of a plan change: an upgrade that was paid for, if the conditions
\* are still those it was quoted on, or a downgrade at the end of the cycle.
MayTakeEffect(k) == /\ contract[k].change /\ ~contract[k].ending
                    /\ LastPlan(k).due
                    /\ LastPlan(k).base \in {0, Current(k)}

ChangePlan(h) ==
    /\ actor[h].pc = "idle"
    /\ \E k \in Cloud :
         /\ MayTakeEffect(k)
         /\ Unused(k, ChangeKey(k))
         /\ Ask(h, [contract |-> k, key |-> ChangeKey(k), historical |-> TRUE,
                    terms |-> LastPlan(k).target])
    /\ UNCHANGED <<now, rows, contract>>

-------------------------------------------------------------------------------
\* save()

Inserted(r) == [contract |-> r.contract, key |-> r.key, terms |-> r.terms,
                cancelled |-> FALSE, synced |-> FALSE]

\* A request that is repeated is answered from its row, any other that does not
\* fit is refused: neither leaves a trace.
Insertable(r) == Acceptable(r) /\ Unused(r.contract, r.key)

\* A timer asks Licensing for the free plan before it publishes: by then it is
\* later than the expiry.
Fetched(r) == r.key \in ExpiryKeys => r.terms.at <= now

Save(a) ==
    LET r == actor[a].request IN
    /\ actor[a].pc = "saving" /\ Fetched(r)
    /\ rows' = IF Insertable(r) THEN Append(rows, Inserted(r)) ELSE rows
    /\ actor' = [actor EXCEPT ![a] = Idle]
    /\ UNCHANGED <<now, contract>>

-------------------------------------------------------------------------------
\* What else happens to revisions and contracts.

\* Billing has confirmed the revision (RevisionOutbox).
Sync(i) == /\ ~rows[i].synced
           /\ rows' = [rows EXCEPT ![i].synced = TRUE]
           /\ UNCHANGED <<now, contract, actor>>

\* Variant: the date is not looked at.
Cancel_AnyTime(i) == /\ ~rows[i].cancelled
                     /\ rows' = [rows EXCEPT ![i].cancelled = TRUE]
                     /\ UNCHANGED <<now, contract, actor>>

\* cancel(): only what is not in effect yet.
Cancel(i) == /\ ~rows[i].cancelled
             /\ ~InEffect(i)
             /\ rows' = [rows EXCEPT ![i].cancelled = TRUE]
             /\ UNCHANGED <<now, contract, actor>>

Set(k, new) == /\ contract' = [contract EXCEPT ![k] = new]
               /\ UNCHANGED <<now, rows, actor>>

\* addContract(), updateContract() and the recurrence, as far as save() sees
\* them.  A contract with a recurrence is closed after its termination only.
Open(k) == /\ contract[k].status = "absent"
           /\ Set(k, [contract[k] EXCEPT !.status = "ativo"])

Terminate(k) == /\ contract[k].status = "ativo"
                /\ ~contract[k].ending
                /\ Set(k, [contract[k] EXCEPT !.ending = TRUE])

Close(k) == /\ contract[k].status = "ativo"
            /\ contract[k].ending \/ contract[k].cycle = Never
            /\ Set(k, [contract[k] EXCEPT !.status = "encerrado", !.cycle = Never])

Enroll(k) == /\ contract[k].status = "ativo"
             /\ contract[k].cycle = Never
             /\ Current(k) # 0 /\ rows[Current(k)].synced /\ ~InCourtesy(Current(k))
             /\ \E c \in now..(now + Period) : Set(k, [contract[k] EXCEPT !.cycle = c])

\* Billing has opened the cycle; the next one is later.
CycleBilled(k) == /\ contract[k].status = "ativo"
                  /\ contract[k].cycle <= now
                  /\ Current(k) # 0 /\ rows[Current(k)].synced /\ ~InCourtesy(Current(k))
                  /\ Set(k, [contract[k] EXCEPT !.cycle = @ + Period])

\* CloudPlanChangeService.start(), under the lock of the contract.
ChangeMayStart(k) == /\ contract[k].status = "ativo"
                     /\ ~contract[k].ending
                     /\ ~contract[k].change
                     /\ \A i \in Kept(k) : InEffect(i)

\* What its preview, before the lock, may have taken for the conditions in
\* effect: synced, with a recurrence, and no courtesy.
Bases(k) == {i \in Kept(k) : InEffect(i) /\ rows[i].synced /\ ~InCourtesy(i)}

\* The target, in the currency of its base.
Target(kind, base, at) == [at |-> at, currency |-> rows[base].terms.currency,
                           from |-> "no", kind |-> kind, expires |-> Never]

\* An upgrade is dated when it is paid for, a downgrade at the end of the cycle.
Upgrade(base)      == [base |-> base, target |-> Target("paid", base, 0), due |-> FALSE]
Downgrade(k, kind, base) ==
    [base |-> 0, target |-> Target(kind, base, contract[k].cycle), due |-> TRUE]

StartChange(k) ==
    /\ ChangeMayStart(k)
    /\ contract[k].cycle # Never
    /\ Room
    /\ \E base \in Bases(k), kind \in Offered \ {"courtesy"} :
       \E plan \in {Downgrade(k, kind, base)} \cup {p \in {Upgrade(base)} : kind = "paid"} :
          Set(k, [contract[k] EXCEPT !.change = TRUE, !.plans = Append(@, plan)])

\* An upgrade is paid for, and is to be in effect from then on.
ChangePaid(k) ==
    /\ contract[k].change /\ ~LastPlan(k).due
    /\ Set(k, [contract[k] EXCEPT !.plans[Len(contract[k].plans)] =
                 [LastPlan(k) EXCEPT !.target.at = now, !.due = TRUE]])

\* It is completed, cancelled, or left to an operator.
ChangeOver(k) == /\ contract[k].change
                 /\ Set(k, [contract[k] EXCEPT !.change = FALSE])

Tick == /\ now < Horizon
        /\ now' = now + 1
        /\ UNCHANGED <<rows, contract, actor>>

-------------------------------------------------------------------------------
Ask1(h) == \/ Publish(h) \/ EndCourtesy(h) \/ ScheduleCurrency(h)
           \/ ChangePlan(h)

Next == \/ \E a \in Actors : Save(a)
        \/ \E h \in Handlers : Ask1(h)
        \/ \E t \in Timers : Expire(t)
        \/ \E i \in DOMAIN rows : Sync(i) \/ Cancel(i)
        \/ \E k \in Contracts : \/ Open(k) \/ Terminate(k) \/ Close(k)
                                \/ Enroll(k) \/ CycleBilled(k)
        \/ \E k \in Cloud : StartChange(k) \/ ChangePaid(k) \/ ChangeOver(k)
        \/ Tick

Spec == Init /\ [][Next]_vars

\* Handlers and timers go on, timers fire every minute, plan changes come to
\* an end, and time passes.
Fairness == /\ \A a \in Actors : WF_vars(Save(a))
            /\ \A t \in Timers : SF_vars(Expire(t))
            /\ \A k \in Cloud : WF_vars(ChangeOver(k))
            /\ WF_vars(Tick)

FairSpec == Spec /\ Fairness
-------------------------------------------------------------------------------
\* Types of the variables; a change of currency changes it, and only
\* courtesies expire.
TypeOK ==
    /\ now \in 0..Horizon
    /\ rows \in Seq(Rows)
    /\ contract \in [Contracts -> ContractRows]
    /\ actor \in [Actors -> [pc : {"idle", "saving"},
                             request : Requests]]
    /\ \A i \in DOMAIN rows :
         /\ rows[i].terms.from # rows[i].terms.currency
         /\ rows[i].terms.kind # "courtesy" => rows[i].terms.expires = Never

\* Through dates in the future, cancellations, and copies of what was read
\* before, each version has its time: a later one starts later.
VersionsInOrder ==
    \A k \in Contracts : \A i, j \in Kept(k) :
        i < j => rows[i].terms.at < rows[j].terms.at

\* What was in effect at a moment of the past.
InEffectAt(k, m) == Latest({i \in Kept(k) : rows[i].terms.at <= m})

\* The past stands: beyond the tolerance, no publication and no cancellation
\* alters what was in effect, although five callers of save() choose their dates
\* before the lock.  Four may: an operator who ended a courtesy when he asked, a
\* timer that returns from an expired one, a change of currency, for the whole
\* of the cycle it was scheduled for, and a change of plan, with what was quoted
\* and for the time since it was paid for, or since the end of the cycle.
PastStands ==
    [][\A k \in Contracts : \A m \in 0..now :
           LET before == InEffectAt(k, m)
               after  == InEffectAt(k, m)'
           IN  m < now - Grace /\ after # before =>
                   /\ after # 0
                   /\ \/ rows'[after].terms.kind = "courtesy"
                      \/ rows'[after].key \in ExpiryKeys
                      \/ /\ rows'[after].terms.from # "no"
                         /\ rows'[after].terms.at = contract[k].cycle
                      \/ \E n \in DOMAIN contract[k].plans :
                           /\ rows'[after].key = <<"cloud-change", n>>
                           /\ contract[k].plans[n].due
                           /\ rows'[after].terms = contract[k].plans[n].target]_vars

\* All the open contracts of a customer that had conditions in effect from the
\* beginning are in one currency: "A moeda da conta financeira não pode ser
\* alterada" (contract-revision.repository.ts:101), except by a change that
\* leaves no other contract behind.
OneCurrency ==
    \A k, l \in Contracts :
        /\ ~Closed(k) /\ ~Closed(l)
        /\ Current(k) # 0 /\ Current(l) # 0
        => rows[Current(k)].terms.currency = rows[Current(l)].terms.currency

\* A change of currency and a change of plan are never both under way for a
\* customer, although each is requested through a service of its own, and
\* checks the other under the lock of its own contract.
NoTwoChanges ==
    ~ /\ \E i \in AllKept : IsChange(i) /\ ~InEffect(i)
      /\ \E k \in Contracts : contract[k].change

\* An expired courtesy of a Cloud account does not last, whoever publishes,
\* ends it or cancels at the same time.
ExpiredCourtesyEnds == \A k \in Cloud : Expired(k) ~> ~Expired(k)
===============================================================================
