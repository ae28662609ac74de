---------------------------- MODULE CloudOnboarding ----------------------------
(***************************************************************************)
(* The first and the last days of a Cloud account: provision(), a chain of *)
(* local and remote steps that the Cloud application repeats until it is   *)
(* answered, from whatever point the last call has reached; and the        *)
(* confirmation that the data of a terminated account were erased, which   *)
(* is recorded in the database first and archived as a receipt in a file.  *)
(*                                                                         *)
(* Several calls for one account overlap, each may fail or die at any      *)
(* step, and operators and timers act on the same contract.  One account   *)
(* is modelled.  The claims of a delivery are those of RevisionOutbox, and *)
(* the end of the contract that of ContractTermination, in one step here.  *)
(***************************************************************************)
EXTENDS Integers, Sequences

CONSTANTS
    Calls,      \* requests to provision the account
    Erasers,    \* requests to confirm the erasure of its data
    Horizon,    \* bound: the last minute
    MaxEvents,  \* bound: changes made by operators, cancellations of theirs aside
    MaxFaults   \* bound: calls that fail, processes that die

ASSUME OnboardingAssumption ==
    /\ Calls \cap Erasers = {}
    /\ Horizon \in Nat
    /\ MaxEvents \in Nat
    /\ MaxFaults \in Nat

VARIABLES
    now,         \* the minute
    offered,     \* whether the catalog offers the plan Cloud starts with
    binding,     \* when the row of cloud_billing_bindings was written, if it was
    contract,    \* status of its contract
    versions,    \* the versions of its conditions, by number
    profile,     \* whose financial profile Billing has
    enrollment,  \* who enabled the recurrence, and the day its first cycle is for
    enabled,     \* whether it is not paused
    billed,      \* whether Billing has opened the first cycle
    term,        \* the row of contract_terminations
    receipt,     \* erasedAt in the archived receipt
    told,        \* what Cloud was answered: "ready", "erased"
    actor,       \* where each request stands
    events,      \* changes so far
    faults       \* faults so far

vars == <<now, offered, binding, contract, versions, profile, enrollment, enabled, billed,
          term, receipt, told, actor, events, faults>>

None    == -1
Minutes == 0..Horizon
Actors  == Calls \cup Erasers

\* Two minutes make a day.
Day(minute) == minute \div 2

Versions == [key : {"onboarding", "operator"}, at : Minutes,
             terms : {"catalog", "courtesy"}, synced : BOOLEAN, cancelled : BOOLEAN]

NotEnrolled == [by |-> "nobody", day |-> None]
Enrollments == {NotEnrolled} \cup [by : {"onboarding", "operator"}, day : {Day(t) : t \in Minutes}]

Steps == {"idle",
          "catalog",     \* GET of the plans and their prices
          "binding",     \* about to write the binding
          "listing",     \* about to list the versions
          "publishing",  \* in publish(), before save()
          "delivering",  \* POST of the terms by publish()
          "refreshing",  \* about to list the versions again
          "resending",   \* POST of the terms by sync()
          "checking",    \* about to look at the conditions in effect
          "profile",     \* GET of the financial profile
          "putting",     \* PUT of the financial profile
          "recurrence",  \* about to look for the recurrence
          "enrolling",   \* about to enable it
          "processing",  \* POST of the first cycle
          "archiving"}   \* the erasure is recorded, the receipt is not archived

Idle == [pc |-> "idle", at |-> None]

Init ==
    /\ now = 0
    /\ offered = TRUE
    /\ binding = None
    /\ contract = "none"
    /\ versions = <<>>
    /\ profile = "none"
    /\ enrollment = NotEnrolled
    /\ enabled = TRUE
    /\ billed = FALSE
    /\ term = [status |-> "none", until |-> None, erased |-> None]
    /\ receipt = None
    /\ told = {}
    /\ actor = [a \in Actors |-> Idle]
    /\ events = 0
    /\ faults = 0

Goes(a, pc)      == actor' = [actor EXCEPT ![a] = [pc |-> pc, at |-> None]]
GoesAt(a, pc, t) == actor' = [actor EXCEPT ![a] = [pc |-> pc, at |-> t]]
Fault == faults < MaxFaults /\ faults' = faults + 1

ActorOnly == UNCHANGED <<now, offered, binding, contract, versions, profile, enrollment,
                          enabled, billed, term, receipt, told, events, faults>>

-------------------------------------------------------------------------------
\* provision()

Provision(c) ==
    /\ actor[c] = Idle
    /\ Goes(c, IF binding = None THEN "catalog" ELSE "listing")
    /\ ActorOnly

ReadCatalog(c) ==
    /\ actor[c].pc = "catalog"
    /\ Goes(c, IF offered THEN "binding" ELSE "idle")
    /\ ActorOnly

\* Under the lock of the account: customer, contract and binding, once.
Bind(c) ==
    /\ actor[c].pc = "binding"
    /\ binding' = IF binding = None THEN now ELSE binding
    /\ contract' = IF binding = None THEN "ativo" ELSE contract
    /\ Goes(c, "listing")
    /\ UNCHANGED <<now, offered, versions, profile, enrollment, enabled, billed, term, receipt,
                   told, events, faults>>

\* A new version; those in force, of which the newest is in effect; those to come.
Version(key, at, terms) ==
    [key |-> key, at |-> at, terms |-> terms, synced |-> FALSE, cancelled |-> FALSE]

Standing  == {i \in DOMAIN versions : ~versions[i].cancelled}
Effective == {i \in Standing : versions[i].at <= now}
Future    == Standing \ Effective

InEffect(terms) == \E i \in Effective : /\ \A j \in Effective : j <= i
                                        /\ versions[i].terms \in terms
InBilling(terms) == \E i \in Effective : /\ \A j \in Effective : j <= i
                                         /\ versions[i].terms \in terms
                                         /\ versions[i].synced

\* Variant: the terms keep the instant of the registration.
EffectiveAt_Registered == binding

\* The instant of the registration, as long as it is fresh.
EffectiveAt == IF now = binding THEN binding ELSE now

List(c) ==
    /\ actor[c].pc = "listing"
    /\ IF versions = <<>> THEN GoesAt(c, "publishing", EffectiveAt)
                          ELSE Goes(c, "refreshing")
    /\ ActorOnly

\* publish(): one key per account, and the instant is part of what is hashed.
Registered == {i \in DOMAIN versions : versions[i].key = "onboarding"}

\* save() refuses what is over a minute old or not after the last version that
\* stands: what is dated in the minute before, or in the minute of that version,
\* may be either.
MaySave(at)    == /\ contract = "ativo" /\ at + 1 >= now
                  /\ \A i \in Standing : versions[i].at <= at
MayRefuse(at)  == \/ contract # "ativo" \/ at < now
                  \/ \E i \in Standing : versions[i].at >= at

Publish(c) ==
    /\ actor[c].pc = "publishing"
    /\ \/ /\ Registered # {}
          /\ Goes(c, IF \A i \in Registered : versions[i].at = actor[c].at
                     THEN "refreshing" ELSE "idle")
          /\ UNCHANGED versions
       \/ /\ Registered = {}
          /\ offered /\ MaySave(actor[c].at)
          /\ versions' = Append(versions, Version("onboarding", actor[c].at, "catalog"))
          /\ Goes(c, "delivering")
       \/ /\ Registered = {}
          /\ ~offered \/ MayRefuse(actor[c].at)
          /\ Goes(c, "idle")
          /\ UNCHANGED versions
    /\ UNCHANGED <<now, offered, binding, contract, profile, enrollment, enabled, billed, term,
                   receipt, told, events, faults>>

\* Billing is sent the terms by one actor at a time.
Sent(pc)   == IF pc = "delivering" THEN Registered ELSE {1}
Claimed(i) == \E a \in Calls : /\ actor[a].pc \in {"delivering", "resending"}
                               /\ i \in Sent(actor[a].pc)

\* Billing takes the terms, or the call fails and they stay pending.
Delivered(c) ==
    /\ actor[c].pc \in {"delivering", "resending"}
    /\ \/ /\ versions' = [i \in DOMAIN versions |->
                             IF i \in Sent(actor[c].pc)
                             THEN [versions[i] EXCEPT !.synced = TRUE] ELSE versions[i]]
          /\ UNCHANGED faults
       \/ Fault /\ UNCHANGED versions
    /\ Goes(c, IF actor[c].pc = "delivering" THEN "refreshing" ELSE "checking")
    /\ UNCHANGED <<now, offered, binding, contract, profile, enrollment, enabled, billed, term,
                   receipt, told, events>>

\* The first version is sent again if it is pending and nobody else sends it.
\* One that was cancelled while it was pending is refused, now and ever after.
Refresh(c) ==
    /\ actor[c].pc = "refreshing"
    /\ Goes(c, IF versions[1].synced THEN "checking"
               ELSE IF versions[1].cancelled \/ Claimed(1) THEN "idle" ELSE "resending")
    /\ ActorOnly

Check(c) ==
    /\ actor[c].pc = "checking"
    /\ Goes(c, IF InBilling({"catalog", "courtesy"}) THEN "profile" ELSE "idle")
    /\ ActorOnly

GetProfile(c) ==
    /\ actor[c].pc = "profile"
    /\ Goes(c, IF profile = "none" THEN "putting" ELSE "recurrence")
    /\ ActorOnly

PutProfile(c) ==
    /\ actor[c].pc = "putting"
    /\ profile' = "onboarding"
    /\ Goes(c, "recurrence")
    /\ UNCHANGED <<now, offered, binding, contract, versions, enrollment, enabled, billed, term,
                   receipt, told, events, faults>>

GetRecurrence(c) ==
    /\ actor[c].pc = "recurrence"
    /\ Goes(c, IF enrollment = NotEnrolled THEN "enrolling" ELSE "processing")
    /\ ActorOnly

\* enroll(): a repetition with the same first cycle is answered with the row.
MayEnroll == /\ enrollment = NotEnrolled
             /\ contract = "ativo"
             /\ InBilling({"catalog"})

Enroll(c) ==
    /\ actor[c].pc = "enrolling"
    /\ LET mine == [by |-> "onboarding", day |-> Day(now)] IN
        /\ enrollment' = IF MayEnroll THEN mine ELSE enrollment
        /\ Goes(c, IF enrollment' = mine THEN "processing" ELSE "idle")
    /\ UNCHANGED <<now, offered, binding, contract, versions, profile, enabled, billed, term,
                   receipt, told, events, faults>>

\* The recurrence of the contract runs: what keeps it from billing is no error.
Billable == /\ contract = "ativo"
            /\ enrollment # NotEnrolled /\ enabled
            /\ InBilling({"catalog"})

Process(c) ==
    /\ actor[c].pc = "processing"
    /\ \/ billed' = (billed \/ Billable) /\ UNCHANGED faults
       \/ Fault /\ UNCHANGED billed
    /\ told' = IF contract = "ativo" THEN told \cup {"ready"} ELSE told
    /\ Goes(c, "idle")
    /\ UNCHANGED <<now, offered, binding, contract, versions, profile, enrollment, enabled, term,
                   receipt, events>>

-------------------------------------------------------------------------------
\* confirmDataErasure()

\* 30 days after the end, here a minute.
Eligible == term.status = "completed" /\ term.until <= now

\* Variant: the row is read before it is updated.
ErasedAt_AsRead == term.erased

\* Variant: each confirmation counts anew.
ErasedAt_Now == now

\* coalesce(operational_erased_at, now())
ErasedAt == IF term.erased = None THEN now ELSE term.erased

Confirm(e) ==
    /\ actor[e] = Idle
    /\ Eligible
    /\ term' = [term EXCEPT !.erased = ErasedAt]
    /\ GoesAt(e, "archiving", ErasedAt)
    /\ UNCHANGED <<now, offered, binding, contract, versions, profile, enrollment, enabled,
                   billed, receipt, told, events, faults>>

\* The file appears whole, by a link; a receipt that is there already stays.
Archive(e) ==
    /\ actor[e].pc = "archiving"
    /\ receipt' = IF receipt = None THEN actor[e].at ELSE receipt
    /\ told' = told \cup {"erased"}
    /\ Goes(e, "idle")
    /\ UNCHANGED <<now, offered, binding, contract, versions, profile, enrollment, enabled,
                   billed, term, events, faults>>

-------------------------------------------------------------------------------
\* A call fails or a process dies: the request ends where it is.  A profile
\* whose answer was lost may have been put.
Stops(a) ==
    /\ actor[a] # Idle
    /\ Fault
    /\ profile' \in {profile} \cup (IF actor[a].pc = "putting" THEN {"onboarding"} ELSE {})
    /\ Goes(a, "idle")
    /\ UNCHANGED <<now, offered, binding, contract, versions, enrollment, enabled, billed, term,
                   receipt, told, events>>

\* The timers: pending versions are sent, and the cycle that is due is billed.
TimerDelivers(i) ==
    /\ ~versions[i].synced /\ ~versions[i].cancelled /\ ~Claimed(i)
    /\ versions' = [versions EXCEPT ![i].synced = TRUE]
    /\ UNCHANGED <<now, offered, binding, contract, profile, enrollment, enabled, billed, term,
                   receipt, told, actor, events, faults>>

TimerBills ==
    /\ ~billed /\ Billable
    /\ billed' = TRUE
    /\ UNCHANGED <<now, offered, binding, contract, versions, profile, enrollment, enabled, term,
                   receipt, told, actor, events, faults>>

-------------------------------------------------------------------------------
Event == events < MaxEvents /\ events' = events + 1

\* The plan is archived, or offered again.
ChangeCatalog ==
    /\ Event
    /\ offered' = ~offered
    /\ UNCHANGED <<now, binding, contract, versions, profile, enrollment, enabled, billed, term,
                   receipt, told, actor, faults>>

\* Operators use the contract as soon as it is there.  Their conditions may lie
\* ahead, unless they give or end a courtesy or conditions still to come are the
\* only ones.
OperatorPublishes(terms, at) ==
    /\ Event
    /\ MaySave(at)
    /\ at > now => terms = "catalog" /\ \A i \in Standing :
                     (\A j \in Standing : j <= i) => versions[i].terms = "catalog"
    /\ Future # {} => Effective # {}
    /\ versions' = Append(versions, Version("operator", at, terms))
    /\ UNCHANGED <<now, offered, binding, contract, profile, enrollment, enabled, billed, term,
                   receipt, told, actor, faults>>

\* Conditions to come are cancelled, once, whether Billing has them or not.
OperatorCancels(i) ==
    /\ i \in Future
    /\ versions' = [versions EXCEPT ![i].cancelled = TRUE]
    /\ UNCHANGED <<now, offered, binding, contract, profile, enrollment, enabled, billed, term,
                   receipt, told, actor, events, faults>>

OperatorSetsProfile ==
    /\ Event
    /\ contract # "none"
    /\ profile' = "operator"
    /\ UNCHANGED <<now, offered, binding, contract, versions, enrollment, enabled, billed, term,
                   receipt, told, actor, faults>>

OperatorEnrolls ==
    /\ Event
    /\ MayEnroll
    /\ enrollment' = [by |-> "operator", day |-> Day(now)]
    /\ UNCHANGED <<now, offered, binding, contract, versions, profile, enabled, billed, term,
                   receipt, told, actor, faults>>

\* The recurrence is paused, or resumed on a contract that runs.
OperatorSwitches ==
    /\ Event
    /\ enrollment # NotEnrolled
    /\ enabled \/ contract = "ativo"
    /\ enabled' = ~enabled
    /\ UNCHANGED <<now, offered, binding, contract, versions, profile, enrollment, billed, term,
                   receipt, told, actor, faults>>

\* The contract is terminated, with immediate effect.
Terminate ==
    /\ Event
    /\ contract = "ativo"
    /\ contract' = "encerrado"
    /\ term' = [term EXCEPT !.status = "completed", !.until = now + 1]
    /\ UNCHANGED <<now, offered, binding, versions, profile, enrollment, enabled, billed,
                   receipt, told, actor, faults>>

Tick ==
    /\ now < Horizon
    /\ now' = now + 1
    /\ UNCHANGED <<offered, binding, contract, versions, profile, enrollment, enabled, billed,
                   term, receipt, told, actor, events, faults>>

Proceeds(c) == \/ ReadCatalog(c) \/ Bind(c) \/ List(c) \/ Publish(c) \/ Delivered(c)
               \/ Refresh(c) \/ Check(c) \/ GetProfile(c) \/ PutProfile(c)
               \/ GetRecurrence(c) \/ Enroll(c) \/ Process(c)

Operators == \/ ChangeCatalog \/ OperatorSetsProfile \/ OperatorEnrolls
             \/ OperatorSwitches \/ Terminate
             \/ \E terms \in {"catalog", "courtesy"}, at \in Minutes :
                    OperatorPublishes(terms, at)
             \/ \E i \in DOMAIN versions : OperatorCancels(i)

Next == \/ \E c \in Calls : Provision(c) \/ Proceeds(c)
        \/ \E e \in Erasers : Confirm(e) \/ Archive(e)
        \/ \E a \in Actors : Stops(a)
        \/ \E i \in DOMAIN versions : TimerDelivers(i)
        \/ TimerBills \/ Operators \/ Tick

Spec == Init /\ [][Next]_vars

\* A call goes on or fails within its timeouts; the timers run every few
\* seconds; and the Cloud application repeats its call until it is answered.
Fairness ==
    /\ \A c \in Calls : WF_vars(Proceeds(c)) /\ WF_vars("ready" \notin told /\ Provision(c))
    /\ WF_vars(\E i \in DOMAIN versions : TimerDelivers(i))
    /\ WF_vars(TimerBills)

FairSpec == Spec /\ Fairness

-------------------------------------------------------------------------------
\* Types of the variables.
TypeOK ==
    /\ now \in Minutes
    /\ offered \in BOOLEAN
    /\ binding \in {None} \cup Minutes
    /\ contract \in {"none", "ativo", "encerrado"}
    /\ versions \in Seq(Versions)
    /\ profile \in {"none", "onboarding", "operator"}
    /\ enrollment \in Enrollments
    /\ enabled \in BOOLEAN
    /\ billed \in BOOLEAN
    /\ term \in [status : {"none", "completed"}, until : {None} \cup 0..(Horizon + 1),
                 erased : {None} \cup Minutes]
    /\ receipt \in {None} \cup Minutes
    /\ told \subseteq {"ready", "erased"}
    /\ actor \in [Actors -> [pc : Steps, at : {None} \cup Minutes]]
    /\ \A a \in Actors : actor[a].pc \in {"publishing", "archiving"} => actor[a].at # None
    /\ events \in 0..MaxEvents
    /\ faults \in 0..MaxFaults

\* Database and archive tell one story of the erasure: it is confirmed to Cloud
\* only with a receipt in the archive, and that receipt names the instant of the
\* row, after the retention, whatever confirmation was repeated or died halfway.
ReceiptAgrees ==
    /\ "erased" \in told => receipt # None
    /\ receipt # None => receipt = term.erased /\ term.until <= receipt

\* Whatever step a call began at, and whoever did the others: Cloud is answered
\* that an account is ready only when its recurrence and its profile are there,
\* and it is enrolled and billed only under terms that Billing has.
Confirmed(terms) == \E i \in DOMAIN versions : versions[i].terms \in terms /\ versions[i].synced

ReadyIsSetUp ==
    /\ "ready" \in told => enrollment # NotEnrolled /\ profile # "none"
    /\ enrollment # NotEnrolled => binding # None /\ Confirmed({"catalog"})
    /\ billed => enrollment # NotEnrolled

\* What keeps an account from being billed: its plan left the catalog before any
\* conditions were published; no conditions are in effect, because those that were
\* published are cancelled or lie ahead, and provision() publishes none beside
\* them; the first ones were cancelled before Billing had them, which stops every
\* repetition of provision() for good; a courtesy is in effect; or an operator has
\* paused the recurrence.
Unpublished == IF versions = <<>> THEN ~offered ELSE Effective = {}
Stuck       == /\ enrollment = NotEnrolled /\ versions # <<>>
               /\ versions[1].cancelled /\ ~versions[1].synced

Hindered == Unpublished \/ Stuck \/ InEffect({"courtesy"}) \/ ~enabled

\* An account that was bound is billed in the end, from whatever step its calls
\* failed at and whatever else operators have published, cancelled, put or enabled
\* meanwhile, unless one of these keeps it from that.
OnboardingCompletes ==
    <>[](contract = "ativo" /\ ~Hindered => billed)
===============================================================================
