------------------------- MODULE ContractFinanceProofs -------------------------
(***************************************************************************)
(* Theorems about ContractFinance for any policy, period, horizon and      *)
(* number of events, with their proofs.                                    *)
(*                                                                         *)
(* A number means the same decision everywhere because a decision is never *)
(* changed but for its status, and because whoever delivers one delivers   *)
(* the last: a new one is recorded only when nobody is inside, and takes   *)
(* those that wait out of the way.  What Billing and Licensing hold, and   *)
(* what is on its way to them, is then never beyond that last decision.    *)
(* That every restriction was Earned by a debt of long enough is monotonic *)
(* in time, so what justified a decision justifies it for good.            *)
(***************************************************************************)
EXTENDS ContractFinance, SequenceTheorems, TLAPS

Delivering == {"posting", "told", "licensed"}

\* What a request says of a decision is what was recorded under its number.
Says(r) ==
    /\ r.to \in {"billing", "licensing"} => r.version \in 1..Len(decisions)
    /\ r.to = "billing" => r.recurrence = decisions[r.version].core.recurrence
    /\ r.to = "licensing" => r.core = decisions[r.version].core

\* So is what the receivers hold.
Held ==
    /\ billing.version \in 0..Len(decisions)
    /\ billing.version > 0 =>
        billing.recurrence = decisions[billing.version].core.recurrence
    /\ licensing.version \in 0..Len(decisions)
    /\ licensing.version > 0 =>
        licensing.core = decisions[licensing.version].core

Known == Held /\ \A r \in wire : Says(r)

\* Only the last decision waits, and it is the one that is delivered.
LastWaits == \A v \in DOMAIN decisions :
    decisions[v].status = "pending" => v = Len(decisions)

Carried ==
    /\ tx.pc \in Delivering => /\ tx.version = Len(decisions)
                               /\ tx.core = Latest.core
                               /\ Latest.status = "pending"
    /\ tx.pc \in {"told", "licensed"} => billing.version = tx.version
    /\ tx.pc = "licensed" => licensing.version = tx.version

Facts == Known /\ LastWaits /\ Carried

-------------------------------------------------------------------------------
\* The state of a transaction by its program counter.
LEMMA Kinds ==
    ASSUME tx \in Transactions
    PROVE  /\ tx.pc \in Delivering \cup {"idle", "advancing", "renewing"}
           /\ tx.pc = "idle" <=> tx = Idle
           /\ tx.pc = "posting" => tx \in [pc : {"posting"}, version : Nat \ {0}, core : Cores]
           /\ tx.pc \in {"told", "licensed"} =>
                tx \in [pc : {"told", "licensed"}, version : Nat \ {0}, core : Cores,
                        next : Dates \cup {None}]
           /\ tx.pc = "advancing" => tx \in [pc : {"advancing"}, expected : Dates]
           /\ tx.pc = "renewing" => tx \in [pc : {"renewing"}, expected : Dates]
BY DEF Transactions, Idle, Delivering

\* The dates of the model.
LEMMA Days ==
    /\ \A day \in 0..Horizon : day \in Dates /\ day + 1 \in Dates /\ day + Cycle \in Dates
    /\ \A day \in Dates \cup {None} : day \in Int /\ After(day) \in Dates \cup {None}
    /\ Dates \subseteq Nat
    /\ None \notin Dates
BY FinanceAssumption DEF Dates, After, None

\* What a decision says is a decision.
LEMMA CoreTyped ==
    ASSUME NEW s \in Situations, NEW policy \in {"pause", "continue"}, NEW t \in 0..Horizon
    PROVE  Core(s, policy, t) \in Cores
<1>1. s.overdue \in Dates \cup {None} /\ s.until \in Dates \cup {None}  BY DEF Situations
<1>2. DebtState(s.overdue, t) \in AccessStates  BY DEF DebtState, AccessStates
<1>3. PolicyState(s, t) \in AccessStates  BY <1>2 DEF PolicyState, AccessStates
<1>4. EffectiveState(s, t) \in AccessStates  BY <1>3 DEF EffectiveState, AccessStates
<1>5. RecurrenceState(s, policy, t) \in RecurrenceStates
  BY DEF RecurrenceState, RecurrenceStates
<1>6. OverdueSince(s.overdue, t) \in Dates \cup {None}  BY <1>1 DEF OverdueSince
<1>. QED  BY <1>1, <1>3, <1>4, <1>5, <1>6 DEF Core, Cores

\* With suspension in force, access is healthy only when nothing is overdue.
LEMMA HealthyPays ==
    ASSUME NEW s \in Situations, NEW policy, NEW t \in 0..Horizon, Enforced,
           Core(s, policy, t).access = "healthy"
    PROVE  Core(s, policy, t).overdue = None
<1>1. s.courtesy \in {"none", "active", "ended"}  BY DEF Situations
<1>2. CASE s.courtesy # "none"  BY <1>2 DEF Core
<1>3. CASE s.courtesy = "none"
  <2>1. EffectiveState(s, t) = "healthy"  BY DEF Core
  <2>2. DebtState(s.overdue, t) = "healthy"  BY <1>3, <2>1 DEF EffectiveState, PolicyState
  <2>3. OverdueSince(s.overdue, t) = None  BY <2>2 DEF DebtState
  <2>. QED  BY <1>3, <2>3 DEF Core
<1>. QED  BY <1>2, <1>3

\* What a transaction waits for is a request that says what was recorded.
LEMMA AwaitedSays ==
    ASSUME TypeOK, Facts
    PROVE  /\ Awaited \subseteq Requests
           /\ \A r \in Awaited : Says(r)
<1>1. CASE tx.pc = "posting"
  <2>1. tx \in [pc : {"posting"}, version : Nat \ {0}, core : Cores]  BY <1>1, Kinds DEF TypeOK
  <2>2. Awaited = {ToBilling(tx.version, tx.core)}  BY <1>1 DEF Awaited
  <2>3. ToBilling(tx.version, tx.core) \in Requests  BY <2>1 DEF ToBilling, Requests, Cores
  <2>4. Says(ToBilling(tx.version, tx.core))
    BY <1>1, <2>1 DEF ToBilling, Says, Facts, Carried, Delivering, Latest, TypeOK
  <2>. QED  BY <2>2, <2>3, <2>4
<1>2. CASE tx.pc = "told"
  <2>1. tx \in [pc : {"told", "licensed"}, version : Nat \ {0}, core : Cores,
                next : Dates \cup {None}]
    BY <1>2, Kinds DEF TypeOK
  <2>2. Awaited \subseteq {ToLicensing(tx.version, tx.core)}  BY <1>2 DEF Awaited
  <2>3. ToLicensing(tx.version, tx.core) \in Requests  BY <2>1 DEF ToLicensing, Requests
  <2>4. Says(ToLicensing(tx.version, tx.core))
    BY <1>2, <2>1 DEF ToLicensing, Says, Facts, Carried, Delivering, Latest, TypeOK
  <2>. QED  BY <2>2, <2>3, <2>4
<1>3. CASE tx.pc \in {"advancing", "renewing"}
  <2>1. tx.expected \in Dates  BY <1>3, Kinds DEF TypeOK
  <2>2. \E b \in BOOLEAN : Awaited = {ToAdvance(tx.expected, b)}  BY <1>3 DEF Awaited
  <2>3. \A b \in BOOLEAN : ToAdvance(tx.expected, b) \in Requests /\ Says(ToAdvance(tx.expected, b))
    BY <2>1 DEF ToAdvance, Requests, Says
  <2>. QED  BY <2>2, <2>3
<1>4. CASE tx.pc \in {"idle", "licensed"}  BY <1>4 DEF Awaited
<1>. QED  BY <1>1, <1>2, <1>3, <1>4, Kinds DEF TypeOK, Delivering

\* What Billing and Licensing hold keeps its type, and its number rises to the
\* one they are sent.
LEMMA HeardTyped ==
    ASSUME NEW b \in Situations, NEW v \in Nat, NEW core \in Cores, now \in 0..Horizon,
           NEW r, r.version = v, r.recurrence = core.recurrence
    PROVE  /\ HeardBy(b, r) \in Situations
           /\ v < b.version => HeardBy(b, r) = b
           /\ v >= b.version => /\ HeardBy(b, r).version = v
                                /\ HeardBy(b, r).recurrence = r.recurrence
<1>1. b.version \in Nat /\ b.next \in Dates \cup {None}  BY DEF Situations
<1>2. CASE v < b.version  BY <1>1, <1>2 DEF HeardBy
<1>3. CASE v >= b.version
  <2> DEFINE next == IF r.recurrence = "active" /\ b.recurrence # "active"
                        /\ b.next # None /\ b.next < now THEN now ELSE b.next
  <2>1. next \in Dates \cup {None}  BY <1>1, Days
  <2>2. HeardBy(b, r) = [b EXCEPT !.version = v, !.recurrence = r.recurrence, !.next = next]
    BY <1>1, <1>3 DEF HeardBy
  <2>3. r.recurrence \in RecurrenceStates  BY DEF Cores
  <2> HIDE DEF next
  <2>4. [b EXCEPT !.version = v, !.recurrence = r.recurrence, !.next = next] \in Situations
    BY <2>1, <2>3 DEF Situations
  <2>5. HeardBy(b, r).version = v /\ HeardBy(b, r).recurrence = r.recurrence
    BY <2>2 DEF Situations
  <2>. QED  BY <1>1, <1>3, <2>2, <2>4, <2>5
<1>. QED  BY <1>1, <1>2, <1>3

LEMMA AdvancedTyped ==
    ASSUME NEW b \in Situations, now \in 0..Horizon, NEW r,
           r.expected \in Dates \cup {None}, r.renewal \in BOOLEAN
    PROVE  /\ Advanced(b, r) \in Situations
           /\ Advanced(b, r).version = b.version
           /\ Advanced(b, r).recurrence = b.recurrence
<1> DEFINE s == Scheduled(b, r)
<1>1. /\ s \in Situations /\ s.version = b.version /\ s.recurrence = b.recurrence
      /\ s.next \in Dates \cup {None}
  BY DEF Scheduled, Situations
<1>2. After(now) \in Dates \cup {None} /\ After(s.next) \in Dates \cup {None}  BY <1>1, Days
<1>3. Advanced(b, r) = s
      \/ \E day \in Dates \cup {None} :
           Advanced(b, r) = [s EXCEPT !.next = day, !.invoiced = r.renewal]
  BY <1>2 DEF Advanced
<1> HIDE DEF s
<1>. QED  BY <1>1, <1>3 DEF Situations

LEMMA LicensedTyped ==
    ASSUME NEW l \in [version : Nat, core : Cores \cup {Idle}],
           NEW v \in Nat, NEW core \in Cores, NEW r, r.version = v, r.core = core
    PROVE  /\ LicensedBy(l, r) \in [version : Nat, core : Cores \cup {Idle}]
           /\ v < l.version => LicensedBy(l, r) = l
           /\ v >= l.version => LicensedBy(l, r) = [version |-> v, core |-> core]
BY DEF LicensedBy

\* A decision whose status changes, and one that is recorded.
LEMMA StatusChanges ==
    ASSUME TypeOK, NEW v \in DOMAIN decisions,
           NEW s \in {"pending", "superseded", "observed", "synced"},
           decisions' = [decisions EXCEPT ![v].status = s]
    PROVE  /\ decisions' \in Seq(Decisions)
           /\ Len(decisions') = Len(decisions) /\ DOMAIN decisions' = DOMAIN decisions
           /\ \A w \in DOMAIN decisions :
                /\ decisions'[w].core = decisions[w].core
                /\ decisions'[w].deliverable = decisions[w].deliverable
                /\ decisions'[w].status = IF w = v THEN s ELSE decisions[w].status
<1>1. decisions \in Seq(Decisions)  BY DEF TypeOK
<1>2. decisions[v] \in Decisions  BY <1>1
<1> DEFINE d == [decisions[v] EXCEPT !.status = s]
<1>3. d \in Decisions /\ d.core = decisions[v].core /\ d.deliverable = decisions[v].deliverable
      /\ d.status = s
  BY <1>2 DEF Decisions
<1>4. decisions' = [decisions EXCEPT ![v] = d]  OBVIOUS
<1> HIDE DEF d
<1>. QED  BY <1>1, <1>3, <1>4

LEMMA Recording ==
    ASSUME TypeOK
    PROVE  /\ Recorded(CurrentCore) \in Seq(Decisions)
           /\ Len(Recorded(CurrentCore)) = Len(decisions) + 1
           /\ \A v \in 1..Len(decisions) :
                /\ Recorded(CurrentCore)[v].core = decisions[v].core
                /\ Recorded(CurrentCore)[v].deliverable = decisions[v].deliverable
                /\ Recorded(CurrentCore)[v].status =
                     IF decisions[v].status = "pending" THEN "superseded" ELSE decisions[v].status
           /\ Recorded(CurrentCore)[Len(decisions) + 1].core = CurrentCore
           /\ Recorded(CurrentCore)[Len(decisions) + 1].status = "pending"
           /\ CurrentCore \in Cores
<1>1. decisions \in Seq(Decisions)  BY DEF TypeOK
<1>2. CurrentCore \in Cores  BY CoreTyped DEF TypeOK, CurrentCore, Enrollments
<1> DEFINE d == [core |-> CurrentCore, deliverable |-> Deliverable(CurrentCore, now),
                 status |-> "pending"]
           s == Superseded(decisions)
<1>3. d \in Decisions /\ d.core = CurrentCore /\ d.status = "pending"
  <2>1. Deliverable(CurrentCore, now) \in BOOLEAN  BY DEF Deliverable
  <2>. QED  BY <1>2, <2>1 DEF Decisions
<1>4. ASSUME NEW v \in 1..Len(decisions)
      PROVE  /\ s[v] \in Decisions /\ s[v].core = decisions[v].core
             /\ s[v].deliverable = decisions[v].deliverable
             /\ s[v].status = IF decisions[v].status = "pending" THEN "superseded"
                                                                 ELSE decisions[v].status
  <2>1. decisions[v] \in Decisions  BY <1>1
  <2>2. s[v] = IF decisions[v].status = "pending"
               THEN [decisions[v] EXCEPT !.status = "superseded"] ELSE decisions[v]
    BY <1>1 DEF Superseded
  <2> HIDE DEF s
  <2>. QED  BY <2>1, <2>2 DEF Decisions
<1>5. s \in Seq(Decisions) /\ Len(s) = Len(decisions)
  <2>1. PICK n \in Nat : DOMAIN decisions = 1..n /\ Len(decisions) = n  BY <1>1
  <2>2. s = [v \in 1..n |-> s[v]] /\ DOMAIN s = 1..n  BY <2>1 DEF Superseded
  <2> HIDE DEF s
  <2>3. s \in [1..n -> Decisions]  BY <1>4, <2>1, <2>2
  <2>4. s \in Seq(Decisions)  BY <2>3, SeqDef
  <2>. QED  BY <2>1, <2>2, <2>4, LenProperties
<1>6. Recorded(CurrentCore) = Append(s, d)  BY DEF Recorded
<1> HIDE DEF s, d
<1>. QED  BY <1>2, <1>3, <1>4, <1>5, <1>6, AppendProperties

-------------------------------------------------------------------------------
LEMMA Counted == TypeOK /\ Event => events' \in 0..MaxEvents
BY FinanceAssumption DEF TypeOK, Event

LEMMA InitFacts == Init => TypeOK /\ Facts
<1> SUFFICES ASSUME Init PROVE TypeOK /\ Facts  OBVIOUS
<1>1. now \in 0..Horizon /\ events \in 0..MaxEvents  BY FinanceAssumption DEF Init
<1>2. Cycle \in Dates /\ 0 \in Dates  BY FinanceAssumption DEF Dates
<1>3. billing \in Situations /\ enrollment \in Enrollments
  <2>1. CASE Fresh  BY <1>2, <2>1 DEF Fresh, Situations, RecurrenceStates, Enrollments
  <2>2. CASE Established
    BY <1>2, <2>2 DEF Established, Situations, RecurrenceStates, Enrollments
  <2>. QED  BY <2>1, <2>2 DEF Init
<1>5. Core(billing, "pause", 0) \in Cores  BY <1>1, <1>3, CoreTyped DEF Init
<1>6. /\ decisions \in Seq(Decisions)
      /\ licensing \in [version : Nat, core : Cores \cup {Idle}]
  <2>1. CASE Fresh  BY <2>1 DEF Fresh
  <2>2. CASE Established
    <3>1. [core |-> Core(billing, "pause", 0), deliverable |-> TRUE, status |-> "synced"]
            \in Decisions
      BY <1>5 DEF Decisions
    <3>. QED  BY <1>5, <2>2, <3>1 DEF Established
  <2>. QED  BY <2>1, <2>2 DEF Init
<1>7. contract \in Contracts /\ notices \in Seq(AccessStates) /\ tx \in Transactions
      /\ wire \in SUBSET Requests
  BY DEF Init, Contracts, Transactions
<1>8. TypeOK  BY <1>1, <1>3, <1>6, <1>7 DEF TypeOK
<1>9. Known
  <2>1. CASE Fresh  BY <2>1 DEF Init, Fresh, Known, Held
  <2>2. CASE Established
    <3>1. Len(decisions) = 1 /\ decisions[1].core = Core(billing, "pause", 0)
      BY <2>2 DEF Established
    <3>2. Core(billing, "pause", 0).recurrence = "active"
      <4>1. billing.courtesy = "none" /\ ~billing.renewal /\ billing.overdue = None
        BY <2>2 DEF Established
      <4>2. EffectiveState(billing, 0) = "healthy"
        BY <4>1 DEF EffectiveState, PolicyState, DebtState, OverdueSince
      <4>3. RecurrenceState(billing, "pause", 0) = "active"
        BY <4>1, <4>2 DEF RecurrenceState
      <4>. QED  BY <4>3 DEF Core
    <3>. QED  BY <2>2, <3>1, <3>2 DEF Init, Established, Known, Held
  <2>. QED  BY <2>1, <2>2 DEF Init
<1>10. LastWaits /\ Carried
  BY DEF Init, Fresh, Established, LastWaits, Carried, Idle, Delivering
<1>. QED  BY <1>8, <1>9, <1>10 DEF Facts

\* What the facts are about does not change, or only what Billing's own moves
\* change of what it holds.
LEMMA Elsewhere1 ==
    ASSUME Facts, decisions' = decisions, tx' = tx, wire' = wire, licensing' = licensing,
           billing'.version = billing.version, billing'.recurrence = billing.recurrence
    PROVE  Facts'
<1>1. Known'  BY DEF Facts, Known, Held, Says
<1>2. LastWaits' /\ Carried'  BY DEF Facts, LastWaits, Carried, Latest
<1>. QED  BY <1>1, <1>2 DEF Facts

LEMMA OperatorsKeep ==
    ASSUME TypeOK, Facts,
           \/ \E first \in {now, now + 1} : Enroll(first)
           \/ \E enabled \in BOOLEAN : SetEnabled(enabled)
           \/ \E policy \in {"pause", "continue"} : SetPolicy(policy)
           \/ \E revision \in {"courtesy", "unconfirmed"} : TakesEffect(revision)
           \/ \E day \in {now, now + 1} : RecordTermination(day)
           \/ Terminates
           \/ Tick
    PROVE  TypeOK' /\ Facts'
<1>0. /\ UNCHANGED <<decisions, notices, billing, licensing, tx, wire>>
  BY DEF Enroll, SetEnabled, SetPolicy, TakesEffect, RecordTermination, Terminates, Tick,
         EnrollmentOnly
<1>1. Facts'  BY <1>0, Elsewhere1
<1>2. now \in Dates /\ now + 1 \in Dates  BY Days DEF TypeOK
<1>3. contract' \in Contracts
  BY <1>2 DEF TypeOK, Contracts, Enroll, SetEnabled, SetPolicy, TakesEffect, RecordTermination,
              Terminates, Tick, EnrollmentOnly
<1>4. enrollment' \in Enrollments
  <2>1. enrollment \in Enrollments  BY DEF TypeOK
  <2>2. ASSUME NEW first \in {now, now + 1}, Enroll(first) PROVE enrollment' \in Enrollments
    BY <1>2, <2>1, <2>2 DEF Enrollments, Enroll
  <2>3. ASSUME NEW enabled \in BOOLEAN, SetEnabled(enabled) PROVE enrollment' \in Enrollments
    BY <2>1, <2>3 DEF Enrollments, SetEnabled
  <2>4. ASSUME NEW policy \in {"pause", "continue"}, SetPolicy(policy)
        PROVE  enrollment' \in Enrollments
    BY <2>1, <2>4 DEF Enrollments, SetPolicy
  <2>5. CASE Terminates  BY <2>1, <2>5 DEF Enrollments, Terminates
  <2>6. CASE \/ \E revision \in {"courtesy", "unconfirmed"} : TakesEffect(revision)
             \/ \E day \in {now, now + 1} : RecordTermination(day)
             \/ Tick
    BY <2>1, <2>6 DEF TakesEffect, RecordTermination, Tick
  <2>. QED  BY <2>2, <2>3, <2>4, <2>5, <2>6
<1>5. now' \in 0..Horizon /\ events' \in 0..MaxEvents
  BY Counted, FinanceAssumption
     DEF TypeOK, Enroll, SetEnabled, SetPolicy, TakesEffect, RecordTermination, Terminates, Tick,
         EnrollmentOnly
<1>. QED  BY <1>0, <1>1, <1>3, <1>4, <1>5 DEF TypeOK

LEMMA BillingKeeps ==
    ASSUME TypeOK, Facts, FallsOverdue \/ Pays \/ RenewalRequired \/ CourtesyEnds \/ Confirms
    PROVE  TypeOK' /\ Facts'
<1>0. /\ UNCHANGED <<now, enrollment, decisions, notices, licensing, tx, wire>>
  BY DEF FallsOverdue, Pays, RenewalRequired, CourtesyEnds, Confirms, BillingOnly
<1>1. now \in Dates /\ now + Cycle \in Dates  BY Days DEF TypeOK
<1>2. billing \in Situations  BY DEF TypeOK
<1>3. /\ billing' \in Situations /\ billing'.version = billing.version
      /\ billing'.recurrence = billing.recurrence
  <2>1. CASE FallsOverdue \/ Pays  BY <1>1, <1>2, <2>1 DEF Situations, FallsOverdue, Pays
  <2>2. CASE RenewalRequired  BY <1>2, <2>2 DEF Situations, RenewalRequired
  <2>3. CASE CourtesyEnds \/ Confirms  BY <1>2, <2>3 DEF Situations, CourtesyEnds, Confirms
  <2>. QED  BY <2>1, <2>2, <2>3
<1>4. Facts'  BY <1>0, <1>3, Elsewhere1
<1>5. contract' \in Contracts
  BY DEF TypeOK, Contracts, FallsOverdue, Pays, RenewalRequired, CourtesyEnds, Confirms,
         BillingOnly
<1>6. events' \in 0..MaxEvents
  BY Counted DEF TypeOK, FallsOverdue, Pays, RenewalRequired, CourtesyEnds, Confirms, BillingOnly
<1>. QED  BY <1>0, <1>3, <1>4, <1>5, <1>6 DEF TypeOK

LEMMA AsksKeep ==
    ASSUME TypeOK, Facts, Advance \/ Renew
    PROVE  TypeOK' /\ Facts'
<1>0. UNCHANGED <<now, contract, enrollment, decisions, notices, billing, licensing, wire, events>>
  BY DEF Advance, Renew
<1>1. enrollment.next \in Dates \cup {None} /\ enrollment.first \in Dates
  BY DEF TypeOK, Enrollments
<1>2. tx' \in Transactions /\ tx'.pc \in {"advancing", "renewing"}
  BY <1>1 DEF Advance, Renew, Billable, Transactions
<1>3. TypeOK'  BY <1>0, <1>2 DEF TypeOK
<1>4. Known'  BY <1>0 DEF Facts, Known, Held, Says
<1>5. LastWaits' /\ Carried'  BY <1>0, <1>2 DEF Facts, LastWaits, Carried, Delivering
<1>. QED  BY <1>3, <1>4, <1>5 DEF Facts

LEMMA DecideKeeps == ASSUME TypeOK, Facts, Decide PROVE TypeOK' /\ Facts'
<1>0. UNCHANGED <<now, contract, enrollment, billing, licensing, tx, wire, events>>
  BY DEF Decide
<1>1. decisions' = Recorded(CurrentCore) /\ tx.pc = "idle"  BY DEF Decide, Free, Idle
<1> DEFINE n == Len(decisions)
<1>2. n \in Nat  BY DEF TypeOK
<1>3. /\ decisions' \in Seq(Decisions) /\ Len(decisions') = n + 1
      /\ \A v \in 1..n : /\ decisions'[v].core = decisions[v].core
                         /\ decisions'[v].status # "pending"
      /\ CurrentCore \in Cores
  BY <1>1, Recording
<1>4. notices' \in Seq(AccessStates)
  <2>1. CurrentCore.access \in AccessStates  BY <1>3 DEF Cores
  <2>2. Notified(CurrentCore) \in {notices, Append(notices, CurrentCore.access)}
    BY DEF Notified
  <2>3. notices \in Seq(AccessStates)  BY DEF TypeOK
  <2>. QED  BY <2>1, <2>2, <2>3 DEF Decide
<1>5. TypeOK'  BY <1>0, <1>3, <1>4 DEF TypeOK
<1>6. LastWaits'  BY <1>2, <1>3 DEF LastWaits
<1>7. Carried'  BY <1>0, <1>1 DEF Carried, Delivering
<1>8. ASSUME NEW r \in wire PROVE Says(r)'
  <2>1. Says(r)  BY DEF Facts, Known
  <2>. QED  BY <1>2, <1>3, <2>1 DEF Says
<1>9. Held'  BY <1>0, <1>2, <1>3 DEF Facts, Known, Held
<1>. QED  BY <1>0, <1>5, <1>6, <1>7, <1>8, <1>9 DEF Facts, Known

LEMMA DeliverKeeps == ASSUME TypeOK, Facts, Deliver PROVE TypeOK' /\ Facts'
<1>0. UNCHANGED <<now, contract, enrollment, notices, billing, licensing, wire, events>>
      /\ tx.pc = "idle"
  BY DEF Deliver, Free, Idle
<1>1. PICK v \in Pending : Drop(v) \/ Post(v)  BY DEF Deliver
<1>2. v \in DOMAIN decisions /\ decisions[v].status = "pending" /\ v = Len(decisions)
      /\ v \in Nat \ {0}
  BY DEF Pending, Facts, LastWaits, TypeOK
<1>3. CASE Drop(v)
  <2>1. decisions' = [decisions EXCEPT ![v].status = "superseded"] /\ tx' = tx
    BY <1>3 DEF Drop
  <2>2. /\ decisions' \in Seq(Decisions) /\ Len(decisions') = Len(decisions)
        /\ \A w \in DOMAIN decisions : /\ decisions'[w].core = decisions[w].core
                                       /\ decisions'[w].status # "pending" \/ decisions'[w].status = decisions[w].status
        /\ DOMAIN decisions' = DOMAIN decisions
    BY <1>2, <2>1, StatusChanges
  <2>3. DOMAIN decisions = 1..Len(decisions)  BY DEF TypeOK
  <2>4. TypeOK'  BY <1>0, <2>1, <2>2 DEF TypeOK
  <2>5. Known'
    <3>1. Held'  BY <1>0, <2>2, <2>3 DEF Facts, Known, Held
    <3>2. \A r \in wire : Says(r)'  BY <2>2, <2>3 DEF Facts, Known, Says
    <3>. QED  BY <1>0, <3>1, <3>2 DEF Known
  <2>6. LastWaits' /\ Carried'
    BY <1>0, <2>1, <2>2 DEF Facts, LastWaits, Carried, Delivering
  <2>. QED  BY <2>4, <2>5, <2>6 DEF Facts
<1>4. CASE Post(v)
  <2>1. /\ tx' = [pc |-> "posting", version |-> v, core |-> CurrentCore]
        /\ CurrentCore = decisions[v].core /\ decisions' = decisions
    BY <1>4 DEF Post, StillTrue
  <2>2. CurrentCore \in Cores  BY Recording
  <2>3. tx' \in Transactions  BY <1>2, <2>1, <2>2 DEF Transactions
  <2>4. TypeOK'  BY <1>0, <2>1, <2>3 DEF TypeOK
  <2>5. Known'  BY <1>0, <2>1 DEF Facts, Known, Held, Says
  <2>6. LastWaits' /\ Carried'
    BY <1>2, <2>1 DEF Facts, LastWaits, Carried, Delivering, Latest
  <2>. QED  BY <2>4, <2>5, <2>6 DEF Facts
<1>. QED  BY <1>1, <1>3, <1>4

\* Billing has got to the decision it is told.
LEMMA BillingAcksKeeps == ASSUME TypeOK, Facts, BillingAcks PROVE TypeOK' /\ Facts'
<1>0. UNCHANGED <<now, contract, enrollment, decisions, notices, licensing, wire, events>>
  BY DEF BillingAcks
<1>1. /\ tx \in [pc : {"posting"}, version : Nat \ {0}, core : Cores]
      /\ tx.version = Len(decisions) /\ tx.core = Latest.core /\ Latest.status = "pending"
  BY Kinds DEF BillingAcks, TypeOK, Facts, Carried, Delivering
<1> DEFINE r == ToBilling(tx.version, tx.core)
           h == HeardBy(billing, r)
<1>2. r.version = tx.version /\ r.recurrence = tx.core.recurrence  BY DEF ToBilling
<1>3. billing \in Situations /\ billing.version <= tx.version /\ now \in 0..Horizon
      /\ billing.version \in Nat /\ tx.version \in Nat /\ tx.core \in Cores
  BY <1>1 DEF TypeOK, Facts, Known, Held, Situations
<1>4. /\ h \in Situations /\ h.version = tx.version /\ h.recurrence = tx.core.recurrence
  BY <1>2, <1>3, HeardTyped
<1>5. billing' = h
      /\ tx' = [pc |-> "told", version |-> tx.version, core |-> tx.core,
                next |-> IF tx.core.recurrence = "active" THEN h.next ELSE None]
  BY DEF BillingAcks
<1> HIDE DEF h, r
<1>6. h.next \in Dates \cup {None}  BY <1>4 DEF Situations
<1>7. tx' \in Transactions  BY <1>1, <1>5, <1>6 DEF Transactions
<1>8. TypeOK'  BY <1>0, <1>4, <1>5, <1>7 DEF TypeOK
<1>9. Known'
  <2>1. Held'  BY <1>0, <1>1, <1>4, <1>5 DEF Facts, Known, Held, Latest
  <2>2. \A q \in wire : Says(q)'  BY <1>0 DEF Facts, Known, Says
  <2>. QED  BY <1>0, <2>1, <2>2 DEF Known
<1>10. LastWaits' /\ Carried'
  BY <1>0, <1>1, <1>4, <1>5 DEF Facts, LastWaits, Carried, Delivering, Latest
<1>. QED  BY <1>8, <1>9, <1>10 DEF Facts

LEMMA LicensingAcksKeeps == ASSUME TypeOK, Facts, LicensingAcks PROVE TypeOK' /\ Facts'
<1>0. UNCHANGED <<now, contract, enrollment, decisions, notices, billing, wire, events>>
  BY DEF LicensingAcks
<1>1. /\ tx \in [pc : {"told", "licensed"}, version : Nat \ {0}, core : Cores,
                 next : Dates \cup {None}]
      /\ tx.version = Len(decisions) /\ tx.core = Latest.core /\ Latest.status = "pending"
      /\ billing.version = tx.version
  BY Kinds DEF LicensingAcks, TypeOK, Facts, Carried, Delivering
<1> DEFINE r == ToLicensing(tx.version, tx.core)
           l == LicensedBy(licensing, r)
<1>2. r.version = tx.version /\ r.core = tx.core  BY DEF ToLicensing
<1>3. licensing \in [version : Nat, core : Cores \cup {Idle}] /\ licensing.version <= tx.version
      /\ licensing.version \in Nat /\ tx.version \in Nat /\ tx.core \in Cores
  BY <1>1 DEF TypeOK, Facts, Known, Held
<1>4. /\ l \in [version : Nat, core : Cores \cup {Idle}]
      /\ l = [version |-> tx.version, core |-> tx.core]
  BY <1>2, <1>3, LicensedTyped
<1>5. licensing' = l /\ tx' = [tx EXCEPT !.pc = "licensed"]  BY DEF LicensingAcks
<1> HIDE DEF l, r
<1>6. /\ tx' \in [pc : {"told", "licensed"}, version : Nat \ {0}, core : Cores,
                  next : Dates \cup {None}]
      /\ tx'.pc = "licensed" /\ tx'.version = tx.version /\ tx'.core = tx.core
  BY <1>1, <1>5
<1>7. TypeOK'  BY <1>0, <1>4, <1>5, <1>6 DEF TypeOK, Transactions
<1>8. Known'
  <2>1. Held'  BY <1>0, <1>1, <1>4, <1>5 DEF Facts, Known, Held, Latest
  <2>2. \A q \in wire : Says(q)'  BY <1>0 DEF Facts, Known, Says
  <2>. QED  BY <1>0, <2>1, <2>2 DEF Known
<1>9. LastWaits' /\ Carried'
  BY <1>0, <1>1, <1>4, <1>5, <1>6 DEF Facts, LastWaits, Carried, Latest
<1>. QED  BY <1>7, <1>8, <1>9 DEF Facts

\* The cycle that Billing named, if any, is the next one.
LEMMA NextCycleTyped ==
    ASSUME TypeOK, NextCycleTold
    PROVE  enrollment' \in Enrollments
<1>1. tx.pc \in {"told", "licensed"} => tx.next \in Dates \cup {None}
  BY Kinds DEF TypeOK
<1>. QED  BY <1>1 DEF NextCycleTold, TypeOK, Enrollments

\* The transaction ends, and those that wait for an answer leave a request.
LEMMA Ends ==
    ASSUME TypeOK, Facts, UNCHANGED <<now, contract, decisions, notices, billing, licensing>>,
           enrollment' \in Enrollments, Event, wire' = wire \cup Awaited, tx' = Idle
    PROVE  TypeOK' /\ Facts'
<1>1. TypeOK'  BY AwaitedSays, Counted DEF TypeOK, Transactions
<1>2. Known'
  <2>1. Held'  BY DEF Facts, Known, Held
  <2>2. \A q \in wire \cup Awaited : Says(q)'  BY AwaitedSays DEF Facts, Known, Says
  <2>. QED  BY <2>1, <2>2 DEF Known
<1>3. LastWaits' /\ Carried'  BY DEF Facts, LastWaits, Carried, Delivering, Idle
<1>. QED  BY <1>1, <1>2, <1>3 DEF Facts

LEMMA FailuresKeep ==
    ASSUME TypeOK, Facts, DeliveryFails \/ CycleFails \/ Crash
    PROVE  TypeOK' /\ Facts'
<1>1. enrollment' \in Enrollments
  BY NextCycleTyped DEF DeliveryFails, CycleFails, Crash, TypeOK
<1>. QED  BY <1>1, Ends DEF DeliveryFails, CycleFails, Crash

\* Only what is delivered is settled, from told or licensed.
LEMMA Settles ==
    ASSUME TypeOK, Facts, Settle
    PROVE  /\ tx.pc \in {"told", "licensed"}
           /\ tx.version = Len(decisions) /\ tx.version \in DOMAIN decisions
           /\ \E s \in {"observed", "synced"} : decisions' = [decisions EXCEPT ![tx.version].status = s]
           /\ tx.pc = "told" => ~decisions[tx.version].deliverable
<1>1. PICK s \in Outcome : decisions' = [decisions EXCEPT ![tx.version].status = s]
  BY DEF Settle
<1>2. tx.pc \in {"told", "licensed"} /\ s \in {"observed", "synced"}
      /\ (tx.pc = "told" => ~decisions[tx.version].deliverable)
  BY <1>1 DEF Outcome
<1>3. tx.version = Len(decisions) /\ tx.version \in Nat \ {0}
  BY <1>2, Kinds DEF TypeOK, Facts, Carried, Delivering
<1>4. tx.version \in DOMAIN decisions
  <2>1. DOMAIN decisions = 1..Len(decisions)  BY DEF TypeOK
  <2>. QED  BY <1>3, <2>1
<1>. QED  BY <1>1, <1>2, <1>3, <1>4

LEMMA SettleKeeps == ASSUME TypeOK, Facts, Settle PROVE TypeOK' /\ Facts'
<1>0. UNCHANGED <<now, contract, notices, billing, licensing, wire, events>> /\ tx' = Idle
  BY DEF Settle
<1>1. PICK s \in {"observed", "synced"} : decisions' = [decisions EXCEPT ![tx.version].status = s]
  BY Settles
<1>2. /\ decisions' \in Seq(Decisions) /\ Len(decisions') = Len(decisions)
      /\ DOMAIN decisions' = DOMAIN decisions
      /\ \A w \in DOMAIN decisions :
           /\ decisions'[w].core = decisions[w].core
           /\ decisions'[w].status # "pending" \/ decisions'[w].status = decisions[w].status
  <2>1. tx.version \in DOMAIN decisions  BY Settles
  <2> DEFINE v == tx.version
  <2>2. v \in DOMAIN decisions /\ decisions' = [decisions EXCEPT ![v].status = s]  BY <1>1, <2>1
  <2> HIDE DEF v
  <2>3. s \in {"pending", "superseded", "observed", "synced"} /\ s # "pending"  OBVIOUS
  <2>4. /\ decisions' \in Seq(Decisions) /\ Len(decisions') = Len(decisions)
        /\ DOMAIN decisions' = DOMAIN decisions
        /\ \A w \in DOMAIN decisions :
             /\ decisions'[w].core = decisions[w].core
             /\ decisions'[w].status = IF w = v THEN s ELSE decisions[w].status
    BY <2>2, <2>3, StatusChanges
  <2>. QED  BY <2>3, <2>4
<1>3. DOMAIN decisions = 1..Len(decisions)  BY DEF TypeOK
<1>4. TypeOK'  BY <1>0, <1>2, NextCycleTyped DEF Settle, TypeOK, Transactions
<1>5. Held'  BY <1>0, <1>2, <1>3 DEF Facts, Known, Held
<1>6. \A r \in wire : Says(r)'  BY <1>2, <1>3 DEF Facts, Known, Says
<1>7. LastWaits' /\ Carried'
  BY <1>0, <1>2 DEF Facts, LastWaits, Carried, Delivering, Idle
<1>. QED  BY <1>0, <1>4, <1>5, <1>6, <1>7 DEF Facts, Known

LEMMA CycleAckedKeeps == ASSUME TypeOK, Facts, CycleAcked PROVE TypeOK' /\ Facts'
<1>0. UNCHANGED <<now, contract, decisions, notices, licensing, wire, events>> /\ tx' = Idle
  BY DEF CycleAcked
<1>1. PICK r \in Awaited :
        /\ billing' = Advanced(billing, r)
        /\ IF Recognised THEN NextCycleIs(Advanced(billing, r).next) ELSE UNCHANGED enrollment
  BY DEF CycleAcked
<1>2. r.expected \in Dates \cup {None} /\ r.renewal \in BOOLEAN
  <2>1. tx.expected \in Dates \cup {None}  BY Kinds DEF CycleAcked, TypeOK
  <2>2. \E b \in BOOLEAN : Awaited = {ToAdvance(tx.expected, b)}  BY DEF CycleAcked, Awaited
  <2>. QED  BY <1>1, <2>1, <2>2 DEF ToAdvance
<1>3. /\ billing' \in Situations /\ billing'.version = billing.version
      /\ billing'.recurrence = billing.recurrence
  BY <1>1, <1>2, AdvancedTyped DEF TypeOK
<1>4. enrollment' \in Enrollments
  <2>1. billing'.next \in Dates \cup {None}  BY <1>3 DEF Situations
  <2>2. CASE Recognised  BY <1>1, <2>1, <2>2 DEF NextCycleIs, TypeOK, Enrollments
  <2>3. CASE ~Recognised  BY <1>1, <2>3 DEF TypeOK
  <2>. QED  BY <2>2, <2>3
<1>5. TypeOK'  BY <1>0, <1>3, <1>4 DEF TypeOK, Transactions
<1>6. Known'  BY <1>0, <1>3 DEF Facts, Known, Held, Says
<1>7. LastWaits' /\ Carried'  BY <1>0 DEF Facts, LastWaits, Carried, Delivering, Idle
<1>. QED  BY <1>5, <1>6, <1>7 DEF Facts

\* A request nobody waits for is heard like the one it was, or as an old one.
LEMMA ArrivesKeeps == ASSUME TypeOK, Facts, Arrives PROVE TypeOK' /\ Facts'
<1>0. UNCHANGED <<now, contract, enrollment, decisions, notices, tx, events>>
  BY DEF Arrives
<1>1. PICK r \in wire :
        /\ wire' = wire \ {r}
        /\ billing' = CASE r.to = "billing" -> HeardBy(billing, r)
                        [] r.to = "cycle"   -> Advanced(billing, r)
                        [] OTHER            -> billing
        /\ licensing' = IF r.to = "licensing" THEN LicensedBy(licensing, r) ELSE licensing
  BY DEF Arrives
<1>2. Says(r) /\ r \in Requests  BY DEF Facts, Known, TypeOK
<1> DEFINE n == Len(decisions)
<1>3. n \in Nat /\ \A v \in 1..n : decisions[v].core \in Cores
  <2>1. n \in Nat /\ \A v \in 1..n : decisions[v] \in Decisions  BY DEF TypeOK
  <2>. QED  BY <2>1 DEF Decisions
<1>4. \A q \in wire' : Says(q)'  BY <1>0, <1>1 DEF Facts, Known, Says
<1>5. wire' \subseteq Requests  BY <1>1 DEF TypeOK
<1>6. billing \in Situations /\ billing.version \in Nat /\ now \in 0..Horizon
      /\ licensing \in [version : Nat, core : Cores \cup {Idle}] /\ licensing.version \in Nat
  BY DEF TypeOK, Situations
<1>7. LastWaits'  BY <1>0 DEF Facts, LastWaits
<1>8. Held /\ Carried  BY DEF Facts, Known
<1>9. CASE r.to = "billing"
  <2>1. billing' = HeardBy(billing, r) /\ licensing' = licensing  BY <1>1, <1>9
  <2>2. r.version \in 1..n /\ r.recurrence = decisions[r.version].core.recurrence
    BY <1>2, <1>9 DEF Says
  <2>3. /\ billing' \in Situations
        /\ r.version < billing.version => billing' = billing
        /\ r.version >= billing.version => /\ billing'.version = r.version
                                           /\ billing'.recurrence = r.recurrence
    BY <1>3, <1>6, <2>1, <2>2, HeardTyped
  <2>4. TypeOK'  BY <1>0, <1>5, <2>1, <2>3 DEF TypeOK
  <2>5. Held'  BY <1>0, <1>3, <1>6, <1>8, <2>1, <2>2, <2>3 DEF Held
  <2>6. Carried'  BY <1>0, <1>3, <1>6, <1>8, <2>1, <2>2, <2>3 DEF Carried, Delivering, Latest
  <2>. QED  BY <1>4, <1>7, <2>4, <2>5, <2>6 DEF Facts, Known
<1>10. CASE r.to = "licensing"
  <2>1. licensing' = LicensedBy(licensing, r) /\ billing' = billing  BY <1>1, <1>10
  <2>2. r.version \in 1..n /\ r.core = decisions[r.version].core
    BY <1>2, <1>10 DEF Says
  <2>3. /\ licensing' \in [version : Nat, core : Cores \cup {Idle}]
        /\ r.version < licensing.version => licensing' = licensing
        /\ r.version >= licensing.version => licensing' = [version |-> r.version, core |-> r.core]
    BY <1>3, <1>6, <2>1, <2>2, LicensedTyped
  <2>4. TypeOK'  BY <1>0, <1>5, <2>1, <2>3 DEF TypeOK
  <2>5. Held'  BY <1>0, <1>3, <1>6, <1>8, <2>1, <2>2, <2>3 DEF Held
  <2>6. Carried'  BY <1>0, <1>3, <1>6, <1>8, <2>1, <2>2, <2>3 DEF Carried, Delivering, Latest
  <2>. QED  BY <1>4, <1>7, <2>4, <2>5, <2>6 DEF Facts, Known
<1>11. CASE r.to = "cycle"
  <2>1. billing' = Advanced(billing, r) /\ licensing' = licensing  BY <1>1, <1>11
  <2>2. r.expected \in Dates \cup {None} /\ r.renewal \in BOOLEAN
    BY <1>2, <1>11 DEF Requests
  <2>3. /\ billing' \in Situations /\ billing'.version = billing.version
        /\ billing'.recurrence = billing.recurrence
    BY <1>6, <2>1, <2>2, AdvancedTyped
  <2>4. TypeOK'  BY <1>0, <1>5, <2>1, <2>3 DEF TypeOK
  <2>5. Held'  BY <1>0, <1>8, <2>1, <2>3 DEF Held
  <2>6. Carried'  BY <1>0, <1>8, <2>1, <2>3 DEF Carried, Delivering, Latest
  <2>. QED  BY <1>4, <1>7, <2>4, <2>5, <2>6 DEF Facts, Known
<1>12. r.to \in {"billing", "licensing", "cycle"}  BY <1>2 DEF Requests
<1>. QED  BY <1>9, <1>10, <1>11, <1>12

\* Every step is one of these.
LEMMA Steps ==
    ASSUME Next
    PROVE  \/ \/ \E first \in {now, now + 1} : Enroll(first)
              \/ \E enabled \in BOOLEAN : SetEnabled(enabled)
              \/ \E policy \in {"pause", "continue"} : SetPolicy(policy)
              \/ \E revision \in {"courtesy", "unconfirmed"} : TakesEffect(revision)
              \/ \E day \in {now, now + 1} : RecordTermination(day)
              \/ Terminates \/ Tick
           \/ FallsOverdue \/ Pays \/ RenewalRequired \/ CourtesyEnds \/ Confirms
           \/ Advance \/ Renew
           \/ Decide \/ Deliver \/ BillingAcks \/ LicensingAcks \/ Settle
           \/ DeliveryFails \/ CycleFails \/ Crash
           \/ CycleAcked \/ Arrives
BY DEF Next, TimerDecides, Deliveries, Cycles, TimerAdvances, Operators, Elsewhere

LEMMA NextFacts == ASSUME TypeOK, Facts, Next PROVE TypeOK' /\ Facts'
BY Steps, OperatorsKeep, BillingKeeps, AsksKeep, DecideKeeps, DeliverKeeps, BillingAcksKeeps,
   LicensingAcksKeeps, SettleKeeps, FailuresKeep, CycleAckedKeeps, ArrivesKeeps

LEMMA StutterFacts == ASSUME TypeOK, Facts, UNCHANGED vars PROVE TypeOK' /\ Facts'
<1>1. TypeOK'  BY DEF vars, TypeOK
<1>2. Facts'  BY Elsewhere1 DEF vars
<1>. QED  BY <1>1, <1>2

LEMMA Invariance == Spec => [](TypeOK /\ Facts)
<1>1. TypeOK /\ Facts /\ [Next]_vars => (TypeOK /\ Facts)'  BY NextFacts, StutterFacts
<1>. QED  BY InitFacts, <1>1, PTL DEF Spec

\* Every variable keeps its type, through late requests, crashes and renewals.
THEOREM TypeCorrect == Spec => []TypeOK
BY Invariance, PTL

\* A number means the same decision wherever it is held or on its way.
THEOREM OneMeaning == Spec => []OneMeaningPerVersion
<1>1. ASSUME TypeOK, Facts PROVE OneMeaningPerVersion
  <2>1. \A r \in wire \cup Awaited : Says(r)  BY <1>1, AwaitedSays DEF Facts, Known
  <2>. QED  BY <1>1, <2>1 DEF OneMeaningPerVersion, Says, Facts, Known, Held
<1>. QED  BY Invariance, <1>1, PTL

-------------------------------------------------------------------------------
\* Whoever asks for a cycle read the conditions under the lock and keeps it;
\* what changes them waits for the lock.
LEMMA NextAllowed ==
    ASSUME TypeOK, Facts, CyclesAllowed, Next
    PROVE  CyclesAllowed'
<1>1. CASE Advance
  <2>1. tx' = [pc |-> "advancing", expected |-> enrollment.next] /\ Billable
        /\ contract.revision = "paid" /\ UNCHANGED <<contract, enrollment, decisions>>
    BY <1>1 DEF Advance
  <2>2. \A v \in DOMAIN decisions : v = Len(decisions) => decisions[v].core.recurrence = "active"
    <3>1. decisions = <<>> => DOMAIN decisions = {}  OBVIOUS
    <3>. QED  BY <2>1, <3>1 DEF Billable, NotStopped, Latest
  <2>3. MayHave(enrollment.next)'
    BY <2>1, <2>2 DEF MayHave, Billable, Active, BeforeTerm
  <2>. QED  BY <2>1, <2>3 DEF CyclesAllowed, MayHave
<1>2. CASE Renew
  BY <1>2 DEF Renew, Renewable, Active, CyclesAllowed
<1>3. CASE tx'.pc \notin {"advancing", "renewing"}
  BY <1>3 DEF CyclesAllowed
<1>4. CASE UNCHANGED <<tx, contract, enrollment, decisions>>
  BY <1>4 DEF CyclesAllowed, MayHave, Active
<1>5. CASE Confirms \/ \E revision \in {"courtesy", "unconfirmed"} : TakesEffect(revision)
  <2>1. UNCHANGED <<tx, enrollment, decisions>>  BY <1>5 DEF Confirms, TakesEffect
  <2>2. contract'.status = contract.status /\ contract'.term = contract.term
    BY <1>5 DEF Confirms, TakesEffect, TypeOK, Contracts
  <2>. QED  BY <2>1, <2>2 DEF CyclesAllowed, MayHave, Active
<1>6. ASSUME NEW v, Drop(v) \/ Post(v), Free PROVE tx'.pc \notin {"advancing", "renewing"}
  BY <1>6 DEF Drop, Post, Free, Idle
<1>7. LicensingAcks => tx'.pc = "licensed"
  <2>1. LicensingAcks => tx \in [pc : {"told", "licensed"}, version : Nat \ {0}, core : Cores,
                                 next : Dates \cup {None}]
    BY Kinds DEF TypeOK, LicensingAcks
  <2>. QED  BY <2>1 DEF LicensingAcks
<1>8. \/ Advance \/ Renew \/ Confirms
      \/ \E revision \in {"courtesy", "unconfirmed"} : TakesEffect(revision)
      \/ tx'.pc \notin {"advancing", "renewing"}
      \/ UNCHANGED <<tx, contract, enrollment, decisions>>
  BY Steps, <1>6, <1>7
     DEF Enroll, SetEnabled, SetPolicy, RecordTermination, Terminates, Tick,
         EnrollmentOnly, FallsOverdue, Pays, RenewalRequired, CourtesyEnds, BillingOnly, Decide,
         Deliver, BillingAcks, Settle, DeliveryFails, CycleFails, Crash, CycleAcked,
         Arrives, Free, Idle
<1>. QED  BY <1>1, <1>2, <1>3, <1>4, <1>5, <1>8

\* No cycle is asked for that the contract may not have.
THEOREM OnlyAllowedCycles == Spec => []CyclesAllowed
<1>1. Init => CyclesAllowed  BY DEF Init, CyclesAllowed, Idle
<1>2. TypeOK /\ Facts /\ CyclesAllowed /\ [Next]_vars => CyclesAllowed'
  BY NextAllowed DEF vars, CyclesAllowed, MayHave, Active
<1>. QED  BY Invariance, <1>1, <1>2, PTL DEF Spec

-------------------------------------------------------------------------------
\* No notice is recorded before there is a decision.
Silent == decisions = <<>> => notices = <<>>

LEMMA DecideTells ==
    ASSUME TypeOK, Silent, NoticesFollow, Decide
    PROVE  Silent' /\ NoticesFollow'
<1> DEFINE n == Len(decisions)
           c == CurrentCore
           k == Len(notices)
<1>1. /\ decisions' = Recorded(c) /\ notices' = Notified(c) /\ n \in Nat /\ k \in Nat
      /\ notices \in Seq(AccessStates) /\ decisions \in Seq(Decisions)
  BY DEF Decide, TypeOK
<1>2. Len(decisions') = n + 1 /\ decisions'[n + 1].core = c /\ decisions' # <<>>
      /\ c.access \in AccessStates /\ Latest'.core = c
  <2>1. Len(Recorded(c)) = n + 1 /\ Recorded(c)[n + 1].core = c /\ c \in Cores  BY Recording
  <2>2. Len(<<>>) = 0  OBVIOUS
  <2>. QED  BY <1>1, <2>1, <2>2 DEF Latest, Cores
<1>3. Silent'  BY <1>2 DEF Silent
<1>4. SUFFICES ASSUME Enforced PROVE NoticesFollow'
  BY <1>3 DEF NoticesFollow
<1>5. c.access = "healthy" => c.overdue = None
  BY <1>4, HealthyPays DEF CurrentCore, TypeOK
<1> DEFINE before == IF decisions = <<>> THEN "none" ELSE Latest.core.access
           said == IF notices = <<>> THEN "healthy" ELSE Last(notices)
<1>6. (decisions # <<>> => said = before) /\ \A i \in 1..(k - 1) : notices[i] # notices[i + 1]
  BY <1>4 DEF NoticesFollow
<1>7. EnforcedFor(c)  BY <1>4 DEF EnforcedFor
<1>8. CASE notices' = Append(notices, c.access)
  <2>1. before # c.access
    <3>1. before = c.access => notices' = notices  BY <1>1 DEF Notified
    <3>2. Append(notices, c.access) # notices  BY <1>1, <1>2
    <3>. QED  BY <1>8, <3>1, <3>2
  <2>2. /\ Len(notices') = k + 1 /\ notices'[k + 1] = c.access
        /\ \A i \in 1..k : notices'[i] = notices[i]
    BY <1>1, <1>2, <1>8
  <2>3. notices' # <<>> /\ Last(notices') = c.access  BY <1>1, <2>2 DEF Last
  <2>4. k > 0 => notices[k] # c.access
    <3>1. k > 0 => notices # <<>>  OBVIOUS
    <3>2. k > 0 => notices[k] = before  BY <3>1, <1>6 DEF Silent, Last
    <3>. QED  BY <2>1, <3>2
  <2>5. \A i \in 1..(Len(notices') - 1) : notices'[i] # notices'[i + 1]
    <3>. SUFFICES ASSUME NEW i \in 1..k PROVE notices'[i] # notices'[i + 1]
      BY <1>1, <2>2
    <3>1. CASE i = k  BY <1>1, <2>2, <2>4, <3>1
    <3>2. CASE i < k  BY <1>1, <1>6, <2>2, <3>2
    <3>. QED  BY <1>1, <3>1, <3>2
  <2>. QED  BY <1>2, <2>3, <2>5 DEF NoticesFollow
<1>9. CASE notices' = notices /\ notices' # Append(notices, c.access)
  <2>1. before = c.access \/ (c.access = "healthy" /\ before \in {"none", "healthy"})
    BY <1>1, <1>5, <1>7, <1>9 DEF Notified
  <2>2. said = c.access
    <3>1. ASSUME decisions # <<>> PROVE said = c.access
      <4>1. n \in DOMAIN decisions  BY <1>1, <3>1
      <4>2. Latest \in Decisions  BY <1>1, <4>1 DEF Latest
      <4>3. Latest.core.access \in AccessStates  BY <4>2 DEF Decisions, Cores
      <4>. QED  BY <1>6, <2>1, <3>1, <4>3 DEF AccessStates
    <3>2. decisions = <<>> => said = c.access
      BY <2>1, <1>2 DEF Silent, AccessStates
    <3>. QED  BY <3>1, <3>2
  <2>. QED  BY <1>2, <1>6, <1>9, <2>2 DEF NoticesFollow
<1>10. notices' \in {notices, Append(notices, c.access)}  BY <1>1 DEF Notified
<1>. QED  BY <1>8, <1>9, <1>10

\* What the decisions say and how many there are changes only by a decision.
LEMMA StatusOnly ==
    ASSUME TypeOK, Facts, [Next]_vars, ~Decide
    PROVE  /\ Len(decisions') = Len(decisions) /\ notices' = notices
           /\ decisions' \in Seq(Decisions)
           /\ \A v \in 1..Len(decisions) :
                /\ decisions'[v].core = decisions[v].core
                /\ decisions'[v].deliverable = decisions[v].deliverable
<1>0. decisions \in Seq(Decisions) /\ DOMAIN decisions = 1..Len(decisions)  BY DEF TypeOK
<1>1. CASE UNCHANGED <<decisions, notices>>  BY <1>0, <1>1
<1>2. CASE Settle
  <2>1. notices' = notices  BY <1>2 DEF Settle
  <2>2. PICK s \in {"observed", "synced"} :
          decisions' = [decisions EXCEPT ![tx.version].status = s]
    BY <1>2, Settles
  <2> DEFINE v == tx.version
  <2>3. v \in DOMAIN decisions /\ decisions' = [decisions EXCEPT ![v].status = s]
    BY <1>2, <2>2, Settles
  <2>4. s \in {"pending", "superseded", "observed", "synced"}  OBVIOUS
  <2> HIDE DEF v
  <2>. QED  BY <1>0, <2>1, <2>3, <2>4, StatusChanges
<1>3. CASE Deliver
  <2>1. notices' = notices  BY <1>3 DEF Deliver
  <2>2. PICK v \in Pending : Drop(v) \/ Post(v)  BY <1>3 DEF Deliver
  <2>3. v \in DOMAIN decisions  BY DEF Pending
  <2>4. CASE Drop(v)
    BY <1>0, <2>1, <2>3, <2>4, StatusChanges DEF Drop
  <2>5. CASE Post(v)  BY <1>1, <2>1, <2>5 DEF Post
  <2>. QED  BY <2>2, <2>4, <2>5
<1>4. UNCHANGED <<decisions, notices>> \/ Settle \/ Deliver
  BY Steps
     DEF vars, Enroll, SetEnabled, SetPolicy, TakesEffect, RecordTermination, Terminates, Tick,
         EnrollmentOnly, FallsOverdue, Pays, RenewalRequired, CourtesyEnds, BillingOnly, Confirms,
         Advance, Renew, BillingAcks, LicensingAcks, DeliveryFails, CycleFails, Crash, CycleAcked,
         Arrives
<1>. QED  BY <1>1, <1>2, <1>3, <1>4

LEMMA OthersTell ==
    ASSUME TypeOK, Facts, Silent, NoticesFollow, [Next]_vars, ~Decide
    PROVE  Silent' /\ NoticesFollow'
<1>1. /\ Len(decisions') = Len(decisions) /\ notices' = notices /\ Len(decisions) \in Nat
      /\ decisions' \in Seq(Decisions) /\ decisions \in Seq(Decisions)
      /\ \A v \in 1..Len(decisions) : decisions'[v].core = decisions[v].core
  BY StatusOnly DEF TypeOK
<1>2. decisions' = <<>> <=> decisions = <<>>
  BY <1>1, EmptySeq
<1>3. decisions # <<>> => Latest'.core = Latest.core
  BY <1>1 DEF Latest
<1>. QED  BY <1>1, <1>2, <1>3 DEF Silent, NoticesFollow

\* With suspension in force, the notice recorded last is about the access of the
\* last decision, and no two in a row are about the same.
THEOREM NoticesAreRecorded == Spec => []NoticesFollow
<1>1. ASSUME Init PROVE Silent /\ NoticesFollow
  <2>1. notices = <<>> /\ Len(notices) = 0 /\ now = 0  BY <1>1 DEF Init
  <2>2. ASSUME decisions # <<>> PROVE Latest.core.access = "healthy"
    <3>1. Established  BY <1>1, <2>2 DEF Init, Fresh
    <3>2. Latest.core = Core(billing, "pause", 0) /\ billing.courtesy = "none"
          /\ ~billing.renewal /\ billing.overdue = None
      BY <3>1 DEF Established, Latest
    <3>. QED
      BY <3>2 DEF Core, EffectiveState, PolicyState, DebtState, OverdueSince
  <2>. QED  BY <2>1, <2>2 DEF Silent, NoticesFollow
<1>2. TypeOK /\ Facts /\ Silent /\ NoticesFollow /\ [Next]_vars => (Silent /\ NoticesFollow)'
  BY DecideTells, OthersTell
<1>. QED  BY Invariance, <1>1, <1>2, PTL DEF Spec

-------------------------------------------------------------------------------
\* What the register sees of the state.
Meant == [v \in DOMAIN decisions |->
            IF decisions[v].deliverable THEN Receivers ELSE {"billing"}]
HeldBy == [r \in Receivers |-> IF r = "billing" THEN billing.version ELSE licensing.version]
Settled == {v \in DOMAIN decisions : decisions[v].status \in {"observed", "synced"}}

LEMMA Same ==
    ASSUME Len(decisions') = Len(decisions), Meant' = Meant, HeldBy' = HeldBy,
           Settled' = Settled
    PROVE  [Register!Next]_(Register!vars)
BY DEF Register!vars, Meant, HeldBy, Settled

LEMMA MeantKept ==
    ASSUME TypeOK, Facts, [Next]_vars, ~Decide
    PROVE  /\ Len(decisions') = Len(decisions) /\ Meant' = Meant
           /\ DOMAIN decisions' = DOMAIN decisions
<1>1. /\ Len(decisions') = Len(decisions)
      /\ DOMAIN decisions' = 1..Len(decisions') /\ DOMAIN decisions = 1..Len(decisions)
      /\ \A v \in 1..Len(decisions) : decisions'[v].deliverable = decisions[v].deliverable
  BY StatusOnly DEF TypeOK
<1>. QED  BY <1>1 DEF Meant

\* A receiver that gets to a decision.
LEMMA Receives ==
    ASSUME TypeOK, NEW r \in Receivers, NEW v \in 1..Len(decisions), v >= HeldBy[r],
           HeldBy' = [HeldBy EXCEPT ![r] = v], decisions' = decisions
    PROVE  [Register!Next]_(Register!vars)
<1>1. Register!Receive
  BY DEF Register!Receive, Meant, HeldBy, Settled
<1>. QED  BY <1>1 DEF Register!Next

LEMMA BillingGets ==
    ASSUME TypeOK, Facts, NEW v \in 1..Len(decisions), decisions' = decisions, licensing' = licensing,
           v < billing.version => billing' = billing,
           v >= billing.version => billing'.version = v
    PROVE  [Register!Next]_(Register!vars)
<1>1. billing.version \in Nat /\ "billing" \in Receivers  BY DEF TypeOK, Situations, Receivers
<1>2. CASE v < billing.version
  BY <1>2, Same DEF Meant, HeldBy, Settled
<1>3. CASE v >= billing.version
  <2>1. HeldBy' = [HeldBy EXCEPT !["billing"] = v]  BY <1>3 DEF HeldBy
  <2>2. v >= HeldBy["billing"]  BY <1>1, <1>3 DEF HeldBy
  <2>. QED  BY <1>1, <2>1, <2>2, Receives
<1>. QED  BY <1>1, <1>2, <1>3

LEMMA LicensingGets ==
    ASSUME TypeOK, Facts, NEW v \in 1..Len(decisions), decisions' = decisions, billing' = billing,
           v < licensing.version => licensing' = licensing,
           v >= licensing.version => licensing'.version = v
    PROVE  [Register!Next]_(Register!vars)
<1>1. licensing.version \in Nat /\ "licensing" \in Receivers  BY DEF TypeOK, Receivers
<1>2. CASE v < licensing.version
  BY <1>2, Same DEF Meant, HeldBy, Settled
<1>3. CASE v >= licensing.version
  <2>1. HeldBy' = [HeldBy EXCEPT !["licensing"] = v]  BY <1>3 DEF HeldBy, Receivers
  <2>2. v >= HeldBy["licensing"]  BY <1>1, <1>3 DEF HeldBy
  <2>. QED  BY <1>1, <2>1, <2>2, Receives
<1>. QED  BY <1>1, <1>2, <1>3

\* A decision that is recorded leaves those that were settled settled.
LEMMA DecideMaps == ASSUME TypeOK, Facts, Decide PROVE [Register!Next]_(Register!vars)
<1> DEFINE n == Len(decisions)
<1>1. /\ n \in Nat /\ Len(decisions') = n + 1 /\ decisions' \in Seq(Decisions)
      /\ DOMAIN decisions = 1..n /\ DOMAIN decisions' = 1..(n + 1)
      /\ \A v \in 1..n :
           /\ decisions'[v].deliverable = decisions[v].deliverable
           /\ decisions'[v].status = IF decisions[v].status = "pending"
                                     THEN "superseded" ELSE decisions[v].status
      /\ decisions'[n + 1].status = "pending"
  BY Recording DEF Decide, TypeOK
<1> DEFINE to == IF decisions'[n + 1].deliverable THEN Receivers ELSE {"billing"}
<1>2. to \in SUBSET Receivers  BY DEF Receivers
<1>3. Meant' = [v \in 1..(n + 1) |-> IF v <= n THEN Meant[v] ELSE to]
  <2>1. \A v \in 1..n : Meant[v] = IF decisions[v].deliverable THEN Receivers ELSE {"billing"}
    BY <1>1 DEF Meant
  <2>. QED  BY <1>1, <2>1 DEF Meant, Receivers
<1>4. Settled' = Settled  BY <1>1 DEF Settled
<1>5. HeldBy' = HeldBy  BY DEF Decide, HeldBy, Receivers
<1> HIDE DEF to
<1>6. Register!Decide
  BY <1>1, <1>2, <1>3, <1>4, <1>5 DEF Register!Decide, Meant, HeldBy, Settled
<1>. QED  BY <1>6 DEF Register!Next

\* The decision that is settled is the last, and all it is meant for hold it.
LEMMA SettleMaps == ASSUME TypeOK, Facts, Settle PROVE [Register!Next]_(Register!vars)
<1>0. ~Decide /\ tx.pc \in {"told", "licensed"} /\ tx.version = Len(decisions)
      /\ (tx.pc = "told" => ~decisions[tx.version].deliverable)
  BY Settles DEF Decide, Free, Idle
<1>1. Len(decisions') = Len(decisions) /\ Meant' = Meant /\ DOMAIN decisions' = DOMAIN decisions
  BY <1>0, MeantKept DEF Next, Deliveries
<1>2. PICK s \in {"observed", "synced"} : decisions' = [decisions EXCEPT ![tx.version].status = s]
  BY Settles
<1> DEFINE v == tx.version
<1>3. v \in DOMAIN decisions /\ decisions' = [decisions EXCEPT ![v].status = s]
      /\ v = Len(decisions) /\ v \in Nat /\ v > 0
  BY <1>0, <1>2, Settles DEF TypeOK
<1>4. s \in {"pending", "superseded", "observed", "synced"}  OBVIOUS
<1> HIDE DEF v
<1>5. \A w \in DOMAIN decisions :
        decisions'[w].status = IF w = v THEN s ELSE decisions[w].status
  BY <1>3, <1>4, StatusChanges
<1>6. Settled' = Settled \cup {v}  BY <1>1, <1>3, <1>5 DEF Settled
<1>7. HeldBy' = HeldBy  BY DEF Settle, HeldBy
<1>8. \A r \in Meant[v] : HeldBy[r] = v
  <2>1. billing.version = v /\ (tx.pc = "licensed" => licensing.version = v)
    BY <1>0 DEF Facts, Carried, v
  <2>2. ~decisions[v].deliverable => Meant[v] = {"billing"}  BY <1>3 DEF Meant
  <2>3. Meant[v] \subseteq Receivers  BY <1>3 DEF Meant, Receivers
  <2>4. tx.pc = "licensed" \/ ~decisions[v].deliverable  BY <1>0 DEF v
  <2>. QED  BY <2>1, <2>2, <2>3, <2>4 DEF HeldBy, Receivers
<1>9. Register!Settle
  BY <1>1, <1>3, <1>6, <1>7, <1>8 DEF Register!Settle, Meant, HeldBy, Settled
<1>. QED  BY <1>9 DEF Register!Next

LEMMA StepMaps ==
    ASSUME TypeOK, Facts, [Next]_vars
    PROVE  [Register!Next]_(Register!vars)
<1>1. CASE Decide  BY <1>1, DecideMaps
<1>2. CASE Settle  BY <1>2, SettleMaps
<1>3. CASE BillingAcks
  <2>1. tx \in [pc : {"posting"}, version : Nat \ {0}, core : Cores]
        /\ tx.version = Len(decisions)
    BY <1>3, Kinds DEF BillingAcks, TypeOK, Facts, Carried, Delivering
  <2> DEFINE r == ToBilling(tx.version, tx.core)
             v == tx.version
  <2>2. v \in 1..Len(decisions) /\ v \in Nat /\ tx.core \in Cores
        /\ r.version = v /\ r.recurrence = tx.core.recurrence
    BY <2>1 DEF ToBilling
  <2>3. billing \in Situations /\ now \in 0..Horizon /\ billing' = HeardBy(billing, r)
        /\ decisions' = decisions /\ licensing' = licensing
    BY <1>3 DEF BillingAcks, TypeOK
  <2> HIDE DEF r, v
  <2>4. /\ v < billing.version => billing' = billing
        /\ v >= billing.version => billing'.version = v
    BY <2>2, <2>3, HeardTyped
  <2>. QED  BY <2>2, <2>3, <2>4, BillingGets
<1>4. CASE LicensingAcks
  <2>1. tx.version \in Nat \ {0} /\ tx.core \in Cores /\ tx.version = Len(decisions)
    BY <1>4, Kinds DEF LicensingAcks, TypeOK, Facts, Carried, Delivering
  <2> DEFINE r == ToLicensing(tx.version, tx.core)
             v == tx.version
  <2>2. v \in 1..Len(decisions) /\ v \in Nat /\ r.version = v /\ r.core = tx.core
    BY <2>1 DEF ToLicensing
  <2>3. licensing \in [version : Nat, core : Cores \cup {Idle}] /\ licensing' = LicensedBy(licensing, r)
        /\ decisions' = decisions /\ billing' = billing
    BY <1>4 DEF LicensingAcks, TypeOK
  <2> HIDE DEF r, v
  <2>4. /\ v < licensing.version => licensing' = licensing
        /\ v >= licensing.version => licensing'.version = v
    <3>1. tx.core \in Cores  BY <2>1
    <3>2. v < licensing.version => LicensedBy(licensing, r) = licensing
      BY <2>2, <2>3, <3>1, LicensedTyped
    <3>3. v >= licensing.version => LicensedBy(licensing, r) = [version |-> v, core |-> tx.core]
      BY <2>2, <2>3, <3>1, LicensedTyped
    <3>. QED  BY <2>3, <3>2, <3>3
  <2>. QED  BY <2>2, <2>3, <2>4, LicensingGets
<1>5. CASE Arrives
  <2>0. decisions' = decisions  BY <1>5 DEF Arrives
  <2>1. PICK r \in wire :
          /\ billing' = CASE r.to = "billing" -> HeardBy(billing, r)
                          [] r.to = "cycle"   -> Advanced(billing, r)
                          [] OTHER            -> billing
          /\ licensing' = IF r.to = "licensing" THEN LicensedBy(licensing, r) ELSE licensing
    BY <1>5 DEF Arrives
  <2>2. Says(r) /\ r \in Requests  BY DEF Facts, Known, TypeOK
  <2>3. \A v \in 1..Len(decisions) : decisions[v].core \in Cores /\ v \in Nat
    <3>1. \A v \in 1..Len(decisions) : decisions[v] \in Decisions /\ v \in Nat  BY DEF TypeOK
    <3>. QED  BY <3>1 DEF Decisions
  <2>4. billing \in Situations /\ now \in 0..Horizon
        /\ licensing \in [version : Nat, core : Cores \cup {Idle}]
    BY DEF TypeOK
  <2>5. CASE r.to = "billing"
    <3>1. r.version \in 1..Len(decisions)
          /\ r.recurrence = decisions[r.version].core.recurrence
      BY <2>2, <2>5 DEF Says
    <3>2. /\ r.version < billing.version => billing' = billing
          /\ r.version >= billing.version => billing'.version = r.version
      BY <2>1, <2>3, <2>4, <2>5, <3>1, HeardTyped
    <3>3. licensing' = licensing  BY <2>1, <2>5
    <3>. QED  BY <2>0, <3>1, <3>2, <3>3, BillingGets
  <2>6. CASE r.to = "licensing"
    <3>1. r.version \in 1..Len(decisions) /\ r.core = decisions[r.version].core
      BY <2>2, <2>6 DEF Says
    <3>2. /\ r.version < licensing.version => licensing' = licensing
          /\ r.version >= licensing.version => licensing'.version = r.version
      BY <2>1, <2>3, <2>4, <2>6, <3>1, LicensedTyped
    <3>3. billing' = billing  BY <2>1, <2>6
    <3>. QED  BY <2>0, <3>1, <3>2, <3>3, LicensingGets
  <2>7. CASE r.to = "cycle"
    <3>1. r.expected \in Dates \cup {None} /\ r.renewal \in BOOLEAN
      BY <2>2, <2>7 DEF Requests
    <3>2. billing'.version = billing.version /\ licensing' = licensing
      BY <2>1, <2>4, <2>7, <3>1, AdvancedTyped
    <3>. QED  BY <2>0, <3>2, Same DEF Meant, HeldBy, Settled
  <2>. QED  BY <2>2, <2>5, <2>6, <2>7 DEF Requests
<1>6. CASE CycleAcked
  <2>1. PICK r \in Awaited : billing' = Advanced(billing, r)  BY <1>6 DEF CycleAcked
  <2>2. r.expected \in Dates \cup {None} /\ r.renewal \in BOOLEAN
    <3>1. tx.expected \in Dates \cup {None}  BY <1>6, Kinds DEF CycleAcked, TypeOK
    <3>2. \E b \in BOOLEAN : Awaited = {ToAdvance(tx.expected, b)}
      BY <1>6 DEF CycleAcked, Awaited
    <3>. QED  BY <2>1, <3>1, <3>2 DEF ToAdvance
  <2>3. billing'.version = billing.version  BY <2>1, <2>2, AdvancedTyped DEF TypeOK
  <2>. QED  BY <1>6, <2>3, Same DEF CycleAcked, Meant, HeldBy, Settled
<1>7. CASE Deliver
  <2>1. UNCHANGED <<billing, licensing>>  BY <1>7 DEF Deliver
  <2>2. PICK v \in Pending : Drop(v) \/ Post(v)  BY <1>7 DEF Deliver
  <2>3. v \in DOMAIN decisions /\ decisions[v].status = "pending"  BY DEF Pending
  <2>4. CASE Post(v)  BY <1>7, <2>4, Same DEF Deliver, Post, Meant, HeldBy, Settled
  <2>5. CASE Drop(v)
    <3>1. decisions' = [decisions EXCEPT ![v].status = "superseded"]  BY <2>5 DEF Drop
    <3>2. DOMAIN decisions' = DOMAIN decisions
          /\ \A w \in DOMAIN decisions :
               decisions'[w].status = IF w = v THEN "superseded" ELSE decisions[w].status
      BY <2>3, <3>1, StatusChanges
    <3>3. Settled' = Settled  BY <2>3, <3>2 DEF Settled
    <3>4. HeldBy' = HeldBy  BY <1>7 DEF Deliver, HeldBy
    <3>. QED  BY <1>1, <3>3, <3>4, MeantKept, Same
  <2>. QED  BY <2>2, <2>4, <2>5
<1>8. CASE \/ UNCHANGED vars
           \/ /\ decisions' = decisions /\ licensing' = licensing
              /\ billing'.version = billing.version
  BY <1>8, Same DEF vars, Meant, HeldBy, Settled
<1>9. FallsOverdue \/ Pays \/ RenewalRequired \/ CourtesyEnds \/ Confirms =>
        /\ decisions' = decisions /\ licensing' = licensing
        /\ billing'.version = billing.version
  BY DEF TypeOK, Situations, FallsOverdue, Pays, RenewalRequired, CourtesyEnds, Confirms,
         BillingOnly
<1>10. \/ Decide \/ Settle \/ BillingAcks \/ LicensingAcks \/ Arrives \/ CycleAcked \/ Deliver
       \/ UNCHANGED vars
       \/ /\ decisions' = decisions /\ licensing' = licensing
          /\ billing'.version = billing.version
  BY <1>9, Steps
     DEF Enroll, SetEnabled, SetPolicy, TakesEffect, RecordTermination, Terminates, Tick,
         EnrollmentOnly, Advance, Renew, DeliveryFails, CycleFails, Crash
<1>. QED  BY <1>1, <1>2, <1>3, <1>4, <1>5, <1>6, <1>7, <1>8, <1>10

\* The delivery of decisions, with its locks, retries, crashes and late
\* requests, implements the register.
THEOREM Implements == Spec => ImplementsRegister
<1>1. ASSUME Init PROVE Register!Init
  <2>1. CASE Fresh
    <3>1. DOMAIN decisions = {} /\ Len(decisions) = 0 /\ 1..0 = {}  BY <2>1 DEF Fresh
    <3>2. Meant \in [1..0 -> SUBSET Receivers] /\ Settled = 1..0
      BY <3>1 DEF Meant, Settled
    <3>3. HeldBy = [r \in Receivers |-> 0]  BY <2>1 DEF Fresh, HeldBy
    <3>. QED  BY <3>1, <3>2, <3>3 DEF Register!Init, Meant, HeldBy, Settled
  <2>2. CASE Established
    <3>1. DOMAIN decisions = {1} /\ Len(decisions) = 1 /\ 1..1 = {1}
          /\ decisions[1].status = "synced"
      BY <2>2 DEF Established
    <3>2. Meant \in [1..1 -> SUBSET Receivers] /\ Settled = 1..1
      BY <3>1 DEF Meant, Settled, Receivers
    <3>3. HeldBy = [r \in Receivers |-> 1]  BY <2>2 DEF Established, HeldBy
    <3>. QED  BY <3>1, <3>2, <3>3 DEF Register!Init, Meant, HeldBy, Settled
  <2>. QED  BY <1>1, <2>1, <2>2 DEF Init
<1>2. TypeOK /\ Facts /\ [Next]_vars => [Register!Next]_(Register!vars)  BY StepMaps
<1>. QED  BY Invariance, <1>1, <1>2, PTL DEF Spec, ImplementsRegister, Register!Spec

\* The register, whoever keeps it, never settles what somebody misses.
RegisterFits ==
    /\ Len(decisions) \in Nat
    /\ Meant \in [1..Len(decisions) -> SUBSET Receivers]
    /\ HeldBy \in [Receivers -> Nat]
    /\ Settled \subseteq 1..Len(decisions)
    /\ Register!SettledIsHeld

LEMMA RegisterKeeps ==
    ASSUME RegisterFits, [Register!Next]_(Register!vars)
    PROVE  RegisterFits'
<1> DEFINE n == Len(decisions)
           n1 == Len(decisions')
<1>0. /\ n \in Nat /\ Meant \in [1..n -> SUBSET Receivers] /\ HeldBy \in [Receivers -> Nat]
      /\ Settled \subseteq 1..n
      /\ \A v \in Settled : \A r \in Meant[v] : HeldBy[r] >= v
  BY DEF RegisterFits, Register!SettledIsHeld, Meant, HeldBy, Settled
<1>1. SUFFICES /\ n1 \in Nat /\ Meant' \in [1..n1 -> SUBSET Receivers]
               /\ HeldBy' \in [Receivers -> Nat] /\ Settled' \subseteq 1..n1
               /\ \A v \in Settled' : \A r \in Meant'[v] : HeldBy'[r] >= v
  BY DEF RegisterFits, Register!SettledIsHeld, Meant, HeldBy, Settled
<1>2. CASE UNCHANGED Register!vars
  <2>1. n1 = n /\ Meant' = Meant /\ HeldBy' = HeldBy /\ Settled' = Settled
    BY <1>2 DEF Register!vars, Meant, HeldBy, Settled
  <2>. QED  BY <1>0, <2>1
<1>3. CASE Register!Decide
  <2>1. PICK to \in SUBSET Receivers :
          /\ n1 = n + 1 /\ Meant' = [v \in 1..(n + 1) |-> IF v <= n THEN Meant[v] ELSE to]
          /\ HeldBy' = HeldBy /\ Settled' = Settled
    BY <1>3 DEF Register!Decide, Meant, HeldBy, Settled
  <2> HIDE DEF n, n1
  <2>. QED  BY <1>0, <2>1
<1>4. CASE Register!Receive
  <2>1. PICK r \in Receivers, v \in 1..n :
          /\ v >= HeldBy[r] /\ HeldBy' = [HeldBy EXCEPT ![r] = v]
          /\ n1 = n /\ Meant' = Meant /\ Settled' = Settled
    BY <1>4 DEF Register!Receive, Meant, HeldBy, Settled
  <2> HIDE DEF n, n1
  <2>. QED  BY <1>0, <2>1
<1>5. CASE Register!Settle
  <2>1. /\ n > 0 /\ \A r \in Meant[n] : HeldBy[r] = n
        /\ n1 = n /\ Meant' = Meant /\ HeldBy' = HeldBy /\ Settled' = Settled \cup {n}
    BY <1>5 DEF Register!Settle, Meant, HeldBy, Settled
  <2> HIDE DEF n, n1
  <2>. QED  BY <1>0, <2>1
<1>. QED  BY <1>2, <1>3, <1>4, <1>5 DEF Register!Next

\* What Control counts as settled has reached Billing, and Licensing if it was
\* told at all, and neither falls behind it again: after crashes, answers that
\* were lost and requests that arrive late.
SettledIsReceived ==
    \A v \in DOMAIN decisions : decisions[v].status \in {"observed", "synced"} =>
        /\ billing.version >= v
        /\ decisions[v].deliverable => licensing.version >= v

THEOREM SettledReaches == Spec => []SettledIsReceived
<1>1. Register!Init => RegisterFits
  BY DEF Register!Init, RegisterFits, Register!SettledIsHeld, Meant, HeldBy, Settled
<1>2. RegisterFits /\ [Register!Next]_(Register!vars) => RegisterFits'  BY RegisterKeeps
<1>3. Register!Spec => []RegisterFits  BY <1>1, <1>2, PTL DEF Register!Spec
<1>4. ASSUME RegisterFits PROVE SettledIsReceived
  <2>. SUFFICES ASSUME NEW v \in DOMAIN decisions, decisions[v].status \in {"observed", "synced"}
                PROVE  /\ billing.version >= v
                       /\ decisions[v].deliverable => licensing.version >= v
    BY DEF SettledIsReceived
  <2>1. v \in Settled  BY DEF Settled
  <2>2. \A r \in Meant[v] : HeldBy[r] >= v
    BY <1>4, <2>1 DEF RegisterFits, Register!SettledIsHeld, Meant, HeldBy, Settled
  <2>. QED  BY <2>2 DEF Meant, HeldBy, Receivers
<1>. QED  BY Implements, <1>3, <1>4, PTL DEF ImplementsRegister

-------------------------------------------------------------------------------
\* What a request for a cycle says: it names a cycle, and until Billing has a
\* schedule the next one of the enrollment.
Asked(r) == r.to = "cycle" =>
    /\ enrollment.exists
    /\ r.expected # None
    /\ ~billing.schedule => /\ r.expected <= now + Cycle
                            /\ Active => r.expected = enrollment.next

\* Billing is never more than a period ahead of the day, and expects no cycle
\* only when none fits any more; what it told a delivery is not ahead of it.
Calendar ==
    /\ IF billing.schedule THEN enrollment.exists ELSE billing.next = None
    /\ billing.next <= now + Cycle
    /\ billing.schedule /\ billing.next = None => now + Cycle > Horizon
    /\ Active /\ enrollment.exists /\ ~billing.schedule =>
         enrollment.next # None /\ enrollment.next <= now + Cycle
    /\ tx.pc \in {"told", "licensed"} /\ tx.next # None =>
         billing.schedule /\ (billing.next # None => tx.next <= billing.next)

Paced == Calendar /\ (\A r \in wire \cup Awaited : Asked(r)) /\ NeverAhead

\* The days that are compared are integers.
LEMMA Integral ==
    ASSUME TypeOK
    PROVE  /\ billing.next \in Dates \cup {None} /\ enrollment.next \in Dates \cup {None}
           /\ billing.next \in Int /\ enrollment.next \in Int
           /\ now \in Nat /\ now <= Horizon
           /\ Cycle \in Nat \ {0} /\ Horizon \in Nat /\ None \in Int
           /\ \A day \in Dates \cup {None} : day \in Int /\ day >= None
           /\ \A day \in Dates : day >= 0 /\ day # None
<1>1. billing.next \in Dates \cup {None} /\ enrollment.next \in Dates \cup {None}
  BY DEF TypeOK, Situations, Enrollments
<1>. QED  BY <1>1, FinanceAssumption DEF TypeOK, Dates, None

\* Only who advances or renews waits for a cycle, now and after a step.
LEMMA AwaitedCycle ==
    /\ \A r \in Awaited : r.to = "cycle" =>
         /\ tx.pc \in {"advancing", "renewing"}
         /\ r = ToAdvance(tx.expected, tx.pc = "renewing")
    /\ \A r \in Awaited' : r.to = "cycle" =>
         /\ tx'.pc \in {"advancing", "renewing"}
         /\ r = ToAdvance(tx'.expected, tx'.pc = "renewing")
<1>1. ASSUME NEW r \in Awaited, r.to = "cycle"
      PROVE  /\ tx.pc \in {"advancing", "renewing"}
             /\ r = ToAdvance(tx.expected, tx.pc = "renewing")
  <2>1. CASE tx.pc = "posting"  BY <1>1, <2>1 DEF Awaited, ToBilling
  <2>2. CASE tx.pc = "told"  BY <1>1, <2>2 DEF Awaited, ToLicensing
  <2>3. CASE tx.pc = "advancing"
    <3>1. r = ToAdvance(tx.expected, FALSE)  BY <1>1, <2>3 DEF Awaited
    <3>2. (tx.pc = "renewing") = FALSE  BY <2>3
    <3>. QED  BY <2>3, <3>1, <3>2
  <2>4. CASE tx.pc = "renewing"
    <3>1. r = ToAdvance(tx.expected, TRUE)  BY <1>1, <2>4 DEF Awaited
    <3>2. (tx.pc = "renewing") = TRUE  BY <2>4
    <3>. QED  BY <2>4, <3>1, <3>2
  <2>5. CASE tx.pc \notin {"posting", "told", "advancing", "renewing"}
    BY <1>1, <2>5 DEF Awaited
  <2>. QED  BY <2>1, <2>2, <2>3, <2>4, <2>5
<1>2. ASSUME NEW r \in Awaited', r.to = "cycle"
      PROVE  /\ tx'.pc \in {"advancing", "renewing"}
             /\ r = ToAdvance(tx'.expected, tx'.pc = "renewing")
  <2>1. CASE tx'.pc = "posting"  BY <1>2, <2>1 DEF Awaited, ToBilling
  <2>2. CASE tx'.pc = "told"  BY <1>2, <2>2 DEF Awaited, ToLicensing
  <2>3. CASE tx'.pc = "advancing"
    <3>1. r = ToAdvance(tx'.expected, FALSE)  BY <1>2, <2>3 DEF Awaited
    <3>2. (tx'.pc = "renewing") = FALSE  BY <2>3
    <3>. QED  BY <2>3, <3>1, <3>2
  <2>4. CASE tx'.pc = "renewing"
    <3>1. r = ToAdvance(tx'.expected, TRUE)  BY <1>2, <2>4 DEF Awaited
    <3>2. (tx'.pc = "renewing") = TRUE  BY <2>4
    <3>. QED  BY <2>4, <3>1, <3>2
  <2>5. CASE tx'.pc \notin {"posting", "told", "advancing", "renewing"}
    BY <1>2, <2>5 DEF Awaited
  <2>. QED  BY <2>1, <2>2, <2>3, <2>4, <2>5
<1>. QED  BY <1>1, <1>2

\* A cycle asked for: Billing has a schedule, and does not go back.
LEMMA AdvancedPaced ==
    ASSUME TypeOK, Paced, NEW r, Asked(r), r.to = "cycle",
           r.expected \in Dates \cup {None}, r.renewal \in BOOLEAN
    PROVE  LET b == Advanced(billing, r)
           IN  /\ b.schedule
               /\ b.next \in Dates \cup {None}
               /\ b.next <= now + Cycle
               /\ b.next = None => now + Cycle > Horizon
               /\ billing.schedule =>
                    /\ billing.next = None => b.next = None
                    /\ b.next # None => b.next >= billing.next
               /\ Active => /\ enrollment.next = None => b.next = None
                            /\ enrollment.next # None /\ b.next # None =>
                                 enrollment.next <= b.next
<1> DEFINE b == Advanced(billing, r)
           s == Scheduled(billing, r)
           day == IF r.renewal THEN now ELSE s.next
<1>0. billing \in Situations  BY DEF TypeOK
<1>1. /\ s \in Situations /\ s.schedule
      /\ s.next = IF billing.schedule THEN billing.next ELSE r.expected
  BY <1>0 DEF Scheduled, Situations
<1>2. /\ s.next <= now + Cycle
      /\ s.next = None => now + Cycle > Horizon
      /\ ~r.renewal /\ s.next = r.expected => s.next # None
      /\ Active => /\ enrollment.next = None => s.next = None
                   /\ enrollment.next # None /\ s.next # None => enrollment.next <= s.next
  BY <1>1, Integral DEF Paced, Calendar, Asked, NeverAhead
<1>3. s.next \in Dates \cup {None}  BY <1>0, <1>1, Integral
<1>4. CASE Opens(s, r)
  <2>1. b = [s EXCEPT !.next = After(day), !.invoiced = r.renewal]  BY <1>4 DEF Advanced
  <2> HIDE DEF b, s
  <2>2. b.next = After(day) /\ b.schedule  BY <1>1, <2>1 DEF Situations
  <2>3. day \in Dates /\ day <= now /\ (r.renewal => day = now) /\ (~r.renewal => day = s.next)
    <3>1. now \in Dates  BY Days DEF TypeOK
    <3>2. ~r.renewal => s.next = r.expected /\ s.next <= now  BY <1>4 DEF Opens
    <3>. QED  BY <1>2, <1>3, <3>1, <3>2, Integral
  <2>4. /\ After(day) # None => After(day) = day + Cycle /\ After(day) \in Dates
        /\ After(day) = None => day + Cycle > Horizon
    BY <2>3, Integral, FinanceAssumption DEF After, Dates
  <2> HIDE DEF day
  <2>5. /\ After(day) <= now + Cycle
        /\ After(day) = None => now + Cycle > Horizon
        /\ After(day) # None => After(day) >= s.next
        /\ s.next = None => After(day) = None
    <3>1. CASE After(day) # None  BY <1>2, <1>3, <2>3, <2>4, <3>1, Integral DEF After
    <3>2. CASE After(day) = None
      BY <2>3, <2>4, <3>2, Integral
    <3>. QED  BY <3>1, <3>2
  <2>6. After(day) \in Dates \cup {None}  BY <2>4
  <2>. QED  BY <1>1, <1>2, <1>3, <2>2, <2>5, <2>6, Integral DEF b
<1>5. CASE ~Opens(s, r)
  <2>1. b = s  BY <1>5 DEF Advanced
  <2> HIDE DEF b, s
  <2>. QED  BY <1>1, <1>2, <1>3, <2>1, Integral DEF b
<1>. QED  BY <1>4, <1>5

\* A step that moves neither calendar, and asks for nothing.
LEMMA QuietPaced ==
    ASSUME TypeOK, Facts, Paced,
           billing'.schedule = billing.schedule, billing'.next = billing.next,
           enrollment'.exists = enrollment.exists, enrollment'.next = enrollment.next,
           now' \in {now, now + 1}, Active' => Active,
           tx'.pc \in {"told", "licensed"} =>
             tx.pc \in {"told", "licensed"} /\ tx'.next = tx.next,
           \A r \in wire' \cup Awaited' : r.to = "cycle" => r \in wire \cup Awaited
    PROVE  Paced'
<1>1. Calendar'  BY Integral DEF Paced, Calendar
<1>2. ASSUME NEW r \in wire' \cup Awaited' PROVE Asked(r)'
  <2>. SUFFICES ASSUME r.to = "cycle" PROVE Asked(r)'  BY DEF Asked
  <2>1. r \in wire \cup Awaited  OBVIOUS
  <2>2. Asked(r)  BY <2>1 DEF Paced
  <2>3. r.expected \in Int
    <3>1. r \in Requests  BY <2>1, AwaitedSays DEF TypeOK
    <3>2. r.expected \in Dates \cup {None}  BY <3>1 DEF Requests
    <3>. QED  BY <3>2, Integral
  <2>. QED  BY <2>2, <2>3, Integral DEF Asked
<1>3. NeverAhead'  BY DEF Paced, NeverAhead
<1>. QED  BY <1>1, <1>2, <1>3 DEF Paced

\* A transaction that ends, or delivers, waits for no cycle.
LEMMA NoCycleAwaited ==
    ASSUME tx'.pc \notin {"advancing", "renewing"}
    PROVE  \A r \in Awaited' : r.to # "cycle"
BY AwaitedCycle

LEMMA QuietSteps ==
    ASSUME TypeOK, Facts, Paced,
           \/ \E enabled \in BOOLEAN : SetEnabled(enabled)
           \/ \E policy \in {"pause", "continue"} : SetPolicy(policy)
           \/ \E revision \in {"courtesy", "unconfirmed"} : TakesEffect(revision)
           \/ \E day \in {now, now + 1} : RecordTermination(day)
           \/ Tick \/ FallsOverdue \/ Pays \/ RenewalRequired \/ CourtesyEnds \/ Confirms
           \/ Decide
    PROVE  Paced'
<1>1. /\ tx' = tx /\ wire' = wire /\ (decisions' = decisions \/ tx = Idle)
      /\ now' \in {now, now + 1} /\ (Active' => Active)
  BY DEF SetEnabled, SetPolicy, TakesEffect, RecordTermination, Tick, EnrollmentOnly, FallsOverdue,
         Pays, RenewalRequired, CourtesyEnds, BillingOnly, Confirms, Decide, Active, Free, Contracts,
         TypeOK
<1>2. billing'.schedule = billing.schedule /\ billing'.next = billing.next
  BY DEF SetEnabled, SetPolicy, TakesEffect, RecordTermination, Tick, EnrollmentOnly, FallsOverdue,
         Pays, RenewalRequired, CourtesyEnds, BillingOnly, Confirms, Decide, TypeOK, Situations
<1>3. enrollment'.exists = enrollment.exists /\ enrollment'.next = enrollment.next
  BY DEF SetEnabled, SetPolicy, TakesEffect, RecordTermination, Tick, EnrollmentOnly, FallsOverdue,
         Pays, RenewalRequired, CourtesyEnds, BillingOnly, Confirms, Decide, TypeOK, Enrollments
<1>4. \A r \in Awaited' : r.to = "cycle" => r \in Awaited
  <2>1. CASE decisions' = decisions  BY <1>1, <2>1 DEF Awaited
  <2>2. CASE tx = Idle  BY <1>1, <2>2, NoCycleAwaited DEF Idle
  <2>. QED  BY <1>1, <2>1, <2>2
<1>. QED  BY <1>1, <1>2, <1>3, <1>4, QuietPaced

LEMMA QuietTransactions ==
    ASSUME TypeOK, Facts, Paced, Deliver \/ LicensingAcks \/ CycleFails \/ Crash
    PROVE  Paced'
<1>1. UNCHANGED <<now, contract, enrollment, billing>>
  BY DEF Deliver, LicensingAcks, CycleFails, Crash
<1>2. /\ tx'.pc \notin {"advancing", "renewing"}
      /\ tx'.pc \in {"told", "licensed"} =>
           tx.pc \in {"told", "licensed"} /\ tx'.next = tx.next
  <2>1. CASE Deliver
    <3>1. PICK v \in Pending : Drop(v) \/ Post(v)  BY <2>1 DEF Deliver
    <3>. QED  BY <2>1, <3>1 DEF Deliver, Drop, Post, Free, Idle
  <2>2. CASE LicensingAcks
    <3>1. tx \in [pc : {"told", "licensed"}, version : Nat \ {0}, core : Cores,
                  next : Dates \cup {None}]
      BY <2>2, Kinds DEF LicensingAcks, TypeOK
    <3>. QED  BY <2>2, <3>1 DEF LicensingAcks
  <2>3. CASE CycleFails \/ Crash  BY <2>3 DEF CycleFails, Crash, Idle
  <2>. QED  BY <2>1, <2>2, <2>3
<1>3. wire' \subseteq wire \cup Awaited  BY DEF Deliver, LicensingAcks, CycleFails, Crash
<1>4. \A r \in wire' \cup Awaited' : r.to = "cycle" => r \in wire \cup Awaited
  BY <1>2, <1>3, NoCycleAwaited
<1>. QED  BY <1>1, <1>2, <1>4, QuietPaced DEF Active

\* A contract that is enrolled has asked for nothing, one that has ended asks
\* no more.
LEMMA EnrollPaced ==
    ASSUME TypeOK, Facts, Paced, NEW first \in {now, now + 1}, Enroll(first)
    PROVE  Paced'
<1>1. /\ UNCHANGED <<now, contract, decisions, billing, tx, wire>> /\ tx.pc = "idle"
      /\ ~enrollment.exists /\ enrollment'.exists /\ enrollment'.next = first
  BY DEF Enroll, EnrollmentOnly, TypeOK, Enrollments, Free, Idle
<1>2. first # None /\ first <= now + Cycle  BY Integral DEF None
<1>3. ~billing.schedule  BY <1>1 DEF Paced, Calendar
<1>4. Calendar'  BY <1>1, <1>2, <1>3 DEF Paced, Calendar
<1>5. \A r \in wire' \cup Awaited' : Asked(r)'
  BY <1>1, NoCycleAwaited DEF Paced, Asked
<1>6. NeverAhead'  BY <1>1, <1>3 DEF NeverAhead
<1>. QED  BY <1>4, <1>5, <1>6 DEF Paced

LEMMA TerminatesPaced == ASSUME TypeOK, Facts, Paced, Terminates PROVE Paced'
<1>1. /\ UNCHANGED <<now, decisions, billing, tx, wire>> /\ tx.pc = "idle" /\ ~Active'
      /\ enrollment'.exists = enrollment.exists
  BY DEF Terminates, TypeOK, Enrollments, Contracts, Active, Free, Idle
<1>2. Calendar'  BY <1>1 DEF Paced, Calendar
<1>3. \A r \in wire' \cup Awaited' : Asked(r)'
  BY <1>1, NoCycleAwaited DEF Paced, Asked
<1>4. NeverAhead'  BY <1>1 DEF NeverAhead
<1>. QED  BY <1>2, <1>3, <1>4 DEF Paced

\* Who asks for a cycle names the next one of the enrollment.
LEMMA AsksPaced == ASSUME TypeOK, Facts, Paced, Advance \/ Renew PROVE Paced'
<1>1. /\ UNCHANGED <<now, contract, enrollment, decisions, billing, wire>>
      /\ tx'.pc \in {"advancing", "renewing"} /\ tx'.expected # None
      /\ enrollment.next # None => tx'.expected = enrollment.next
      /\ Active /\ enrollment.exists
  <2>1. enrollment.first # None  BY Days DEF TypeOK, Enrollments
  <2>. QED  BY <2>1 DEF Advance, Renew, Billable, Renewable
<1>2. Calendar'  BY <1>1 DEF Paced, Calendar, Active
<1>3. ASSUME NEW r \in Awaited' PROVE Asked(r)'
  <2>. SUFFICES ASSUME r.to = "cycle" PROVE Asked(r)'  BY DEF Asked
  <2>1. r = ToAdvance(tx'.expected, tx'.pc = "renewing")  BY AwaitedCycle
  <2>2. r.expected # None /\ (enrollment.next # None => r.expected = enrollment.next)
    BY <1>1, <2>1 DEF ToAdvance
  <2>3. ~billing.schedule => enrollment.next # None /\ enrollment.next <= now + Cycle
    BY <1>1 DEF Paced, Calendar
  <2>. QED  BY <1>1, <2>2, <2>3 DEF Asked, Active
<1>4. \A r \in wire : Asked(r)'  BY <1>1 DEF Paced, Asked, Active
<1>5. NeverAhead'  BY <1>1 DEF Paced, NeverAhead, Active
<1>. QED  BY <1>1, <1>2, <1>3, <1>4, <1>5 DEF Paced

\* A recurrence that becomes active again only moves Billing forward.
LEMMA HeardPaced ==
    ASSUME TypeOK, Paced, NEW r, r.version \in Nat
    PROVE  LET b == HeardBy(billing, r)
           IN  /\ b.schedule = billing.schedule
               /\ b.next = None <=> billing.next = None
               /\ b.next >= billing.next /\ b.next <= now + Cycle
               /\ b.next \in Dates \cup {None}
<1> DEFINE b == HeardBy(billing, r)
<1>1. billing \in Situations  BY DEF TypeOK
<1>2. b.schedule = billing.schedule /\ b.next \in {billing.next, now}
      /\ (b.next # billing.next => billing.next # None /\ billing.next < now /\ b.next = now)
  BY <1>1 DEF HeardBy, Situations
<1>3. now \in Dates  BY Days DEF TypeOK
<1> HIDE DEF b
<1>. QED  BY <1>2, <1>3, Integral DEF Paced, Calendar, b

LEMMA BillingAcksPaced == ASSUME TypeOK, Facts, Paced, BillingAcks PROVE Paced'
<1> DEFINE r == ToBilling(tx.version, tx.core)
           b == HeardBy(billing, r)
<1>1. /\ UNCHANGED <<now, contract, enrollment, decisions, wire>>
      /\ billing' = b /\ tx'.pc = "told"
      /\ tx'.next = IF tx.core.recurrence = "active" THEN b.next ELSE None
  BY DEF BillingAcks
<1>2. r.version \in Nat
  <2>1. tx.version \in Nat  BY Kinds DEF BillingAcks, TypeOK
  <2>. QED  BY <2>1 DEF ToBilling
<1>3. /\ b.schedule = billing.schedule
      /\ b.next = None <=> billing.next = None
      /\ b.next >= billing.next /\ b.next <= now + Cycle
      /\ b.next \in Dates \cup {None}
  BY <1>2, HeardPaced
<1> HIDE DEF b, r
<1>4. tx'.next # None => tx'.next = b.next  BY <1>1
<1>5. Calendar'
  BY <1>1, <1>3, <1>4, Integral DEF Paced, Calendar, Active
<1>6. \A q \in wire' \cup Awaited' : Asked(q)'
  BY <1>1, <1>3, NoCycleAwaited DEF Paced, Asked, Active
<1>7. NeverAhead'  BY <1>1, <1>3, Integral DEF Paced, NeverAhead, Active
<1>. QED  BY <1>5, <1>6, <1>7 DEF Paced

\* The cycle Billing named to a delivery is not ahead of it when it is written.
LEMMA ToldPaced == ASSUME TypeOK, Facts, Paced, Settle \/ DeliveryFails PROVE Paced'
<1>1. /\ UNCHANGED <<now, contract, billing>> /\ tx' = Idle /\ NextCycleTold
      /\ wire' \subseteq wire \cup Awaited
  BY DEF Settle, DeliveryFails
<1>2. /\ enrollment'.exists = enrollment.exists
      /\ \/ enrollment'.next = enrollment.next
         \/ /\ tx.pc \in {"told", "licensed"} /\ tx.next # None /\ enrollment'.next = tx.next
  BY <1>1 DEF NextCycleTold, TypeOK, Enrollments
<1>3. Calendar'  BY <1>1, <1>2 DEF Paced, Calendar, Active, Idle
<1>4. ASSUME NEW r \in wire' \cup Awaited' PROVE Asked(r)'
  <2>. SUFFICES ASSUME r.to = "cycle" PROVE Asked(r)'  BY DEF Asked
  <2>1. r \in wire \cup Awaited  BY <1>1, NoCycleAwaited DEF Idle
  <2>2. Asked(r)  BY <2>1 DEF Paced
  <2>. QED  BY <1>1, <1>2, <2>2 DEF Asked, Paced, Calendar, Active
<1>5. NeverAhead'  BY <1>1, <1>2 DEF Paced, Calendar, NeverAhead, Active
<1>. QED  BY <1>3, <1>4, <1>5 DEF Paced

LEMMA CycleAckedPaced == ASSUME TypeOK, Facts, Paced, CycleAcked PROVE Paced'
<1>1. PICK r \in Awaited :
        /\ billing' = Advanced(billing, r)
        /\ IF Recognised THEN NextCycleIs(Advanced(billing, r).next) ELSE UNCHANGED enrollment
  BY DEF CycleAcked
<1>2. /\ UNCHANGED <<now, contract, decisions, wire>> /\ tx' = Idle
      /\ tx.pc \in {"advancing", "renewing"}
  BY DEF CycleAcked
<1>3. r.to = "cycle"  BY <1>1, <1>2 DEF Awaited, ToAdvance
<1>4. r.expected \in Dates \cup {None} /\ r.renewal \in BOOLEAN /\ Asked(r)
  BY <1>1, <1>3, AwaitedSays DEF Requests, Paced
<1>5. /\ billing'.schedule /\ billing'.next <= now + Cycle
      /\ billing'.next = None => now + Cycle > Horizon
  BY <1>1, <1>3, <1>4, AdvancedPaced
<1>6. enrollment'.exists /\ enrollment'.next \in {enrollment.next, billing'.next}
  <2>1. enrollment.exists  BY <1>3, <1>4 DEF Asked
  <2>. QED  BY <1>1, <2>1 DEF NextCycleIs, TypeOK, Enrollments
<1>7. Calendar'  BY <1>2, <1>5, <1>6 DEF Calendar, Idle
<1>8. \A q \in wire' \cup Awaited' : Asked(q)'
  BY <1>2, <1>5, <1>6, NoCycleAwaited DEF Asked, Paced, Idle
<1>9. billing'.next \in Int  BY <1>1, <1>3, <1>4, AdvancedPaced, Integral
<1>10. Active => /\ enrollment.next = None => billing'.next = None
                 /\ enrollment.next # None /\ billing'.next # None =>
                      enrollment.next <= billing'.next
  BY <1>1, <1>3, <1>4, AdvancedPaced
<1>11. NeverAhead'  BY <1>2, <1>6, <1>9, <1>10 DEF NeverAhead, Active
<1>. QED  BY <1>7, <1>8, <1>11 DEF Paced

LEMMA ArrivesPaced == ASSUME TypeOK, Facts, Paced, Arrives PROVE Paced'
<1>0. UNCHANGED <<now, contract, enrollment, decisions, notices, tx, events>>
  BY DEF Arrives
<1>1. PICK r \in wire :
        /\ wire' = wire \ {r}
        /\ billing' = CASE r.to = "billing" -> HeardBy(billing, r)
                        [] r.to = "cycle"   -> Advanced(billing, r)
                        [] OTHER            -> billing
  BY DEF Arrives
<1>2. r \in Requests /\ Asked(r)  BY DEF TypeOK, Paced
<1>3. Awaited' = Awaited  BY <1>0 DEF Awaited
<1>4. \/ /\ billing'.schedule = billing.schedule
         /\ billing'.next = None <=> billing.next = None
         /\ billing'.next >= billing.next /\ billing'.next <= now + Cycle
         /\ billing'.next \in Dates \cup {None}
      \/ /\ billing'.schedule /\ enrollment.exists
         /\ billing'.next \in Dates \cup {None}
         /\ billing'.next <= now + Cycle
         /\ billing'.next = None => now + Cycle > Horizon
         /\ billing.schedule =>
              /\ billing.next = None => billing'.next = None
              /\ billing'.next # None => billing'.next >= billing.next
         /\ Active => /\ enrollment.next = None => billing'.next = None
                      /\ enrollment.next # None /\ billing'.next # None =>
                           enrollment.next <= billing'.next
  <2>1. CASE r.to = "billing"
    <3>1. r.version \in Nat  BY <1>2, <2>1 DEF Requests
    <3>2. billing' = HeardBy(billing, r)  BY <1>1, <2>1
    <3>. QED  BY <3>1, <3>2, HeardPaced
  <2>2. CASE r.to = "cycle"
    <3>1. r.expected \in Dates \cup {None} /\ r.renewal \in BOOLEAN
      BY <1>2, <2>2 DEF Requests
    <3>2. billing' = Advanced(billing, r)  BY <1>1, <2>2
    <3>3. enrollment.exists  BY <1>2, <2>2 DEF Asked
    <3>. QED  BY <1>2, <2>2, <3>1, <3>2, <3>3, AdvancedPaced
  <2>3. CASE r.to = "licensing"
    <3>1. billing' = billing  BY <1>1, <2>3
    <3>. QED  BY <3>1, Integral DEF Paced, Calendar
  <2>. QED  BY <1>2, <2>1, <2>2, <2>3 DEF Requests
<1>5. Calendar'
  <2>1. tx.pc \in {"told", "licensed"} => tx.next \in Dates \cup {None}
    BY Kinds DEF TypeOK
  <2>. QED  BY <1>0, <1>4, <2>1, Integral DEF Paced, Calendar, Active
<1>6. \A q \in wire' \cup Awaited' : Asked(q)'
  BY <1>0, <1>1, <1>3, <1>4 DEF Paced, Asked, Active
<1>7. NeverAhead'
  <2>1. enrollment.next \in Int /\ billing.next \in Int /\ billing'.next \in Int
    BY <1>4, Integral
  <2>2. enrollment' = enrollment /\ (Active' <=> Active)  BY <1>0 DEF Active
  <2>3. NeverAhead  BY DEF Paced
  <2> HIDE DEF Active
  <2>4. CASE billing'.schedule = billing.schedule
             /\ (billing'.next = None <=> billing.next = None) /\ billing'.next >= billing.next
    BY <2>1, <2>2, <2>3, <2>4 DEF NeverAhead
  <2>5. CASE Active => /\ enrollment.next = None => billing'.next = None
                       /\ enrollment.next # None /\ billing'.next # None =>
                            enrollment.next <= billing'.next
    BY <2>2, <2>5 DEF NeverAhead
  <2>. QED  BY <1>4, <2>4, <2>5
<1>. QED  BY <1>5, <1>6, <1>7 DEF Paced

LEMMA NextPaced == ASSUME TypeOK, Facts, Paced, [Next]_vars PROVE Paced'
<1>1. CASE UNCHANGED vars
  BY <1>1 DEF vars, Paced, Calendar, Asked, NeverAhead, Awaited, Active
<1>2. CASE Next
  BY <1>2, Steps, QuietSteps, QuietTransactions, EnrollPaced, TerminatesPaced, AsksPaced,
     BillingAcksPaced, ToldPaced, CycleAckedPaced, ArrivesPaced
<1>. QED  BY <1>1, <1>2

\* Control never skips a cycle: what it asks for next is never beyond what
\* Billing expects, through retries, renewals, stops and late requests.
THEOREM SkipsNoCycle == Spec => []NeverAhead
<1>1. ASSUME Init PROVE Paced
  <2>1. now = 0 /\ wire = {} /\ tx = Idle /\ Awaited = {}  BY <1>1 DEF Init, Idle, Awaited
  <2>2. CASE Fresh  BY <2>1, <2>2, FinanceAssumption DEF Fresh, Paced, Calendar, NeverAhead, Idle, None
  <2>3. CASE Established
    BY <2>1, <2>3, FinanceAssumption DEF Established, Paced, Calendar, NeverAhead, Idle, None
  <2>. QED  BY <1>1, <2>2, <2>3 DEF Init
<1>2. TypeOK /\ Facts /\ Paced /\ [Next]_vars => Paced'  BY NextPaced
<1>3. Paced => NeverAhead  BY DEF Paced
<1>. QED  BY Invariance, <1>1, <1>2, <1>3, PTL DEF Spec

-------------------------------------------------------------------------------
\* Every decision took no access before its time, and Billing requires a
\* renewal only of a contract it was told to stop.
Stopped(earlier) == \E v \in earlier : decisions[v].core.recurrence # "active"

InTime(v) == TakenInTime(decisions[v].core, 1..(v - 1))

Earned ==
    /\ \A v \in DOMAIN decisions : InTime(v)
    /\ billing.version = 0 => billing.recurrence = "active"
    /\ billing.renewal => Stopped(DOMAIN decisions)

\* What a decision takes away for a debt waits for the whole tolerance.
LEMMA Tolerates ==
    ASSUME NEW s \in Situations, NEW policy, NEW t \in 0..Horizon, s.courtesy = "none"
    PROVE  LET c == Core(s, policy, t)
               Due(days) == c.overdue # None /\ c.overdue + days <= t
           IN  /\ c.state = "payment_restricted" => Due(RestrictAfter)
               /\ c.state = "payment_suspended"  => Due(SuspendAfter)
               /\ c.access = "payment_restricted" => Due(RestrictAfter)
               /\ c.access = "payment_suspended" => Due(SuspendAfter) \/ s.renewal
<1>1. /\ Core(s, policy, t).overdue = OverdueSince(s.overdue, t)
      /\ Core(s, policy, t).state = DebtState(s.overdue, t)
      /\ Core(s, policy, t).access = EffectiveState(s, t)
  BY DEF Core, PolicyState
<1>2. EffectiveState(s, t) \in {DebtState(s.overdue, t), "healthy"} \/ s.renewal
  BY DEF EffectiveState, PolicyState
<1>3. s.overdue \in Int /\ t \in Int
  BY Days DEF Situations, None
<1>4. s.renewal => EffectiveState(s, t) = "payment_suspended"  BY DEF EffectiveState
<1>5. DebtState(s.overdue, t) = "payment_restricted" =>
        /\ OverdueSince(s.overdue, t) = s.overdue /\ s.overdue # None
        /\ t - s.overdue >= RestrictAfter
  BY <1>3, PolicyAssumption DEF DebtState, OverdueSince
<1>6. DebtState(s.overdue, t) = "payment_suspended" =>
        /\ OverdueSince(s.overdue, t) = s.overdue /\ s.overdue # None
        /\ t - s.overdue >= SuspendAfter
  BY <1>3, PolicyAssumption DEF DebtState, OverdueSince
<1>7. DebtState(s.overdue, t) = "payment_restricted" => s.overdue + RestrictAfter <= t
  BY <1>3, <1>5, PolicyAssumption
<1>8. DebtState(s.overdue, t) = "payment_suspended" => s.overdue + SuspendAfter <= t
  BY <1>3, <1>6, PolicyAssumption
<1>. QED  BY <1>1, <1>2, <1>4, <1>5, <1>6, <1>7, <1>8

\* Time only adds to the days an invoice has been due.
LEMMA StillInTime ==
    ASSUME TypeOK, NEW c \in Cores, NEW n \in Nat, n <= Len(decisions), now' \in {now, now + 1},
           \A v \in 1..n : decisions'[v].core = decisions[v].core,
           TakenInTime(c, 1..n)
    PROVE  TakenInTime(c, 1..n)'
<1>1. c.overdue \in Int /\ now \in Int  BY Days DEF Cores, TypeOK
<1>2. RestrictAfter \in Int /\ SuspendAfter \in Int  BY PolicyAssumption
<1>. QED  BY <1>1, <1>2 DEF TakenInTime, OverdueFor

\* What was decided before stays in time, whatever happens.
LEMMA EarlierEarned ==
    ASSUME TypeOK, Earned, NEW n \in Nat, n = Len(decisions), now' \in {now, now + 1},
           \A v \in 1..n : decisions'[v].core = decisions[v].core
    PROVE  /\ \A v \in 1..n : InTime(v)'
           /\ Stopped(1..n) => Stopped(1..n)'
<1>1. ASSUME NEW v \in 1..n PROVE InTime(v)'
  <2>1. PICK c \in Cores : c = decisions[v].core
    <3>1. decisions[v] \in Decisions  BY DEF TypeOK
    <3>. QED  BY <3>1 DEF Decisions
  <2>2. PICK k \in Nat : k = v - 1  OBVIOUS
  <2>3. TakenInTime(c, 1..k)
    <3>1. InTime(v)  BY DEF Earned, TypeOK
    <3>. QED  BY <2>1, <2>2, <3>1 DEF InTime
  <2>4. k <= Len(decisions) /\ \A w \in 1..k : decisions'[w].core = decisions[w].core
    BY <2>2
  <2>5. TakenInTime(c, 1..k)'  BY <2>3, <2>4, StillInTime
  <2>6. decisions'[v].core = c  BY <2>1
  <2>. QED  BY <2>2, <2>5, <2>6 DEF InTime
<1>2. Stopped(1..n) => Stopped(1..n)'  BY DEF Stopped
<1>. QED  BY <1>1, <1>2

LEMMA DecideEarns == ASSUME TypeOK, Facts, Earned, Decide PROVE Earned'
<1>1. PICK n \in Nat : n = Len(decisions)  BY DEF TypeOK
<1>2. PICK c \in Cores : c = CurrentCore  BY Recording
<1>3. /\ DOMAIN decisions = 1..n /\ DOMAIN decisions' = 1..(n + 1)
      /\ \A v \in 1..n : decisions'[v].core = decisions[v].core
      /\ decisions'[n + 1].core = c
      /\ UNCHANGED <<billing, now>>
  BY <1>1, <1>2, Recording DEF Decide, TypeOK
<1>4. /\ \A v \in 1..n : InTime(v)'
      /\ Stopped(1..n) => Stopped(1..n)'
  BY <1>1, <1>3, EarlierEarned
<1>5. TakenInTime(c, 1..n)'
  <2>1. billing \in Situations /\ now \in 0..Horizon  BY DEF TypeOK
  <2>2. c = Core(billing, enrollment.policy, now)  BY <1>2 DEF CurrentCore
  <2>3. ~c.courtesy => billing.courtesy = "none"  BY <2>2 DEF Core
  <2>4. ~c.courtesy =>
          /\ c.state = "payment_restricted" => OverdueFor(c, RestrictAfter)
          /\ c.state = "payment_suspended"  => OverdueFor(c, SuspendAfter)
          /\ c.access = "payment_restricted" => OverdueFor(c, RestrictAfter)
          /\ c.access = "payment_suspended" => OverdueFor(c, SuspendAfter) \/ billing.renewal
    BY <2>1, <2>2, <2>3, Tolerates DEF OverdueFor
  <2>5. billing.renewal => Stopped(1..n)'  BY <1>3, <1>4 DEF Earned
  <2>. QED  BY <1>3, <2>4, <2>5 DEF TakenInTime, OverdueFor, Stopped
<1>6. \A v \in 1..(n + 1) : InTime(v)'
  <2>1. n + 1 - 1 = n /\ \A v \in 1..(n + 1) : v \in 1..n \/ v = n + 1  OBVIOUS
  <2>2. InTime(n + 1)'  BY <1>3, <1>5, <2>1 DEF InTime
  <2>. QED  BY <1>4, <2>1, <2>2
<1>7. Stopped(1..n)' => Stopped(1..(n + 1))'  BY DEF Stopped
<1>. QED  BY <1>3, <1>4, <1>6, <1>7 DEF Earned

\* A step that decides nothing: Billing hears of a stop before it asks for a
\* renewal, and only a decision says so.
LEMMA OthersEarn ==
    ASSUME TypeOK, Facts, Earned, [Next]_vars, ~Decide
    PROVE  Earned'
<1>1. PICK n \in Nat : n = Len(decisions)  BY DEF TypeOK
<1>2. /\ DOMAIN decisions = 1..n /\ DOMAIN decisions' = 1..n
      /\ \A v \in 1..n : decisions'[v].core = decisions[v].core
  BY <1>1, StatusOnly DEF TypeOK
<1>3. now' \in {now, now + 1}
  BY Steps DEF vars, Enroll, SetEnabled, SetPolicy, TakesEffect, RecordTermination, Terminates, Tick,
         EnrollmentOnly, FallsOverdue, Pays, RenewalRequired, CourtesyEnds, BillingOnly, Confirms,
         Advance, Renew, Deliver, BillingAcks, LicensingAcks, Settle, DeliveryFails, CycleFails,
         Crash, CycleAcked, Arrives
<1>4. /\ \A v \in 1..n : InTime(v)'
      /\ Stopped(1..n) => Stopped(1..n)'
  BY <1>1, <1>2, <1>3, EarlierEarned
<1>5. /\ billing'.version = 0 => billing'.recurrence = "active"
      /\ billing'.renewal => Stopped(DOMAIN decisions)
  <2>1. CASE billing' = billing  BY <2>1 DEF Earned
  <2>2. CASE FallsOverdue \/ Pays \/ CourtesyEnds \/ Confirms
    <3>1. billing \in Situations  BY DEF TypeOK
    <3>2. /\ billing'.version = billing.version /\ billing'.recurrence = billing.recurrence
          /\ billing'.renewal => billing.renewal
      BY <2>2, <3>1 DEF FallsOverdue, Pays, CourtesyEnds, Confirms, Situations
    <3>. QED  BY <3>2 DEF Earned
  <2>3. CASE RenewalRequired
    <3>1. billing.version \in 1..n /\ billing.recurrence # "active"
          /\ billing.recurrence = decisions[billing.version].core.recurrence
      BY <1>1, <2>3 DEF RenewalRequired, Earned, Facts, Known, Held
    <3>2. billing'.version = billing.version
      BY <2>3 DEF RenewalRequired, TypeOK, Situations
    <3>. QED  BY <1>2, <3>1, <3>2 DEF Stopped
  <2>4. ASSUME NEW r, r.version \in Nat \ {0}, billing' = HeardBy(billing, r)
        PROVE  billing'.version # 0 /\ billing'.renewal = billing.renewal
    BY <2>4 DEF HeardBy, TypeOK, Situations
  <2>5. ASSUME NEW r, r.expected \in Dates \cup {None}, r.renewal \in BOOLEAN,
               billing' = Advanced(billing, r)
        PROVE  /\ billing'.version = billing.version /\ billing'.recurrence = billing.recurrence
               /\ billing'.renewal = billing.renewal
    <3>1. /\ billing'.version = billing.version /\ billing'.recurrence = billing.recurrence
      BY <2>5, AdvancedTyped DEF TypeOK
    <3>2. billing'.renewal = billing.renewal
      BY <2>5 DEF Advanced, Scheduled, TypeOK, Situations
    <3>. QED  BY <3>1, <3>2
  <2>6. CASE BillingAcks
    <3>1. tx.version \in Nat \ {0}  BY <2>6, Kinds DEF BillingAcks, TypeOK
    <3>. QED  BY <2>4, <2>6, <3>1 DEF BillingAcks, ToBilling, Earned
  <2>7. CASE CycleAcked
    <3>1. PICK r \in Awaited : billing' = Advanced(billing, r)  BY <2>7 DEF CycleAcked
    <3>2. r.to = "cycle"  BY <2>7, <3>1 DEF CycleAcked, Awaited, ToAdvance
    <3>3. r \in Requests  BY <3>1, AwaitedSays
    <3>4. r.expected \in Dates \cup {None} /\ r.renewal \in BOOLEAN  BY <3>2, <3>3 DEF Requests
    <3>. QED  BY <2>5, <3>1, <3>4 DEF Earned
  <2>8. CASE Arrives
    <3>1. PICK r \in wire :
            billing' = CASE r.to = "billing" -> HeardBy(billing, r)
                         [] r.to = "cycle"   -> Advanced(billing, r)
                         [] OTHER            -> billing
      BY <2>8 DEF Arrives
    <3>2. r \in Requests  BY DEF TypeOK
    <3>3. CASE r.to = "billing"
      <4>1. r.version \in Nat \ {0} /\ billing' = HeardBy(billing, r)
        BY <3>1, <3>2, <3>3 DEF Requests
      <4>. QED  BY <2>4, <4>1 DEF Earned
    <3>4. CASE r.to = "cycle"
      <4>1. r.expected \in Dates \cup {None} /\ r.renewal \in BOOLEAN
            /\ billing' = Advanced(billing, r)
        BY <3>1, <3>2, <3>4 DEF Requests
      <4>. QED  BY <2>5, <4>1 DEF Earned
    <3>5. CASE r.to \notin {"billing", "cycle"}  BY <2>1, <3>1, <3>5
    <3>. QED  BY <3>3, <3>4, <3>5
  <2>9. \/ FallsOverdue \/ Pays \/ CourtesyEnds \/ Confirms \/ RenewalRequired
        \/ BillingAcks \/ CycleAcked \/ Arrives \/ billing' = billing
    BY Steps DEF vars, Enroll, SetEnabled, SetPolicy, TakesEffect, RecordTermination, Terminates, Tick,
           EnrollmentOnly, Advance, Renew, Deliver, LicensingAcks, Settle, DeliveryFails,
           CycleFails, Crash
  <2>. QED  BY <2>1, <2>2, <2>3, <2>6, <2>7, <2>8, <2>9
<1>. QED  BY <1>2, <1>4, <1>5 DEF Earned

LEMMA InitEarned == Init => Earned
<1> SUFFICES ASSUME Init PROVE Earned  OBVIOUS
<1>1. CASE Fresh
  <2>1. DOMAIN decisions = {}  BY <1>1 DEF Fresh
  <2>. QED  BY <1>1, <2>1 DEF Fresh, Earned
<1>2. CASE Established
  <2>1. DOMAIN decisions = {1} /\ decisions[1].core = Core(billing, "pause", 0)
        /\ billing.version = 1 /\ ~billing.renewal
    BY <1>2 DEF Established
  <2>2. Core(billing, "pause", 0).state = "healthy" /\ Core(billing, "pause", 0).access = "healthy"
    BY <1>2 DEF Established, Core, EffectiveState, PolicyState, DebtState, OverdueSince
  <2>3. InTime(1)  BY <2>1, <2>2 DEF InTime, TakenInTime
  <2>. QED  BY <2>1, <2>3 DEF Earned
<1>. QED  BY <1>1, <1>2 DEF Init

\* However late its decision is delivered, Licensing takes no access before the
\* days of tolerance are over, and suspends without a debt only a contract that
\* an earlier decision stopped.
THEOREM SanctionsAreEarned == Spec => []NoEarlySanction
<1>1. TypeOK /\ Facts /\ Earned /\ [Next]_vars => Earned'  BY DecideEarns, OthersEarn
<1>2. ASSUME TypeOK, Facts, Earned PROVE NoEarlySanction
  <2>1. licensing.version > 0 => /\ licensing.version \in DOMAIN decisions
                                 /\ licensing.core = decisions[licensing.version].core
    BY <1>2 DEF Facts, Known, Held, TypeOK
  <2>. QED  BY <1>2, <2>1 DEF Earned, InTime, NoEarlySanction
<1>. QED  BY Invariance, InitEarned, <1>1, <1>2, PTL DEF Spec

-------------------------------------------------------------------------------
\* Waiting never eases the state of a debt.
Severity == [state \in AccessStates |->
    CASE state = "healthy"            -> 0
      [] state = "payment_attention"  -> 1
      [] state = "payment_restricted" -> 2
      [] OTHER                        -> 3]

\* financialAccess() of one debt only hardens as the days pass: the intervals
\* of the policy leave no day out and do not overlap.
THEOREM DebtsOnlyHarden ==
    ASSUME NEW due \in Int, NEW t \in Int, NEW u \in Int, t <= u
    PROVE  Severity[DebtState(due, t)] <= Severity[DebtState(due, u)]
<1>1. OverdueSince(due, t) # None => OverdueSince(due, u) # None  BY DEF OverdueSince, None
<1>2. DebtState(due, t) \in AccessStates /\ DebtState(due, u) \in AccessStates
  BY DEF DebtState, AccessStates
<1>3. DebtState(due, t) = "payment_suspended" => DebtState(due, u) = "payment_suspended"
  BY <1>1, PolicyAssumption DEF DebtState
<1>4. DebtState(due, t) = "payment_restricted" =>
        DebtState(due, u) \in {"payment_restricted", "payment_suspended"}
  BY <1>1, PolicyAssumption DEF DebtState
<1>5. DebtState(due, t) = "payment_attention" => DebtState(due, u) # "healthy"
  BY <1>1, PolicyAssumption DEF DebtState
<1>. QED  BY <1>2, <1>3, <1>4, <1>5 DEF Severity, AccessStates
===============================================================================
