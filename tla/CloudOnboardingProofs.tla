------------------------- MODULE CloudOnboardingProofs -------------------------
(***************************************************************************)
(* Theorems about CloudOnboarding for any number of requests, any horizon  *)
(* and any number of faults and changes, with their proofs.                *)
(*                                                                         *)
(* The instant of an erasure is settled by the first confirmation and read *)
(* back by all later ones, so that whoever is about to archive a receipt   *)
(* holds that instant, and a receipt that is there already names it.       *)
(*                                                                         *)
(* What a call has Reached at each step stays so under the steps of all    *)
(* others, because nothing of it is ever taken back (Kept): a call that is *)
(* about to answer has everything behind it, whoever did it.               *)
(***************************************************************************)
EXTENDS CloudOnboarding, SequenceTheorems, TLAPS

\* An account without a contract, or with one that runs, has not ended; an
\* erasure follows the end and is due.
Ended ==
    /\ binding = None => contract = "none"
    /\ binding = None \/ contract = "ativo" => term.status = "none"
    /\ term.erased # None => term.status = "completed" /\ term.until <= term.erased

\* Who archives a receipt holds the instant of the row.
Held == \A e \in Actors :
    actor[e].pc = "archiving" => term.erased # None /\ actor[e].at = term.erased

IInv == TypeOK /\ Ended /\ Held /\ ReceiptAgrees

-------------------------------------------------------------------------------
\* One request moves to a step that keeps no instant, and no other one moves.
LEMMA Moves ==
    ASSUME TypeOK, NEW a \in Actors, NEW pc \in Steps \ {"publishing", "archiving"}, Goes(a, pc)
    PROVE  /\ actor' \in [Actors -> [pc : Steps, at : {None} \cup Minutes]]
           /\ \A b \in Actors : actor'[b].pc \in {"publishing", "archiving"} => actor'[b].at # None
           /\ \A b \in Actors : actor'[b].pc = "archiving" => actor'[b] = actor[b]
BY DEF TypeOK, Goes

\* Faults and changes are counted within their bounds.
LEMMA Counted ==
    ASSUME TypeOK
    PROVE  /\ Fault => faults' \in 0..MaxFaults
           /\ Event => events' \in 0..MaxEvents
BY OnboardingAssumption DEF TypeOK, Fault, Event

LEMMA InitIInv == Init => IInv
<1>. SUFFICES ASSUME Init PROVE IInv  OBVIOUS
<1>1. TypeOK
  <2>1. actor \in [Actors -> [pc : Steps, at : {None} \cup Minutes]]
        /\ \A a \in Actors : actor[a].pc = "idle"
    BY DEF Init, Idle, Steps
  <2>2. versions \in Seq(Versions)  BY DEF Init
  <2>3. 0 \in Minutes  BY OnboardingAssumption DEF Minutes
  <2>4. term \in [status : {"none", "completed"}, until : {None} \cup 0..(Horizon + 1),
                  erased : {None} \cup Minutes]
    BY DEF Init
  <2>5. now \in Minutes /\ events \in 0..MaxEvents /\ faults \in 0..MaxFaults
    BY <2>3, OnboardingAssumption DEF Init
  <2>6. \A a \in Actors : actor[a].pc \in {"publishing", "archiving"} => actor[a].at # None
    BY <2>1
  <2>7. /\ offered \in BOOLEAN /\ enabled \in BOOLEAN /\ billed \in BOOLEAN
        /\ enrollment \in Enrollments
    BY DEF Init, Enrollments
  <2>. QED  BY <2>1, <2>2, <2>4, <2>5, <2>6, <2>7 DEF Init, TypeOK
<1>2. Ended /\ Held /\ ReceiptAgrees  BY DEF Init, Ended, Held, ReceiptAgrees, Idle
<1>. QED  BY <1>1, <1>2 DEF IInv

-------------------------------------------------------------------------------
\* A step of provision() that only moves the request on.
LEMMA OnlyMoves ==
    ASSUME IInv, NEW c \in Calls, ActorOnly,
           NEW pc \in Steps \ {"publishing", "archiving"}, Goes(c, pc)
    PROVE  IInv'
<1>1. TypeOK /\ c \in Actors  BY DEF IInv, Actors
<1>2. TypeOK'  BY <1>1, Moves DEF ActorOnly, TypeOK
<1>3. Ended' /\ ReceiptAgrees'  BY DEF IInv, Ended, ReceiptAgrees, ActorOnly
<1>4. Held'  BY <1>1, Moves DEF IInv, Held, ActorOnly
<1>. QED  BY <1>2, <1>3, <1>4 DEF IInv

LEMMA PathKeeps ==
    ASSUME IInv, NEW c \in Calls,
           Provision(c) \/ ReadCatalog(c) \/ Refresh(c) \/ Check(c) \/ GetProfile(c)
             \/ GetRecurrence(c)
    PROVE  IInv'
<1> DEFINE On == {"idle", "catalog", "listing", "binding", "checking", "resending", "profile",
                  "putting", "recurrence", "enrolling", "processing"}
<1>1. \E pc \in On : Goes(c, pc)
  BY DEF Provision, ReadCatalog, Refresh, Check, GetProfile, GetRecurrence
<1>2. On \subseteq Steps \ {"publishing", "archiving"}  BY DEF Steps
<1>3. ActorOnly  BY DEF Provision, ReadCatalog, Refresh, Check, GetProfile, GetRecurrence
<1> HIDE DEF On
<1>. QED  BY <1>1, <1>2, <1>3, OnlyMoves

LEMMA ListKeeps == ASSUME IInv, NEW c \in Calls, List(c) PROVE IInv'
<1>1. TypeOK /\ c \in Actors  BY DEF IInv, Actors
<1>2. CASE Goes(c, "refreshing")
  BY <1>2, OnlyMoves DEF List, Steps
<1>3. CASE GoesAt(c, "publishing", EffectiveAt)
  <2>1. EffectiveAt \in Minutes /\ EffectiveAt # None
    BY <1>1, OnboardingAssumption DEF TypeOK, EffectiveAt, Minutes, None
  <2>2. /\ actor' \in [Actors -> [pc : Steps, at : {None} \cup Minutes]]
        /\ \A b \in Actors : actor'[b].pc \in {"publishing", "archiving"} => actor'[b].at # None
        /\ \A b \in Actors : actor'[b].pc = "archiving" => actor'[b] = actor[b]
    BY <1>1, <1>3, <2>1 DEF TypeOK, GoesAt, Steps
  <2>3. TypeOK'  BY <1>1, <2>2 DEF TypeOK, List, ActorOnly
  <2>4. Ended' /\ ReceiptAgrees'  BY DEF IInv, Ended, ReceiptAgrees, List, ActorOnly
  <2>5. Held'  BY <2>2 DEF IInv, Held, List, ActorOnly
  <2>. QED  BY <2>3, <2>4, <2>5 DEF IInv
<1>. QED  BY <1>2, <1>3 DEF List

\* What provision() writes leaves the erasure alone.
LEMMA BindKeeps == ASSUME IInv, NEW c \in Calls, Bind(c) PROVE IInv'
<1>1. TypeOK /\ c \in Actors /\ "listing" \in Steps \ {"publishing", "archiving"}
  BY DEF IInv, Actors, Steps
<1>2. TypeOK'  BY <1>1, Moves DEF TypeOK, Bind
<1>3. Held'  BY <1>1, Moves DEF IInv, Held, Bind
<1>4. ReceiptAgrees'  BY DEF IInv, ReceiptAgrees, Bind
<1>5. Ended'
  BY <1>1, OnboardingAssumption DEF IInv, Ended, Bind, TypeOK, Minutes, None
<1>. QED  BY <1>2, <1>3, <1>4, <1>5 DEF IInv

\* The versions keep their type when some of them are synchronized.
LEMMA Synchronizing ==
    ASSUME TypeOK, NEW Those
    PROVE  [i \in DOMAIN versions |->
              IF i \in Those THEN [versions[i] EXCEPT !.synced = TRUE] ELSE versions[i]]
             \in Seq(Versions)
<1>1. versions \in Seq(Versions)  BY DEF TypeOK
<1> DEFINE f == [i \in DOMAIN versions |->
                   IF i \in Those THEN [versions[i] EXCEPT !.synced = TRUE] ELSE versions[i]]
<1>2. ASSUME NEW i \in DOMAIN versions PROVE f[i] \in Versions
  <2>1. versions[i] \in Versions  BY <1>1
  <2>2. [versions[i] EXCEPT !.synced = TRUE] \in Versions  BY <2>1 DEF Versions
  <2>. QED  BY <2>1, <2>2
<1>3. DOMAIN f = DOMAIN versions /\ f = [i \in DOMAIN f |-> f[i]]  OBVIOUS
<1> HIDE DEF f
<1>4. f \in Seq(Versions)
  <2>1. PICK n \in Nat : DOMAIN versions = 1..n  BY <1>1
  <2>2. f \in [1..n -> Versions]  BY <1>2, <1>3, <2>1
  <2>. QED  BY <2>2, SeqDef
<1>. QED  BY <1>4 DEF f

\* Steps of provision() and of the timers that write versions.
LEMMA PublishKeeps == ASSUME IInv, NEW c \in Calls, Publish(c) PROVE IInv'
<1>1. TypeOK /\ c \in Actors  BY DEF IInv, Actors
<1>2. PICK pc \in {"refreshing", "idle", "delivering"} : Goes(c, pc)  BY DEF Publish
<1>3. pc \in Steps \ {"publishing", "archiving"}  BY DEF Steps
<1>4. versions' \in Seq(Versions)
  <2> DEFINE row == Version("onboarding", actor[c].at, "catalog")
  <2>0. actor[c].at \in Minutes
    BY <1>1 DEF TypeOK, Publish
  <2>1. row \in Versions  BY <2>0 DEF Version, Versions
  <2>2. versions \in Seq(Versions)  BY <1>1 DEF TypeOK
  <2>3. versions' = versions \/ versions' = Append(versions, row)  BY DEF Publish
  <2> HIDE DEF row
  <2>4. Append(versions, row) \in Seq(Versions)  BY <2>1, <2>2, AppendProperties
  <2>. QED  BY <2>2, <2>3, <2>4
<1>5. TypeOK'  BY <1>1, <1>2, <1>3, <1>4, Moves DEF TypeOK, Publish
<1>6. Held'  BY <1>1, <1>2, <1>3, Moves DEF IInv, Held, Publish
<1>7. Ended' /\ ReceiptAgrees'  BY DEF IInv, Ended, ReceiptAgrees, Publish
<1>. QED  BY <1>5, <1>6, <1>7 DEF IInv

LEMMA DeliveredKeeps == ASSUME IInv, NEW c \in Calls, Delivered(c) PROVE IInv'
<1>1. TypeOK /\ c \in Actors  BY DEF IInv, Actors
<1>2. PICK pc \in {"refreshing", "checking"} : Goes(c, pc)  BY DEF Delivered
<1>3. pc \in Steps \ {"publishing", "archiving"}  BY DEF Steps
<1>4. versions' \in Seq(Versions)
  <2> DEFINE Those == Sent(actor[c].pc)
  <2>1. versions' \in {versions,
          [i \in DOMAIN versions |->
             IF i \in Those THEN [versions[i] EXCEPT !.synced = TRUE] ELSE versions[i]]}
    BY DEF Delivered
  <2>2. versions \in Seq(Versions)  BY <1>1 DEF TypeOK
  <2> HIDE DEF Those
  <2>. QED  BY <1>1, <2>1, <2>2, Synchronizing
<1>5. faults' \in 0..MaxFaults  BY <1>1, Counted DEF TypeOK, Delivered
<1>6. TypeOK'  BY <1>1, <1>2, <1>3, <1>4, <1>5, Moves DEF TypeOK, Delivered
<1>7. Held'  BY <1>1, <1>2, <1>3, Moves DEF IInv, Held, Delivered
<1>8. Ended' /\ ReceiptAgrees'  BY DEF IInv, Ended, ReceiptAgrees, Delivered
<1>. QED  BY <1>6, <1>7, <1>8 DEF IInv

\* Steps of provision() that write the profile, the recurrence and the answer.
LEMMA PutProfileKeeps == ASSUME IInv, NEW c \in Calls, PutProfile(c) PROVE IInv'
<1>1. TypeOK /\ c \in Actors /\ "recurrence" \in Steps \ {"publishing", "archiving"}
  BY DEF IInv, Actors, Steps
<1>2. TypeOK'  BY <1>1, Moves DEF TypeOK, PutProfile
<1>3. Held'  BY <1>1, Moves DEF IInv, Held, PutProfile
<1>4. Ended' /\ ReceiptAgrees'  BY DEF IInv, Ended, ReceiptAgrees, PutProfile
<1>. QED  BY <1>2, <1>3, <1>4 DEF IInv

LEMMA EnrollKeeps == ASSUME IInv, NEW c \in Calls, Enroll(c) PROVE IInv'
<1>1. TypeOK /\ c \in Actors  BY DEF IInv, Actors
<1>2. PICK pc \in {"processing", "idle"} : Goes(c, pc)  BY DEF Enroll
<1>3. pc \in Steps \ {"publishing", "archiving"}  BY DEF Steps
<1>4. enrollment' \in Enrollments  BY <1>1 DEF TypeOK, Enroll, Enrollments
<1>5. TypeOK'  BY <1>1, <1>2, <1>3, <1>4, Moves DEF TypeOK, Enroll
<1>6. Held'  BY <1>1, <1>2, <1>3, Moves DEF IInv, Held, Enroll
<1>7. Ended' /\ ReceiptAgrees'  BY DEF IInv, Ended, ReceiptAgrees, Enroll
<1>. QED  BY <1>5, <1>6, <1>7 DEF IInv

LEMMA ProcessKeeps == ASSUME IInv, NEW c \in Calls, Process(c) PROVE IInv'
<1>1. TypeOK /\ c \in Actors /\ "idle" \in Steps \ {"publishing", "archiving"}
  BY DEF IInv, Actors, Steps
<1>2. billed' \in BOOLEAN /\ faults' \in 0..MaxFaults
  BY <1>1, Counted DEF TypeOK, Process, Billable, InBilling
<1>3. TypeOK'  BY <1>1, <1>2, Moves DEF TypeOK, Process
<1>4. Held'  BY <1>1, Moves DEF IInv, Held, Process
<1>5. Ended'  BY DEF IInv, Ended, Process
<1>6. ReceiptAgrees'  BY DEF IInv, ReceiptAgrees, Process
<1>. QED  BY <1>3, <1>4, <1>5, <1>6 DEF IInv

-------------------------------------------------------------------------------
\* The first confirmation settles the instant, the others read it.
LEMMA ConfirmKeeps == ASSUME IInv, NEW e \in Erasers, Confirm(e) PROVE IInv'
<1>1. TypeOK /\ e \in Actors  BY DEF IInv, Actors
<1>2. /\ ErasedAt \in Minutes /\ ErasedAt # None
      /\ term.erased # None => ErasedAt = term.erased
      /\ term.until <= ErasedAt
  BY <1>1, OnboardingAssumption
  DEF IInv, Ended, TypeOK, Confirm, Eligible, ErasedAt, Minutes, None
<1>3. /\ term' \in [status : {"none", "completed"}, until : {None} \cup 0..(Horizon + 1),
                    erased : {None} \cup Minutes]
      /\ term'.erased = ErasedAt /\ term'.until = term.until /\ term'.status = term.status
  BY <1>1, <1>2 DEF TypeOK, Confirm
<1>4. /\ actor' \in [Actors -> [pc : Steps, at : {None} \cup Minutes]]
      /\ actor'[e] = [pc |-> "archiving", at |-> ErasedAt]
      /\ \A b \in Actors : b # e => actor'[b] = actor[b]
  BY <1>1, <1>2 DEF TypeOK, Confirm, GoesAt, Steps
<1>5. TypeOK'
  <2>1. \A a \in Actors : actor'[a].pc \in {"publishing", "archiving"} => actor'[a].at # None
    BY <1>1, <1>2, <1>4 DEF TypeOK
  <2>2. UNCHANGED <<now, offered, binding, contract, versions, profile, enrollment, enabled, billed,
                    receipt, told, events, faults>>
    BY DEF Confirm
  <2>. QED  BY <1>1, <1>3, <1>4, <2>1, <2>2 DEF TypeOK
<1>6. Ended'  BY <1>2, <1>3 DEF IInv, Ended, Confirm, Eligible
<1>7. Held'  BY <1>2, <1>3, <1>4 DEF IInv, Held
<1>8. ReceiptAgrees'
  BY <1>1, <1>2, <1>3 DEF IInv, ReceiptAgrees, Confirm, TypeOK
<1>. QED  BY <1>5, <1>6, <1>7, <1>8 DEF IInv

\* A receipt is archived: the first one stays, and they all say the same.
LEMMA ArchiveKeeps == ASSUME IInv, NEW e \in Erasers, Archive(e) PROVE IInv'
<1>1. TypeOK /\ e \in Actors /\ "idle" \in Steps \ {"publishing", "archiving"}
  BY DEF IInv, Actors, Steps
<1>2. actor[e].at = term.erased /\ term.erased # None /\ term.erased \in Minutes
  BY <1>1 DEF IInv, Held, Archive, TypeOK
<1>3. TypeOK'  BY <1>1, <1>2, Moves DEF TypeOK, Archive
<1>4. Held'  BY <1>1, Moves DEF IInv, Held, Archive
<1>5. Ended'  BY DEF IInv, Ended, Archive
<1>6. ReceiptAgrees'  BY <1>2 DEF IInv, ReceiptAgrees, Ended, Archive
<1>. QED  BY <1>3, <1>4, <1>5, <1>6 DEF IInv

LEMMA StopsKeeps == ASSUME IInv, NEW a \in Actors, Stops(a) PROVE IInv'
<1>1. TypeOK /\ "idle" \in Steps \ {"publishing", "archiving"}  BY DEF IInv, Steps
<1>2. faults' \in 0..MaxFaults  BY <1>1, Counted DEF Stops
<1>3. profile' \in {"none", "onboarding", "operator"}  BY <1>1 DEF TypeOK, Stops
<1>4. TypeOK'  BY <1>1, <1>2, <1>3, Moves DEF TypeOK, Stops
<1>5. Held'  BY <1>1, Moves DEF IInv, Held, Stops
<1>6. Ended' /\ ReceiptAgrees'  BY DEF IInv, Ended, ReceiptAgrees, Stops
<1>. QED  BY <1>4, <1>5, <1>6 DEF IInv

-------------------------------------------------------------------------------
\* What timers, operators and time do moves no request.
LEMMA TimersKeep ==
    ASSUME IInv, TimerBills \/ Tick \/ \E i \in DOMAIN versions : TimerDelivers(i)
    PROVE  IInv'
<1>1. TypeOK  BY DEF IInv
<1>2. versions' \in Seq(Versions)
  <2>1. ASSUME NEW i \in DOMAIN versions, TimerDelivers(i) PROVE versions' \in Seq(Versions)
    <3>1. versions \in Seq(Versions) /\ versions[i] \in Versions  BY <1>1, <2>1 DEF TypeOK
    <3>2. [versions[i] EXCEPT !.synced = TRUE] \in Versions  BY <3>1 DEF Versions
    <3>3. versions' = [versions EXCEPT ![i] = [versions[i] EXCEPT !.synced = TRUE]]
      BY <2>1 DEF TimerDelivers
    <3>. QED  BY <3>1, <3>2, <3>3, <2>1, ExceptSeq
  <2>. QED  BY <1>1, <2>1 DEF TypeOK, TimerBills, Tick
<1>3. now' \in Minutes /\ billed' \in BOOLEAN
  <2>1. CASE Tick  BY <1>1, <2>1, OnboardingAssumption DEF TypeOK, Tick, Minutes
  <2>2. CASE TimerBills  BY <1>1, <2>2 DEF TypeOK, TimerBills
  <2>3. CASE \E i \in DOMAIN versions : TimerDelivers(i)
    BY <1>1, <2>3 DEF TypeOK, TimerDelivers
  <2>. QED  BY <2>1, <2>2, <2>3
<1>4. UNCHANGED <<offered, binding, contract, profile, enrollment, enabled, term, receipt, told,
                  actor, events, faults>>
  BY DEF TimerBills, Tick, TimerDelivers
<1>. QED  BY <1>1, <1>2, <1>3, <1>4 DEF IInv, TypeOK, Ended, Held, ReceiptAgrees

LEMMA OperatorsKeep == ASSUME IInv, Operators PROVE IInv'
<1>1. TypeOK  BY DEF IInv
<1>2. events' \in 0..MaxEvents
  BY <1>1, Counted
  DEF Operators, ChangeCatalog, OperatorSetsProfile, OperatorEnrolls, OperatorSwitches, Terminate,
      OperatorPublishes, OperatorCancels, TypeOK
<1>3. CASE Terminate
  <2>1. term = [status |-> "none", until |-> term.until, erased |-> None] /\ receipt = None
        /\ binding # None
    BY <1>1, <1>3 DEF IInv, Ended, ReceiptAgrees, TypeOK, Terminate
  <2>2. term' \in [status : {"none", "completed"}, until : {None} \cup 0..(Horizon + 1),
                   erased : {None} \cup Minutes] /\ term'.erased = None
    <3>1. now + 1 \in 0..(Horizon + 1)
      BY <1>1, OnboardingAssumption DEF TypeOK, Minutes
    <3>2. term' = [term EXCEPT !.status = "completed", !.until = now + 1]
      BY <1>3 DEF Terminate
    <3>3. term \in [status : {"none", "completed"}, until : {None} \cup 0..(Horizon + 1),
                    erased : {None} \cup Minutes] /\ term.erased = None
      BY <1>1, <2>1 DEF TypeOK
    <3> DEFINE U == now + 1
    <3>4. U \in {None} \cup 0..(Horizon + 1)  BY <3>1
    <3>5. term' = [term EXCEPT !.status = "completed", !.until = U]  BY <3>2
    <3> HIDE DEF U
    <3>. QED  BY <3>3, <3>4, <3>5
  <2>3. TypeOK'  BY <1>1, <1>2, <1>3, <2>2 DEF TypeOK, Terminate
  <2>4. Ended'  BY <1>3, <2>1, <2>2 DEF IInv, Ended, Terminate
  <2>5. Held' /\ ReceiptAgrees'
    BY <1>3, <2>1, <2>2 DEF IInv, Held, ReceiptAgrees, Terminate
  <2>. QED  BY <2>3, <2>4, <2>5 DEF IInv
<1>4. CASE \/ ChangeCatalog \/ OperatorSetsProfile \/ OperatorEnrolls \/ OperatorSwitches
           \/ \E terms \in {"catalog", "courtesy"}, at \in Minutes : OperatorPublishes(terms, at)
           \/ \E i \in DOMAIN versions : OperatorCancels(i)
  <2>1. UNCHANGED <<now, binding, contract, term, billed, receipt, told, actor, faults>>
    BY <1>4
    DEF ChangeCatalog, OperatorSetsProfile, OperatorEnrolls, OperatorSwitches, OperatorPublishes,
        OperatorCancels
  <2>2. versions' \in Seq(Versions)
    <3>0. versions \in Seq(Versions)  BY <1>1 DEF TypeOK
    <3>1. ASSUME NEW terms \in {"catalog", "courtesy"}, NEW at \in Minutes,
                 OperatorPublishes(terms, at)
          PROVE  versions' \in Seq(Versions)
      <4> DEFINE row == Version("operator", at, terms)
      <4>1. row \in Versions  BY DEF Version, Versions
      <4>2. versions' = Append(versions, row)  BY <3>1 DEF OperatorPublishes
      <4> HIDE DEF row
      <4>. QED  BY <3>0, <4>1, <4>2, AppendProperties
    <3>2. ASSUME NEW i \in DOMAIN versions, OperatorCancels(i) PROVE versions' \in Seq(Versions)
      <4>1. versions[i] \in Versions  BY <3>0
      <4>2. [versions[i] EXCEPT !.cancelled = TRUE] \in Versions  BY <4>1 DEF Versions
      <4>3. versions' = [versions EXCEPT ![i] = [versions[i] EXCEPT !.cancelled = TRUE]]
        BY <3>2 DEF OperatorCancels
      <4>. QED  BY <3>0, <4>1, <4>2, <4>3, ExceptSeq
    <3>. QED
      BY <1>4, <3>0, <3>1, <3>2
      DEF ChangeCatalog, OperatorSetsProfile, OperatorEnrolls, OperatorSwitches
  <2>3. offered' \in BOOLEAN /\ profile' \in {"none", "onboarding", "operator"}
        /\ enrollment' \in Enrollments /\ enabled' \in BOOLEAN
    <3>1. CASE OperatorEnrolls
      <4>1. [by |-> "operator", day |-> Day(now)] \in Enrollments
        BY <1>1 DEF TypeOK, Enrollments
      <4>. QED  BY <1>1, <3>1, <4>1 DEF TypeOK, OperatorEnrolls
    <3>2. CASE ChangeCatalog  BY <1>1, <3>2 DEF TypeOK, ChangeCatalog
    <3>3. CASE OperatorSetsProfile  BY <1>1, <3>3 DEF TypeOK, OperatorSetsProfile
    <3>4. ASSUME NEW terms \in {"catalog", "courtesy"}, NEW at \in Minutes,
                 OperatorPublishes(terms, at)
          PROVE  UNCHANGED <<offered, profile, enrollment, enabled>>
      BY <3>4 DEF OperatorPublishes
    <3>5. ASSUME NEW i \in DOMAIN versions, OperatorCancels(i)
          PROVE  UNCHANGED <<offered, profile, enrollment, enabled>>
      BY <3>5 DEF OperatorCancels
    <3>6. CASE OperatorSwitches  BY <1>1, <3>6 DEF TypeOK, OperatorSwitches
    <3>. QED  BY <1>1, <1>4, <3>1, <3>2, <3>3, <3>4, <3>5, <3>6 DEF TypeOK
  <2>4. TypeOK'  BY <1>1, <1>2, <2>1, <2>2, <2>3 DEF TypeOK
  <2>. QED  BY <2>1, <2>4 DEF IInv, Ended, Held, ReceiptAgrees
<1>. QED  BY <1>3, <1>4 DEF Operators

-------------------------------------------------------------------------------
\* No step breaks the invariant.
LEMMA NextKeeps == ASSUME IInv, [Next]_vars PROVE IInv'
<1>1. ASSUME NEW c \in Calls, Provision(c) \/ Proceeds(c) PROVE IInv'
  BY <1>1, PathKeeps, ListKeeps, BindKeeps, PublishKeeps, DeliveredKeeps, PutProfileKeeps,
     EnrollKeeps, ProcessKeeps DEF Proceeds
<1>2. ASSUME NEW e \in Erasers, Confirm(e) \/ Archive(e) PROVE IInv'
  BY <1>2, ConfirmKeeps, ArchiveKeeps
<1>3. ASSUME NEW a \in Actors, Stops(a) PROVE IInv'
  BY <1>3, StopsKeeps
<1>4. CASE UNCHANGED vars
  BY <1>4 DEF IInv, TypeOK, Ended, Held, ReceiptAgrees, vars
<1>. QED  BY <1>1, <1>2, <1>3, <1>4, TimersKeep, OperatorsKeep DEF Next

THEOREM Invariant == Spec => []IInv
BY InitIInv, NextKeeps, PTL DEF Spec

-------------------------------------------------------------------------------
\* In every reachable state the account, its contract and the requests have
\* their types; nobody publishes terms or archives a receipt without an instant.
THEOREM TypeCorrect == Spec => []TypeOK
<1>1. IInv => TypeOK  BY DEF IInv
<1>. QED  BY Invariant, <1>1, PTL

\* However often the erasure of an account is confirmed, by however many
\* requests, and wherever one of them dies: the receipt in the archive names the
\* instant of the row, after the retention, and no answer comes before it.
THEOREM ReceiptsAgree == Spec => []ReceiptAgrees
<1>1. IInv => ReceiptAgrees  BY DEF IInv
<1>. QED  BY Invariant, <1>1, PTL

-------------------------------------------------------------------------------
\* What a call has reached by its step, itself or because it found it done.
Later == {"profile", "putting", "recurrence", "enrolling", "processing"}

Reached(pc) ==
    /\ pc \in {"listing", "publishing"} => binding # None
    /\ pc \in {"delivering", "refreshing", "resending", "checking"} \cup Later =>
        binding # None /\ versions # <<>>
    /\ pc \in {"recurrence", "enrolling", "processing"} => profile # "none"
    /\ pc = "processing" => enrollment # NotEnrolled

\* Only an account that was bound has a contract, and only its contract has
\* conditions.
Founded == contract # "none" \/ versions # <<>> => binding # None

Way == Founded /\ ReadyIsSetUp /\ \A c \in Calls : Reached(actor[c].pc)

\* A version that is confirmed stays so, whatever is appended or sent.
Grows ==
    /\ DOMAIN versions \subseteq DOMAIN versions'
    /\ \A i \in DOMAIN versions : /\ versions'[i].terms = versions[i].terms
                                  /\ versions[i].synced => versions'[i].synced

LEMMA Appended ==
    ASSUME TypeOK, NEW v, versions' = Append(versions, v)
    PROVE  Grows /\ versions' # <<>>
<1>1. PICK n \in Nat : DOMAIN versions = 1..n /\ Len(versions) = n  BY DEF TypeOK
<1>2. DOMAIN versions' = 1..(n + 1) /\ \A i \in 1..n : versions'[i] = versions[i]
  BY <1>1 DEF TypeOK
<1>3. n + 1 \in DOMAIN versions' /\ DOMAIN <<>> = {}  BY <1>2
<1>. QED  BY <1>1, <1>2, <1>3 DEF Grows

LEMMA Synced ==
    ASSUME TypeOK, NEW Those,
           versions' = [i \in DOMAIN versions |->
                          IF i \in Those THEN [versions[i] EXCEPT !.synced = TRUE] ELSE versions[i]]
    PROVE  Grows
<1>1. \A i \in DOMAIN versions : versions[i] \in Versions  BY DEF TypeOK
<1>. QED  BY <1>1 DEF Grows, Versions

LEMMA SyncedOne ==
    ASSUME TypeOK, NEW i \in DOMAIN versions, versions' = [versions EXCEPT ![i].synced = TRUE]
    PROVE  Grows
<1>1. \A j \in DOMAIN versions : versions[j] \in Versions  BY DEF TypeOK
<1>. QED  BY <1>1 DEF Grows, Versions

LEMMA CancelledOne ==
    ASSUME TypeOK, NEW i \in DOMAIN versions, versions' = [versions EXCEPT ![i].cancelled = TRUE]
    PROVE  Grows
<1>1. \A j \in DOMAIN versions : versions[j] \in Versions  BY DEF TypeOK
<1>. QED  BY <1>1 DEF Grows, Versions

\* What was reached stays reached.
Kept ==
    /\ Grows
    /\ binding # None => binding' # None
    /\ contract' # "none" => contract # "none" \/ binding' # None
    /\ profile # "none" => profile' # "none"
    /\ enrollment # NotEnrolled => enrollment' = enrollment

LEMMA NextKept == ASSUME TypeOK, [Next]_vars PROVE Kept
<1>1. Grows
  <2>1. CASE versions' = versions  BY <2>1 DEF Grows
  <2>2. ASSUME NEW c \in Calls, Publish(c) PROVE Grows
    BY <2>1, <2>2, Appended DEF Publish
  <2>3. ASSUME NEW c \in Calls, Delivered(c) PROVE Grows
    BY <2>1, <2>3, Synced DEF Delivered
  <2>4. ASSUME NEW i \in DOMAIN versions, TimerDelivers(i) PROVE Grows
    BY <2>4, SyncedOne DEF TimerDelivers
  <2>5. ASSUME NEW terms \in {"catalog", "courtesy"}, NEW at \in Minutes,
               OperatorPublishes(terms, at)
        PROVE  Grows
    BY <2>5, Appended DEF OperatorPublishes
  <2>6. ASSUME NEW i \in DOMAIN versions, OperatorCancels(i) PROVE Grows
    BY <2>6, CancelledOne DEF OperatorCancels
  <2>. QED
    BY <2>1, <2>2, <2>3, <2>4, <2>5, <2>6
    DEF Next, Provision, Proceeds, ReadCatalog, Bind, List, Refresh, Check, GetProfile, PutProfile,
        GetRecurrence, Enroll, Process, Confirm, Archive, Stops, TimerBills, Operators,
        ChangeCatalog, OperatorSetsProfile, OperatorEnrolls, OperatorSwitches, Terminate, Tick,
        ActorOnly, vars
<1>2. /\ binding # None => binding' # None
      /\ contract' # "none" => contract # "none" \/ binding' # None
  <2>1. now # None  BY OnboardingAssumption DEF TypeOK, Minutes, None
  <2>2. ASSUME NEW c \in Calls, Bind(c) PROVE binding' # None  BY <2>1, <2>2 DEF Bind
  <2>3. CASE Terminate  BY <2>3 DEF Terminate
  <2>4. CASE UNCHANGED <<binding, contract>>  BY <2>4
  <2>. QED
    BY <2>2, <2>3, <2>4
    DEF Next, Provision, Proceeds, ReadCatalog, List, Publish, Delivered, Refresh, Check,
        GetProfile, PutProfile, GetRecurrence, Enroll, Process, Confirm, Archive, Stops,
        TimerDelivers, TimerBills, Operators, ChangeCatalog, OperatorPublishes, OperatorCancels,
        OperatorSwitches, OperatorSetsProfile, OperatorEnrolls, Tick, ActorOnly, vars
<1>3. profile # "none" => profile' # "none"
  <2>1. profile' \in {profile, "onboarding", "operator"}
    BY DEF Next, Provision, Proceeds, ReadCatalog, Bind, List, Publish, Delivered, Refresh, Check,
        GetProfile, PutProfile, GetRecurrence, Enroll, Process, Confirm, Archive, Stops,
        TimerDelivers, TimerBills, Operators, ChangeCatalog, OperatorPublishes, OperatorCancels,
        OperatorSwitches, OperatorSetsProfile, OperatorEnrolls, Terminate, Tick, ActorOnly, vars
  <2>. QED  BY <2>1
<1>4. enrollment # NotEnrolled => enrollment' = enrollment
  BY DEF Next, Provision, Proceeds, ReadCatalog, Bind, List, Publish, Delivered, Refresh, Check,
      GetProfile, PutProfile, GetRecurrence, Enroll, Process, Confirm, Archive, Stops,
      TimerDelivers, TimerBills, Operators, ChangeCatalog, OperatorPublishes, OperatorCancels,
      OperatorSwitches, MayEnroll, OperatorSetsProfile, OperatorEnrolls, Terminate, Tick,
      ActorOnly, vars
<1>. QED  BY <1>1, <1>2, <1>3, <1>4 DEF Kept

LEMMA StillReached ==
    ASSUME TypeOK, TypeOK', Kept, NEW pc, Reached(pc)
    PROVE  Reached(pc)'
<1>1. versions # <<>> => versions' # <<>>
  <2>1. versions # <<>> => 1 \in DOMAIN versions  BY DEF TypeOK
  <2>2. versions' = <<>> => DOMAIN versions' = {}  OBVIOUS
  <2>. QED  BY <2>1, <2>2 DEF Kept, Grows
<1>. QED  BY <1>1 DEF Kept, Reached

\* One request moves to a step whose conditions it has reached.
LEMMA MovesOn ==
    ASSUME TypeOK, TypeOK', Kept, Way, NEW a \in Actors, NEW pc, NEW t,
           actor' = [actor EXCEPT ![a] = [pc |-> pc, at |-> t]], a \in Calls => Reached(pc)'
    PROVE  \A c \in Calls : Reached(actor[c].pc)'
<1>. SUFFICES ASSUME NEW c \in Calls PROVE Reached(actor[c].pc)'  OBVIOUS
<1>1. c \in Actors /\ actor \in [Actors -> [pc : Steps, at : {None} \cup Minutes]]
  BY DEF Actors, TypeOK
<1>2. CASE c = a
  <2>1. actor'[c].pc = pc  BY <1>1, <1>2
  <2>. QED  BY <1>2, <2>1 DEF Reached
<1>3. CASE c # a
  <2>1. PICK p : p = actor[c].pc  OBVIOUS
  <2>2. actor'[c].pc = p  BY <1>1, <1>3, <2>1
  <2>3. Reached(p)'  BY <2>1, StillReached DEF Way
  <2>. QED  BY <2>2, <2>3 DEF Reached
<1>. QED  BY <1>2, <1>3

\* Each step of provision() is taken for a reason that stands.
LEMMA ProvisionReaches ==
    ASSUME TypeOK, TypeOK', Kept, Way, NEW c \in Calls, Provision(c) \/ Proceeds(c)
    PROVE  \A b \in Calls : Reached(actor[b].pc)'
<1>1. c \in Actors /\ Reached(actor[c].pc)  BY DEF Actors, Way
<1>2. PICK p : p = actor[c].pc  OBVIOUS
<1>3. Reached(p) /\ Reached(p)'  BY <1>1, <1>2, StillReached
<1>4. versions # <<>> => binding # None /\ versions' # <<>>
  <2>1. versions # <<>> => 1 \in DOMAIN versions  BY DEF TypeOK
  <2>2. versions' = <<>> => DOMAIN versions' = {}  OBVIOUS
  <2>. QED  BY <2>1, <2>2 DEF Kept, Grows, Way, Founded
<1>5. \E pc : (Goes(c, pc) \/ \E t : GoesAt(c, pc, t)) /\ Reached(pc)'
  <2>0. /\ Reached("idle")' /\ Reached("catalog")' /\ Reached("binding")'
        /\ binding' # None => Reached("listing")' /\ Reached("publishing")'
        /\ binding' # None /\ versions' # <<>> =>
             \A pc \in {"delivering", "refreshing", "resending", "checking", "profile", "putting"} :
               Reached(pc)'
        /\ binding' # None /\ versions' # <<>> /\ profile' # "none" =>
             /\ Reached("recurrence")' /\ Reached("enrolling")'
             /\ enrollment' # NotEnrolled => Reached("processing")'
    BY DEF Reached, Later
  <2>1. CASE Provision(c) \/ ReadCatalog(c)
    <3>1. binding # None => binding' # None  BY DEF Kept
    <3>. QED  BY <2>0, <2>1, <3>1 DEF Provision, ReadCatalog
  <2>2. CASE Bind(c)
    <3>1. binding' # None  BY <2>2, OnboardingAssumption DEF Bind, TypeOK, Minutes, None
    <3>. QED  BY <2>0, <2>2, <3>1 DEF Bind
  <2>3. CASE List(c)
    <3>1. binding' # None  BY <1>2, <1>3, <2>3 DEF List, Reached
    <3>2. versions = <<>> \/ versions' # <<>>  BY <1>4
    <3>. QED  BY <2>0, <2>3, <3>1, <3>2 DEF List
  <2>4. CASE Publish(c)
    <3>1. binding' # None  BY <1>2, <1>3, <2>4 DEF Publish, Reached
    <3>2. Registered # {} => versions # <<>>
      <4>1. DOMAIN <<>> = {}  OBVIOUS
      <4>. QED  BY <4>1 DEF Registered
    <3>3. Goes(c, "delivering") => versions' # <<>> \/ Goes(c, "refreshing") \/ Goes(c, "idle")
      BY <2>4, Appended DEF Publish
    <3>4. \/ Goes(c, "idle")
          \/ versions' # <<>> /\ (Goes(c, "refreshing") \/ Goes(c, "delivering"))
      BY <1>4, <2>4, <3>2, <3>3 DEF Publish
    <3>. QED  BY <2>0, <3>1, <3>4
  <2>5. CASE Delivered(c) \/ Refresh(c) \/ Check(c)
    <3>1. binding' # None /\ versions' # <<>>
      BY <1>2, <1>3, <2>5 DEF Delivered, Refresh, Check, Reached
    <3>. QED  BY <2>0, <2>5, <3>1 DEF Delivered, Refresh, Check
  <2>6. CASE GetProfile(c) \/ PutProfile(c)
    <3>1. binding' # None /\ versions' # <<>>
      BY <1>2, <1>3, <2>6 DEF GetProfile, PutProfile, Reached, Later
    <3>2. profile' # "none" \/ Goes(c, "putting")
      BY <2>6 DEF GetProfile, PutProfile, ActorOnly
    <3>. QED  BY <2>0, <2>6, <3>1, <3>2 DEF GetProfile, PutProfile
  <2>7. CASE GetRecurrence(c) \/ Enroll(c)
    <3>1. binding' # None /\ versions' # <<>> /\ profile' # "none"
      BY <1>2, <1>3, <2>7 DEF GetRecurrence, Enroll, Reached, Later
    <3>2. enrollment' # NotEnrolled \/ Goes(c, "enrolling") \/ Goes(c, "idle")
      <4>1. CASE GetRecurrence(c)  BY <4>1 DEF GetRecurrence, ActorOnly
      <4>2. CASE Enroll(c)
        <5>1. [by |-> "onboarding", day |-> Day(now)] # NotEnrolled  BY DEF NotEnrolled
        <5>. QED  BY <4>2, <5>1 DEF Enroll
      <4>. QED  BY <2>7, <4>1, <4>2
    <3>. QED  BY <2>0, <2>7, <3>1, <3>2 DEF GetRecurrence, Enroll
  <2>8. CASE Process(c)
    BY <2>0, <2>8 DEF Process
  <2>. QED
    BY <2>1, <2>2, <2>3, <2>4, <2>5, <2>6, <2>7, <2>8 DEF Proceeds
<1>. QED  BY <1>1, <1>5, MovesOn DEF Goes, GoesAt

LEMMA OthersReach ==
    ASSUME TypeOK, TypeOK', Kept, Way, [Next]_vars,
           ~\E c \in Calls : Provision(c) \/ Proceeds(c)
    PROVE  \A b \in Calls : Reached(actor[b].pc)'
<1>1. CASE actor' = actor
  <2>. SUFFICES ASSUME NEW b \in Calls PROVE Reached(actor[b].pc)'  OBVIOUS
  <2>1. PICK p : p = actor[b].pc  OBVIOUS
  <2>2. Reached(p)'  BY <2>1, StillReached DEF Way
  <2>. QED  BY <1>1, <2>1, <2>2 DEF Reached
<1>2. \A pc \in {"idle", "archiving"} : Reached(pc)'  BY DEF Reached, Later
<1>3. ASSUME NEW e \in Erasers, Confirm(e) \/ Archive(e)
      PROVE  \A b \in Calls : Reached(actor[b].pc)'
  BY <1>2, <1>3, MovesOn DEF Confirm, Archive, Goes, GoesAt, Actors
<1>4. ASSUME NEW a \in Actors, Stops(a)
      PROVE  \A b \in Calls : Reached(actor[b].pc)'
  BY <1>2, <1>4, MovesOn DEF Stops, Goes
<1>. QED
  BY <1>1, <1>3, <1>4
  DEF Next, TimerDelivers, TimerBills, Operators, ChangeCatalog, OperatorPublishes,
      OperatorCancels, OperatorSwitches, OperatorSetsProfile, OperatorEnrolls, Terminate, Tick,
      vars

\* A recurrence is enabled under confirmed terms, and only it is billed.
LEMMA SetUpStays ==
    ASSUME TypeOK, TypeOK', Kept, Way, [Next]_vars
    PROVE  ReadyIsSetUp'
<1>1. Confirmed({"catalog"}) => Confirmed({"catalog"})'
  BY DEF Confirmed, Kept, Grows
<1>2. MayEnroll => Confirmed({"catalog"})
  BY DEF MayEnroll, InBilling, Effective, Standing, Confirmed
<1>3. ASSUME enrollment' # enrollment
      PROVE  enrollment = NotEnrolled /\ binding # None /\ Confirmed({"catalog"})
  <2>1. ASSUME NEW c \in Calls, Enroll(c) PROVE binding # None /\ Confirmed({"catalog"})
    <3>1. Reached("enrolling")  BY <2>1 DEF Enroll, Way
    <3>2. MayEnroll  BY <1>3, <2>1 DEF Enroll
    <3>. QED  BY <1>2, <3>1, <3>2 DEF Reached, Later
  <2>2. CASE OperatorEnrolls
    BY <1>2, <2>2 DEF OperatorEnrolls, MayEnroll, Way, Founded
  <2>3. OperatorEnrolls \/ \E c \in Calls : Enroll(c)
    BY <1>3
    DEF Next, Provision, Proceeds, ReadCatalog, Bind, List, Publish, Delivered, Refresh, Check,
        GetProfile, PutProfile, GetRecurrence, Process, Confirm, Archive, Stops, TimerDelivers,
        TimerBills, Operators, ChangeCatalog, OperatorPublishes, OperatorCancels,
        OperatorSwitches, OperatorSetsProfile, Terminate, Tick, ActorOnly, vars
  <2>4. enrollment = NotEnrolled  BY <1>3 DEF Kept
  <2>. QED  BY <2>1, <2>2, <2>3, <2>4
<1>4. billed' => billed \/ enrollment # NotEnrolled
  BY DEF Next, Provision, Proceeds, ReadCatalog, Bind, List, Publish, Delivered, Refresh, Check,
      GetProfile, PutProfile, GetRecurrence, Enroll, Process, Billable, Confirm, Archive, Stops,
      TimerDelivers, TimerBills, Operators, ChangeCatalog, OperatorPublishes, OperatorCancels,
      OperatorSwitches, OperatorSetsProfile, OperatorEnrolls, Terminate, Tick, ActorOnly, vars
<1>5. "ready" \in told' => "ready" \in told \/ (enrollment # NotEnrolled /\ profile # "none")
  <2>1. ASSUME NEW c \in Calls, Process(c) PROVE enrollment # NotEnrolled /\ profile # "none"
    <3>1. Reached("processing")  BY <2>1 DEF Process, Way
    <3>. QED  BY <3>1 DEF Reached
  <2>2. ASSUME NEW e \in Erasers, Archive(e) PROVE "ready" \in told' => "ready" \in told
    BY <2>2 DEF Archive
  <2>3. CASE told' = told  BY <2>3
  <2>. QED
    BY <2>1, <2>2, <2>3
    DEF Next, Provision, Proceeds, ReadCatalog, Bind, List, Publish, Delivered, Refresh, Check,
        GetProfile, PutProfile, GetRecurrence, Enroll, Confirm, Stops, TimerDelivers, TimerBills,
        Operators, ChangeCatalog, OperatorPublishes, OperatorCancels, OperatorSwitches,
        OperatorSetsProfile, OperatorEnrolls, Terminate, Tick, ActorOnly, vars
<1>6. enrollment # NotEnrolled => enrollment' # NotEnrolled  BY DEF Kept
<1>7. enrollment' # NotEnrolled => binding' # None /\ Confirmed({"catalog"})'
  BY <1>1, <1>3 DEF Way, ReadyIsSetUp, Kept
<1>. QED  BY <1>4, <1>5, <1>6, <1>7 DEF Way, ReadyIsSetUp, Kept

LEMMA FoundedStays ==
    ASSUME TypeOK, TypeOK', Kept, Way, [Next]_vars
    PROVE  Founded'
<1>1. contract' # "none" => binding' # None  BY DEF Kept, Way, Founded
<1>2. versions' # <<>> => binding # None
  <2>1. CASE versions # <<>>  BY <2>1 DEF Way, Founded
  <2>2. CASE versions = <<>>
    <3>1. ASSUME NEW c \in Calls, Publish(c) PROVE binding # None
      <4>1. Reached("publishing")  BY <3>1 DEF Publish, Way
      <4>. QED  BY <4>1 DEF Reached
    <3>2. ASSUME NEW terms \in {"catalog", "courtesy"}, NEW at \in Minutes,
                 OperatorPublishes(terms, at)
          PROVE  binding # None
      BY <3>2 DEF OperatorPublishes, MaySave, Way, Founded
    <3>3. DOMAIN versions = {}  BY <2>2
    <3>4. ASSUME NEW c \in Calls, Delivered(c) PROVE versions' = <<>>
      <4>1. DOMAIN versions' = {}  BY <3>3, <3>4, <2>2 DEF Delivered
      <4>. QED  BY <4>1 DEF TypeOK
    <3>. QED
      BY <2>2, <3>1, <3>2, <3>3, <3>4
      DEF Next, Provision, Proceeds, ReadCatalog, Bind, List, Refresh, Check,
        GetProfile, PutProfile, GetRecurrence, Enroll, Process, Confirm, Archive, Stops,
        TimerDelivers, TimerBills, Operators, ChangeCatalog, OperatorSwitches,
        OperatorSetsProfile, OperatorEnrolls, Terminate, Tick, ActorOnly, vars
  <2>. QED  BY <2>1, <2>2
<1>. QED  BY <1>1, <1>2 DEF Founded, Kept

\* Cloud is told that an account is ready only when its profile and its
\* recurrence are there, and the account is enrolled and billed only under
\* terms that Billing has confirmed: at whatever step a call began, and whoever
\* else published, enrolled or failed meanwhile.
THEOREM ReadyIsReady == Spec => []ReadyIsSetUp
<1>1. Init => Way
  BY DEF Init, Way, Founded, ReadyIsSetUp, Reached, Later, Idle, Actors
<1>2. TypeOK /\ TypeOK' /\ Way /\ [Next]_vars => Way'
  <2>. SUFFICES ASSUME TypeOK, TypeOK', Way, [Next]_vars PROVE Way'  OBVIOUS
  <2>1. Kept  BY NextKept
  <2>2. \A b \in Calls : Reached(actor[b].pc)'  BY <2>1, ProvisionReaches, OthersReach
  <2>. QED  BY <2>1, <2>2, SetUpStays, FoundedStays DEF Way
<1>3. Way => ReadyIsSetUp  BY DEF Way
<1>. QED  BY TypeCorrect, <1>1, <1>2, <1>3, PTL DEF Spec
================================================================================
