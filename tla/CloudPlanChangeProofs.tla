------------------------- MODULE CloudPlanChangeProofs -------------------------
(***************************************************************************)
(* Theorems about CloudPlanChange for any number of actors, any horizon    *)
(* and any number of faults, with their proofs.                            *)
(*                                                                         *)
(* The claim of a row excludes nobody once it has lapsed, so what an actor *)
(* has learnt cannot rest on it (but for Alone).  It rests on what cannot  *)
(* be undone: Billing does not give paid money back, a published revision  *)
(* stays, an invoice that was given up is not taken up again, and versions *)
(* follow each other in time.  Learnt says what an actor knows at each     *)
(* step, Progress that no step takes it from the others.                   *)
(*                                                                         *)
(* Three results follow: the safety properties, that a downgrade which is  *)
(* left alone stands when it counts as completed, and that all of it is a  *)
(* behaviour of PlanDeal.                                                  *)
(***************************************************************************)
EXTENDS CloudPlanChange, WellFoundedInduction, FiniteSetTheorems, SequenceTheorems, TLAPS

Revisions == [key : Keys, at : Days, made : Days, cancelled : BOOLEAN, synced : BOOLEAN]
Requests  == [status : Statuses, base : Nat, at : Days, revision : Nat, leased : BOOLEAN]

PaidFor   == billing.payment \in {"paid", "activated"}
Published == Changed # {} /\ \A i \in Changed : revisions[i].synced

\* The days an upgrade may be dated on: what stands and is newer than the base is
\* not overtaken on them, or was saved when they had come.
Ahead == {d \in Days :
    /\ d <= now
    /\ \A j \in Standing : j > request.base =>
           revisions[j].at >= d \/ revisions[j].made >= d}

\* The conditions a contract began with stay; a change publishes once.
History ==
    /\ revisions # <<>> /\ revisions[1].at = 0 /\ ~revisions[1].cancelled
    /\ \A i, j \in Changed : i = j
    /\ request.revision \in 0..Len(revisions)
    /\ Changed # {} => request.status # "none"
    /\ request.status \in {"activated", "completed"} => Published

\* What the rows of an upgrade say of each other and of Billing.
Money == kind # "downgrade" =>
    /\ request.status # "none" => request.at <= now
    /\ billing.paidAt <= now
    /\ Changed # {} => PaidFor
    /\ request.status \in {"activated", "completed"} => billing.payment = "activated"
    /\ request.status = "cancelled" => billing.payment = "cancelled"
    /\ \A i \in Changed : \A j \in (request.base + 1)..(i - 1) :
           \/ revisions[j].cancelled
           \/ revisions[j].made >= revisions[i].at /\ revisions[i].at > revisions[j].at

\* What the customer may be told.
Warranted(status) ==
    /\ status \in {"activated", "completed"} => Published
    /\ kind # "downgrade" =>
        /\ status \in {"activated", "completed"} => billing.payment = "activated"
        /\ status = "cancelled" => billing.payment = "cancelled"

\* What an actor has learnt at each of its steps.
Learnt(a) ==
    /\ actor[a].pc \notin {"idle", "quoted"} => request.status # "none"
    /\ actor[a].pc \in {"cancelling", "dropping"} => actor[a].revision \in 0..Len(revisions)
    /\ actor[a].pc \in {"published", "acked", "telling", "billing", "completing"} => Published
    /\ kind = "downgrade" => actor[a].pc # "asking"
    /\ kind # "downgrade" =>
        /\ actor[a].pc # "billing"
        /\ actor[a].pc = "quoted" => actor[a].at <= now
        /\ actor[a].pc = "answered" =>
            /\ actor[a].payment \in {"paid", "activated"} => PaidFor
            /\ actor[a].payment = "cancelled" => billing.payment = "cancelled"
        /\ actor[a].pc \in {"checking", "publishing", "published"} => PaidFor
        /\ actor[a].pc = "publishing" /\ Changed = {} => actor[a].at \in Ahead
        /\ actor[a].pc \in {"acked", "telling", "completing"} => billing.payment = "activated"
        /\ actor[a].pc = "dropped" => billing.payment = "cancelled"

Knowledge == \A a \in Actors : Learnt(a)

\* Until a claim lapses under its holder, it excludes; and who finds the request
\* completed or cancelled is only about to leave.
Alone == ~lapsed =>
    /\ \A a \in Actors : Inside(a) => request.leased
    /\ \A a, b \in Actors : Inside(a) /\ Inside(b) => a = b
    /\ announced <= 1
    /\ announced = 1 => request.status = "completed"
    /\ request.status \in {"completed", "cancelled"} =>
           \A a \in Actors : Inside(a) => actor[a].pc = "leaving"

IInv == TypeOK /\ History /\ Money /\ Knowledge /\ Alone

-------------------------------------------------------------------------------
\* A finite set of numbers has a greatest one.
LEMMA Greatest ==
    ASSUME NEW n \in Nat, NEW S \in SUBSET (0..n), S # {}
    PROVE  Max(S) \in S /\ \A y \in S : Max(S) >= y
<1> DEFINE R == OpToRel(<, Nat)
           T == {k \in Nat : n - k \in S}
<1>1. \A x, y \in Nat : <<x, y>> \in R <=> x < y  BY DEF OpToRel
<1>2. PICK s \in S : TRUE  OBVIOUS
<1>3. n - s \in T  BY <1>2
<1>4. IsWellFoundedOn(R, Nat)  BY NatLessThanWellFounded
<1> HIDE DEF R
<1>5. PICK x \in T : \A y \in T : ~ (<<y, x>> \in R)
  <2>. HIDE DEF T
  <2>1. T \subseteq Nat  BY DEF T
  <2>. QED  BY <1>3, <1>4, <2>1, WFMin
<1>6. x \in Nat /\ n - x \in S  BY <1>5
<1>7. ASSUME NEW y \in S PROVE n - x >= y
  <2>1. n - y \in T /\ n - y \in Nat /\ y \in Nat  BY <1>7
  <2>2. ~ (n - y < x)  BY <1>1, <1>5, <1>6, <2>1
  <2>. QED  BY <1>6, <2>1, <2>2
<1>. QED  BY <1>6, <1>7 DEF Max

\* The later of two days is a day.
LEMMA Later ==
    ASSUME NEW x \in Int, NEW y \in Int
    PROVE  /\ Max({x, y}) \in {x, y}
           /\ Max({x, y}) >= x /\ Max({x, y}) >= y
<1>1. \E m \in {x, y} : \A z \in {x, y} : m >= z
  <2>1. CASE x >= y  BY <2>1
  <2>2. CASE ~ (x >= y)  BY <2>2
  <2>. QED  BY <2>1, <2>2
<1>. QED  BY <1>1 DEF Max

\* The greatest element of a singleton is that element.
LEMMA Only ==
    ASSUME NEW S \in SUBSET Int, NEW x \in S, \A y \in S : y = x
    PROVE  Max(S) = x
<1>1. \E m \in S : \A y \in S : m >= y  OBVIOUS
<1>2. Max(S) \in S  BY <1>1 DEF Max
<1>. QED  BY <1>2

LEMMA RevisionsAreSeq ==
    ASSUME TypeOK
    PROVE  /\ revisions \in Seq(Revisions)
           /\ Len(revisions) \in Nat /\ DOMAIN revisions = 1..Len(revisions)
           /\ \A i \in DOMAIN revisions : revisions[i] \in Revisions
           /\ request \in Requests
<1>1. revisions \in Seq(Revisions) /\ request \in Requests  BY DEF TypeOK, Revisions, Requests
<1>2. Len(revisions) \in Nat /\ DOMAIN revisions = 1..Len(revisions)
  BY <1>1, LenProperties
<1>. QED  BY <1>1, <1>2, ElementOfSeq

\* There are always conditions in effect; the current ones are the newest.
LEMMA CurrentIsNewest ==
    ASSUME TypeOK, History
    PROVE  Current \in InEffect /\ Current \in Nat /\ \A i \in InEffect : Current >= i
<1>1. /\ Len(revisions) \in Nat /\ DOMAIN revisions = 1..Len(revisions)
      /\ revisions \in Seq(Revisions)
  BY RevisionsAreSeq
<1>2. 1 \in InEffect
  <2>1. 1 \in DOMAIN revisions  BY <1>1 DEF History
  <2>. QED  BY <2>1 DEF History, InEffect, Standing, TypeOK
<1>3. InEffect \subseteq 0..Len(revisions)  BY <1>1 DEF InEffect, Standing
<1>4. InEffect \in SUBSET (0..Len(revisions)) /\ InEffect # {}  BY <1>2, <1>3
<1>5. Max(InEffect) \in InEffect /\ \A i \in InEffect : Max(InEffect) >= i
  <2> DEFINE S == InEffect
  <2> HIDE DEF S
  <2>1. S \in SUBSET (0..Len(revisions)) /\ S # {}  BY <1>4 DEF S
  <2>2. Max(S) \in S /\ \A y \in S : Max(S) >= y  BY <1>1, <2>1, Greatest
  <2>. QED  BY <2>2 DEF S
<1>6. Current \in InEffect /\ \A i \in InEffect : Current >= i  BY <1>5 DEF Current
<1>. QED  BY <1>1, <1>3, <1>6

\* The change has one revision.
LEMMA TheChange ==
    ASSUME TypeOK, History, Changed # {}
    PROVE  /\ Changed = {Max(Changed)}
           /\ Max(Changed) \in DOMAIN revisions
           /\ Max(Changed) \in 1..Len(revisions)
           /\ revisions[Max(Changed)].key = "change"
<1>1. PICK x \in Changed : TRUE  OBVIOUS
<1>2. Changed \subseteq DOMAIN revisions /\ DOMAIN revisions = 1..Len(revisions)
      /\ Len(revisions) \in Nat
  BY RevisionsAreSeq DEF Changed
<1>3. \A y \in Changed : y = x  BY <1>1 DEF History
<1>4. Max(Changed) = x  BY <1>1, <1>2, <1>3, Only
<1>. QED  BY <1>1, <1>2, <1>3, <1>4 DEF Changed

\* An actor moves, and no other one does.
LEMMA Moves ==
    ASSUME TypeOK, NEW a \in Actors, NEW s \in States, Goes(a, s)
    PROVE  /\ actor' \in [Actors -> States]
           /\ actor'[a] = s
           /\ \A b \in Actors : b # a => actor'[b] = actor[b]
BY DEF TypeOK, Goes

\* Faults and moves are counted within their bounds.
LEMMA Counted ==
    ASSUME TypeOK
    PROVE  /\ Fault => faults' \in 0..MaxFaults
           /\ Move => moves' \in 0..MaxMoves
BY PlanAssumption DEF TypeOK, Fault, Move

\* What an actor carries from step to step.
LEMMA Carries ==
    ASSUME TypeOK, NEW a \in Actors
    PROVE  /\ actor[a] \in States
           /\ actor[a].pc = "quoted" => actor[a].base \in Nat /\ actor[a].at \in Days
           /\ actor[a].pc = "publishing" => actor[a].at \in Days
           /\ actor[a].pc \in {"claimed", "asking", "answered"} => actor[a].status \in Open
           /\ actor[a].pc = "answered" => actor[a].payment \in Payments
           /\ actor[a].pc \in {"cancelling", "dropping"} => actor[a].revision \in Nat
BY DEF TypeOK, States, At

LEMMA InitIInv == Init => IInv
<1>. SUFFICES ASSUME Init PROVE IInv  OBVIOUS
<1>1. 0 \in Days /\ PaidUntil \in Days /\ PaidUntil \in Nat
  BY PlanAssumption DEF Days
<1>2. [key |-> "base", at |-> 0, made |-> 0, cancelled |-> FALSE, synced |-> TRUE]
        \in Revisions
  BY <1>1 DEF Revisions, Keys
<1>3. revisions \in Seq(Revisions) /\ Len(revisions) = 1
  BY <1>2 DEF Init
<1>4. request \in Requests  BY <1>1 DEF Init, Requests, Statuses
<1>5. billing \in [payment : Payments, paidAt : Days, next : Days]
  BY <1>1 DEF Init, Payments
<1>6. actor \in [Actors -> States] /\ \A a \in Actors : actor[a].pc = "idle"
  <2>1. Idle \in States  BY DEF Idle, At, States
  <2>. QED  BY <2>1 DEF Init, Idle
<1>7. TypeOK
  <2>1. 0 \in 0..Horizon /\ 0 \in 0..MaxMoves /\ 0 \in 0..MaxFaults /\ 0 \in 0..2
    BY PlanAssumption
  <2>. QED  BY <1>1, <1>3, <1>4, <1>5, <1>6, <2>1 DEF Init, TypeOK, Revisions, Requests
<1>8. Changed = {}  BY <1>3 DEF Init, Changed
<1>9. History /\ Money
  BY <1>3, <1>8 DEF Init, History, Money, Published
<1>10. Knowledge /\ Alone
  BY <1>6 DEF Init, Knowledge, Learnt, Alone, Inside
<1>. QED  BY <1>7, <1>9, <1>10 DEF IInv

-------------------------------------------------------------------------------
\* What no step takes back.
Progress ==
    /\ kind' = kind /\ now' >= now
    /\ request.status # "none" =>
        request'.status # "none" /\ request'.base = request.base /\ request'.at = request.at
    /\ Len(revisions') >= Len(revisions)
    /\ Changed # {} => Changed' # {}
    /\ Published => Published'
    /\ kind # "downgrade" =>
        /\ PaidFor => PaidFor'
        /\ billing.payment \in {"activated", "cancelled"} => billing'.payment = billing.payment
        /\ request.status # "none" /\ Changed' = {} => Ahead \subseteq Ahead'

\* Whoever does not move still knows what it knew.
LEMMA OthersKnow ==
    ASSUME TypeOK, TypeOK', Progress, NEW b \in Actors, Learnt(b), actor'[b] = actor[b]
    PROVE  Learnt(b)'
<1>1. Len(revisions) \in Nat /\ Len(revisions') \in Nat /\ now \in Int /\ now' \in Int
  BY LenProperties DEF TypeOK
<1>2. actor[b].pc = "quoted" => actor[b].at \in Int
  BY Carries, PlanAssumption DEF Days
<1>. QED  BY <1>1, <1>2 DEF Progress, Learnt

\* One actor moves, or none.
LEMMA OneLearns ==
    ASSUME TypeOK, TypeOK', Knowledge, Progress, NEW a \in Actors, Learnt(a)',
           \A b \in Actors : b # a => actor'[b] = actor[b]
    PROVE  Knowledge'
BY OthersKnow DEF Knowledge

LEMMA NoneLearns ==
    ASSUME TypeOK, TypeOK', Knowledge, Progress, actor' = actor
    PROVE  Knowledge'
BY OthersKnow DEF Knowledge

\* What the row says is warranted.
LEMMA AsItIs == ASSUME IInv PROVE Warranted(request.status)
BY DEF IInv, History, Money, Warranted

\* Nothing changes but the request, which stays the one it is.
LEMMA OnRequest ==
    ASSUME IInv, NEW a \in Actors, NEW s \in States, Goes(a, s), RequestOnly,
           request' \in Requests, request'.base = request.base, request'.at = request.at,
           request'.status = "none" <=> request.status = "none",
           request'.revision \in 0..Len(revisions), Warranted(request'.status)
    PROVE  TypeOK' /\ History' /\ Money' /\ Progress
<1>1. TypeOK  BY DEF IInv
<1>2. TypeOK'  BY <1>1, Moves DEF TypeOK, RequestOnly, Requests
<1>3. UNCHANGED <<Standing, Changed, PaidFor, Published>>
  BY DEF RequestOnly, Standing, Changed, PaidFor, Published
<1>4. History'  BY <1>3 DEF IInv, History, RequestOnly, Warranted
<1>5. Money'
  BY <1>3 DEF IInv, Money, RequestOnly, Warranted
<1>6. Progress
  <2>1. now' >= now /\ Len(revisions') >= Len(revisions)
    BY <1>1, PlanAssumption, LenProperties DEF TypeOK, RequestOnly
  <2>2. request.status # "none" => request'.status # "none"  OBVIOUS
  <2>3. Ahead \subseteq Ahead'  BY <1>3 DEF Ahead, RequestOnly
  <2>. QED  BY <1>3, <2>1, <2>2, <2>3 DEF Progress, RequestOnly
<1>. QED  BY <1>2, <1>4, <1>5, <1>6

\* Who works on the row goes on, or leaves with its claim.
LEMMA AloneStep ==
    ASSUME TypeOK, Alone, NEW a \in Actors, NEW s \in States, Goes(a, s), Inside(a),
           UNCHANGED <<lapsed, announced>>,
           request'.leased = request.leased \/ s.pc = "idle",
           \/ request'.status = request.status
           \/ request'.status \in {"completed", "cancelled"} => s.pc \in {"leaving", "idle"},
           \/ actor[a].pc # "leaving"
           \/ s.pc = "idle" /\ request'.status = request.status
    PROVE  Alone'
<1>. SUFFICES ASSUME ~lapsed PROVE Alone'  BY DEF Alone
<1>1. actor'[a] = s /\ \A b \in Actors : b # a => actor'[b] = actor[b]  BY Moves
<1>2. \A b \in Actors : Inside(b) => b = a  BY DEF Alone
<1>3. \A b \in Actors : Inside(b)' => b = a /\ s.pc # "idle"
  BY <1>1, <1>2 DEF Inside
<1>4. request.leased  BY DEF Alone
<1>5. /\ announced = 1 => actor[a].pc = "leaving"
      /\ request.status \in {"completed", "cancelled"} => actor[a].pc = "leaving"
  BY DEF Alone
<1>. QED  BY <1>1, <1>3, <1>4, <1>5 DEF Alone

\* Who does not work on it looks at it.
LEMMA AloneLook ==
    ASSUME TypeOK, Alone, NEW a \in Actors, NEW s \in States, Goes(a, s), ~Inside(a),
           s.pc \in {"idle", "quoted", "cancelling"},
           UNCHANGED <<lapsed, announced, request>>
    PROVE  Alone'
<1>1. actor'[a] = s /\ \A b \in Actors : b # a => actor'[b] = actor[b]  BY Moves
<1>2. \A b \in Actors : Inside(b)' => Inside(b) /\ actor'[b] = actor[b]
  BY <1>1 DEF Inside
<1>. QED  BY <1>2 DEF Alone

\* Who finds it free takes it.
LEMMA AloneClaim ==
    ASSUME TypeOK, Alone, NEW a \in Actors, NEW s \in States, Goes(a, s),
           ~request.leased, request.status \notin {"completed", "cancelled"},
           request' = [request EXCEPT !.leased = TRUE], UNCHANGED <<lapsed, announced>>
    PROVE  Alone'
<1>. SUFFICES ASSUME ~lapsed PROVE Alone'  BY DEF Alone
<1>1. actor'[a] = s /\ \A b \in Actors : b # a => actor'[b] = actor[b]  BY Moves
<1>2. \A b \in Actors : ~Inside(b)  BY DEF Alone
<1>3. \A b \in Actors : Inside(b)' => b = a  BY <1>1, <1>2 DEF Inside
<1>4. request'.leased /\ request'.status = request.status  BY DEF TypeOK
<1>. QED  BY <1>3, <1>4 DEF Alone

-------------------------------------------------------------------------------
\* start().
LEMMA QuoteKeeps == ASSUME IInv, NEW w \in Workers, Quote(w) PROVE IInv'
<1>0. TypeOK /\ History /\ w \in Actors  BY DEF IInv, Actors
<1> DEFINE s == [pc |-> "quoted", base |-> Current,
                 at |-> IF kind = "downgrade" THEN PaidUntil ELSE now]
<1>1. /\ s \in States /\ s.pc = "quoted"
      /\ kind # "downgrade" => s.at = now
  <2>1. Current \in Nat  BY <1>0, CurrentIsNewest
  <2>2. (IF kind = "downgrade" THEN PaidUntil ELSE now) \in Days
    BY <1>0, PlanAssumption DEF TypeOK, Days
  <2>. QED  BY <2>1, <2>2 DEF States
<1>2. Goes(w, s) /\ ActorOnly /\ ~Inside(w)  BY DEF Quote, Idle, Inside
<1> HIDE DEF s
<1>3. TypeOK' /\ History' /\ Money' /\ Progress
  BY <1>0, <1>1, <1>2, OnRequest, AsItIs, RevisionsAreSeq DEF IInv, History, ActorOnly
<1>4. actor'[w] = s /\ \A b \in Actors : b # w => actor'[b] = actor[b]
  BY <1>0, <1>1, <1>2, Moves
<1>5. Learnt(w)'
  BY <1>0, <1>1, <1>2, <1>4 DEF Learnt, ActorOnly, RequestOnly, TypeOK
<1>6. Knowledge'  BY <1>0, <1>3, <1>4, <1>5, OneLearns DEF IInv
<1>7. Alone'  BY <1>0, <1>1, <1>2, AloneLook DEF IInv, ActorOnly, RequestOnly
<1>. QED  BY <1>3, <1>6, <1>7 DEF IInv

LEMMA StartKeeps == ASSUME IInv, NEW w \in Workers, Start(w) PROVE IInv'
<1>0. TypeOK /\ w \in Actors /\ Idle \in States /\ Idle.pc = "idle"
  BY DEF IInv, Actors, Idle, At, States
<1>1. Goes(w, Idle) /\ RequestOnly /\ ~Inside(w)  BY DEF Start, Inside
<1>2. actor'[w] = Idle /\ \A b \in Actors : b # w => actor'[b] = actor[b]
  BY <1>0, <1>1, Moves
<1>3. CASE ~MayStart
  <2>1. request' = request  BY <1>3 DEF Start
  <2>2. TypeOK' /\ History' /\ Money' /\ Progress
    BY <1>0, <1>1, <2>1, OnRequest, AsItIs, RevisionsAreSeq DEF IInv, History
  <2>3. Learnt(w)'  BY <1>0, <1>2 DEF Learnt
  <2>4. Knowledge'  BY <1>0, <1>2, <2>2, <2>3, OneLearns DEF IInv
  <2>5. Alone'  BY <1>0, <1>1, <2>1, AloneLook DEF IInv, RequestOnly
  <2>. QED  BY <2>2, <2>4, <2>5 DEF IInv
<1>4. CASE MayStart
  <2>1. /\ request' = [status |-> "requested", base |-> actor[w].base,
                       at |-> actor[w].at, revision |-> 0, leased |-> FALSE]
        /\ request.status = "none"
    BY <1>4 DEF Start, MayStart
  <2>2. /\ actor[w].base \in Nat /\ actor[w].at \in Days
        /\ kind # "downgrade" => actor[w].at <= now
    BY <1>0, Carries DEF IInv, Knowledge, Learnt, Start
  <2>3. /\ request' \in Requests
        /\ request'.status = "requested" /\ request'.at = actor[w].at
        /\ request'.revision = 0 /\ request'.leased = FALSE
    <3>1. ASSUME NEW b \in Nat, NEW d \in Days
          PROVE  [status |-> "requested", base |-> b, at |-> d, revision |-> 0, leased |-> FALSE]
                   \in Requests
      BY DEF Requests, Statuses, Open
    <3>. QED  BY <2>1, <2>2, <3>1
  <2>4. TypeOK'  BY <1>0, <1>1, <2>3, Moves DEF TypeOK, RequestOnly, Requests
  <2>5. Changed = {} /\ Changed' = Changed  BY <2>1 DEF IInv, History, Changed, RequestOnly, Start
  <2>6. Len(revisions) \in Nat  BY <1>0, RevisionsAreSeq
  <2>7. History'  BY <1>1, <2>3, <2>5, <2>6 DEF IInv, History, RequestOnly
  <2>8. Money'
    <3>1. now' = now /\ kind' = kind /\ billing' = billing  BY <1>1 DEF RequestOnly
    <3>. QED  BY <2>2, <2>3, <2>5, <3>1 DEF IInv, Money
  <2>9. \A b \in Actors : actor[b].pc \in {"idle", "quoted"}
    BY <2>1 DEF IInv, Knowledge, Learnt
  <2>10. Knowledge'
    <3>1. \A b \in Actors : actor'[b].pc \in {"idle", "quoted"}
                            /\ (actor'[b].pc = "quoted" => actor'[b] = actor[b])
      BY <1>0, <1>2, <2>9
    <3>2. kind' = kind /\ now' = now /\ \A b \in Actors : Learnt(b)
      BY <1>1 DEF RequestOnly, IInv, Knowledge
    <3>3. ASSUME NEW b \in Actors PROVE Learnt(b)'  BY <3>1, <3>2 DEF Learnt
    <3>. QED  BY <3>3 DEF Knowledge
  <2>11. Alone'
    <3>1. \A b \in Actors : ~Inside(b)'  BY <1>0, <1>2, <2>9 DEF Inside
    <3>. QED  BY <1>1, <2>1, <3>1 DEF IInv, Alone, RequestOnly
  <2>. QED  BY <2>4, <2>7, <2>8, <2>10, <2>11 DEF IInv
<1>. QED  BY <1>3, <1>4

-------------------------------------------------------------------------------
\* The row is claimed.
LEMMA ClaimKeeps == ASSUME IInv, NEW w \in Workers, Claim(w) PROVE IInv'
<1>0. TypeOK /\ w \in Actors  BY DEF IInv, Actors
<1> DEFINE s == [pc |-> "claimed", status |-> request.status]
<1>1. s \in States /\ s.pc = "claimed"  BY DEF States, Claim, Claimable
<1>2. /\ Goes(w, s) /\ RequestOnly
      /\ request' = [request EXCEPT !.leased = TRUE]
      /\ request.status \in Open /\ ~request.leased
  BY DEF Claim, Claimable
<1> HIDE DEF s
<1>3. /\ request' \in Requests /\ request'.base = request.base /\ request'.at = request.at
      /\ request'.status = request.status /\ request'.revision = request.revision
  BY <1>0, <1>2 DEF TypeOK, Requests
<1>4. TypeOK' /\ History' /\ Money' /\ Progress
  BY <1>0, <1>1, <1>2, <1>3, OnRequest, AsItIs DEF IInv, History
<1>5. actor'[w] = s /\ \A b \in Actors : b # w => actor'[b] = actor[b]
  BY <1>0, <1>1, <1>2, Moves
<1>6. Learnt(w)'
  BY <1>1, <1>2, <1>3, <1>5 DEF Learnt, Open
<1>7. Knowledge'  BY <1>0, <1>4, <1>5, <1>6, OneLearns DEF IInv
<1>8. Alone'  BY <1>0, <1>1, <1>2, AloneClaim DEF IInv, RequestOnly, Open
<1>. QED  BY <1>4, <1>7, <1>8 DEF IInv

\* The states without data are states.
LEMMA Plain ==
    \A pc \in {"idle", "checking", "published", "billing", "acked", "telling",
               "completing", "conflict", "dropped", "leaving"} :
        At(pc) \in States /\ At(pc).pc = pc
BY DEF States, At

LEMMA IdleIsPlain == Idle = At("idle")
BY DEF Idle, At

\* A step of who has the row that writes nothing but the row.
LEMMA WorkStep ==
    ASSUME IInv, NEW a \in Actors, NEW s \in States, Goes(a, s), Inside(a), RequestOnly,
           request' \in Requests, request'.base = request.base, request'.at = request.at,
           request'.status # "none", request'.revision \in 0..Len(revisions),
           Warranted(request'.status),
           \/ request'.status = request.status
           \/ request'.status \in {"completed", "cancelled"} => s.pc \in {"leaving", "idle"},
           request'.leased = request.leased \/ s.pc = "idle",
           \/ actor[a].pc # "leaving"
           \/ s.pc = "idle" /\ request'.status = request.status,
           Learnt(a)'
    PROVE  IInv'
<1>0. TypeOK /\ Alone /\ Knowledge  BY DEF IInv
<1>1. request.status # "none"  BY <1>0 DEF Knowledge, Learnt, Inside
<1>2. TypeOK' /\ History' /\ Money' /\ Progress  BY <1>1, OnRequest
<1>3. \A b \in Actors : b # a => actor'[b] = actor[b]  BY <1>0, Moves
<1>4. Knowledge'  BY <1>0, <1>2, <1>3, OneLearns
<1>5. Alone'  BY <1>0, AloneStep DEF RequestOnly
<1>. QED  BY <1>2, <1>4, <1>5 DEF IInv

\* A step that writes nothing at all.
LEMMA LookStep ==
    ASSUME IInv, NEW a \in Actors, NEW s \in States, Goes(a, s), Inside(a), ActorOnly,
           actor[a].pc # "leaving", Learnt(a)'
    PROVE  IInv'
<1>1. request' = request /\ RequestOnly  BY DEF ActorOnly
<1>2. request \in Requests /\ request.status # "none"
  BY RevisionsAreSeq DEF IInv, Knowledge, Learnt, Inside
<1>. QED  BY <1>1, <1>2, WorkStep, AsItIs DEF IInv, History

LEMMA CheckTerminationKeeps == ASSUME IInv, NEW w \in Workers, CheckTermination(w) PROVE IInv'
<1>0. /\ TypeOK /\ w \in Actors /\ request \in Requests /\ Inside(w) /\ Learnt(w)
      /\ RequestOnly /\ actor[w].pc = "claimed" /\ request.revision \in 0..Len(revisions)
  BY RevisionsAreSeq DEF IInv, History, Knowledge, Actors, CheckTermination, Inside
<1>1. CASE ending
  <2>1. /\ request' = [request EXCEPT !.status = "needs_review", !.leased = FALSE]
        /\ Goes(w, Idle) /\ Idle \in States /\ Idle.pc = "idle"
    BY <1>1, Plain, IdleIsPlain DEF CheckTermination
  <2>2. /\ request' \in Requests /\ request'.base = request.base /\ request'.at = request.at
        /\ request'.status = "needs_review" /\ request'.revision = request.revision
    BY <1>0, <2>1 DEF Requests, Statuses
  <2>3. Learnt(w)'  BY <1>0, <2>1, Moves DEF Learnt
  <2>4. Warranted(request'.status)  BY <2>2 DEF Warranted
  <2>. QED  BY <1>0, <2>1, <2>2, <2>3, <2>4, WorkStep
<1>2. CASE ~ending
  <2>1. ActorOnly  BY <1>0, <1>2 DEF CheckTermination, ActorOnly
  <2>2. CASE kind = "downgrade"
    <3> DEFINE s == [pc |-> "publishing", at |-> request.at]
    <3>1. Goes(w, s)  BY <1>2, <2>2 DEF CheckTermination
    <3>2. s \in States /\ s.pc = "publishing"  BY <1>0 DEF States, Requests
    <3> HIDE DEF s
    <3>3. Learnt(w)'
      BY <1>0, <2>1, <2>2, <3>1, <3>2, Moves DEF Learnt, ActorOnly, RequestOnly
    <3>. QED  BY <1>0, <2>1, <3>1, <3>2, <3>3, LookStep
  <2>3. CASE kind # "downgrade"
    <3> DEFINE s == [pc |-> "asking", status |-> actor[w].status]
    <3>1. Goes(w, s)  BY <1>2, <2>3 DEF CheckTermination
    <3>2. s \in States /\ s.pc = "asking"  BY <1>0, Carries DEF States
    <3> HIDE DEF s
    <3>3. Learnt(w)'
      BY <1>0, <2>1, <2>3, <3>1, <3>2, Moves DEF Learnt, ActorOnly, RequestOnly
    <3>. QED  BY <1>0, <2>1, <3>1, <3>2, <3>3, LookStep
  <2>. QED  BY <2>2, <2>3
<1>. QED  BY <1>1, <1>2

LEMMA AnsweredKeeps == ASSUME IInv, NEW w \in Workers, Answered(w) PROVE IInv'
<1>0. /\ TypeOK /\ w \in Actors /\ request \in Requests /\ Inside(w) /\ Learnt(w)
      /\ RequestOnly /\ actor[w].pc = "answered" /\ request.revision \in 0..Len(revisions)
      /\ Money
  BY RevisionsAreSeq DEF IInv, History, Knowledge, Actors, Answered, Inside
<1> DEFINE st == StatusOf(actor[w].status, actor[w].payment)
           s == IF Paid(actor[w].payment) THEN At("checking") ELSE At("leaving")
<1>1. /\ st \in {"", "needs_review", "awaiting_payment", "cancelled"}
      /\ st = "cancelled" => actor[w].payment = "cancelled"
  BY DEF StatusOf
<1>2. /\ s \in States /\ s.pc \in {"checking", "leaving"}
      /\ s.pc = "checking" => actor[w].payment \in {"paid", "activated"}
  BY Plain DEF Paid
<1>3. /\ Goes(w, s)
      /\ request' = IF st = "" THEN request ELSE [request EXCEPT !.status = st]
  BY DEF Answered, Status
<1> HIDE DEF s, st
<1>4. /\ request' \in Requests /\ request'.base = request.base /\ request'.at = request.at
      /\ request'.leased = request.leased /\ request'.revision = request.revision
      /\ request'.status = IF st = "" THEN request.status ELSE st
  BY <1>0, <1>1, <1>3 DEF Requests, Statuses, Open
<1>5. request.status # "none"  BY <1>0 DEF Learnt
<1>6. Learnt(w)'
  BY <1>0, <1>1, <1>2, <1>3, <1>4, <1>5, Moves DEF Learnt, RequestOnly, PaidFor
<1>7. Warranted(request'.status)
  BY <1>0, <1>1, <1>4, AsItIs DEF Learnt, Warranted
<1>. QED  BY <1>0, <1>1, <1>2, <1>3, <1>4, <1>5, <1>6, <1>7, WorkStep

\* A change is dated on a day.
LEMMA ChangeAtIsDay ==
    ASSUME TypeOK, History
    PROVE  /\ ChangeAt \in Days
           /\ Changed = {} => ChangeAt \in {billing.paidAt, request.at}
<1>1. request.at \in Days /\ billing.paidAt \in Days /\ Days \subseteq Int
  BY PlanAssumption DEF TypeOK, Days
<1>2. Max({billing.paidAt, request.at}) \in {billing.paidAt, request.at}
  BY <1>1, Later
<1>3. CASE Changed = {}  BY <1>1, <1>2, <1>3 DEF ChangeAt
<1>4. CASE Changed # {}
  <2>1. revisions[Max(Changed)] \in Revisions  BY <1>4, TheChange, RevisionsAreSeq
  <2>. QED  BY <1>4, <2>1 DEF ChangeAt, Revisions
<1>. QED  BY <1>3, <1>4

\* An upgrade that goes on was quoted on what is in effect: what is newer is
\* still to come.
LEMMA CheckKeeps == ASSUME IInv, NEW w \in Workers, Check(w) PROVE IInv'
<1>0. /\ TypeOK /\ w \in Actors /\ Inside(w) /\ Learnt(w) /\ History /\ Money
      /\ ActorOnly /\ actor[w].pc = "checking"
  BY DEF IInv, Knowledge, Actors, Check, Inside
<1>1. UNCHANGED <<Changed, Ahead, PaidFor, kind, now, request, revisions, billing>>
  BY <1>0 DEF ActorOnly, RequestOnly, Changed, Ahead, Standing, PaidFor
<1>2. CASE BaseStillCurrent
  <2> DEFINE s == [pc |-> "publishing", at |-> ChangeAt]
  <2>1. Goes(w, s)  BY <1>2 DEF Check
  <2>2. s \in States /\ s.pc = "publishing" /\ s.at = ChangeAt
    BY <1>0, ChangeAtIsDay DEF States
  <2> HIDE DEF s
  <2>3. ASSUME kind # "downgrade", Changed = {} PROVE ChangeAt \in Ahead
    <3>1. Current = request.base  BY <1>2, <2>3 DEF BaseStillCurrent
    <3>2. request.status # "none"  BY <1>0 DEF Learnt
    <3>3. ChangeAt <= now /\ ChangeAt \in Days
      BY <1>0, <2>3, <3>2, ChangeAtIsDay DEF Money
    <3>4. ChangeAt \in Int /\ now \in Int
      BY <1>0, <3>3, PlanAssumption DEF TypeOK, Days
    <3>5. ASSUME NEW j \in Standing, j > request.base PROVE revisions[j].at >= ChangeAt
      <4>1. j \in Int /\ revisions[j].at \in Int
        BY <1>0, RevisionsAreSeq, PlanAssumption DEF Standing, Revisions, Days
      <4>2. j \notin InEffect
        BY <1>0, <3>1, <3>5, <4>1, CurrentIsNewest
      <4>. QED  BY <3>3, <3>4, <4>1, <4>2 DEF InEffect
    <3>. QED  BY <3>3, <3>5 DEF Ahead
  <2>4. Learnt(w)'
    <3>1. actor'[w] = s  BY <1>0, <2>1, <2>2, Moves
    <3>. QED  BY <1>0, <1>1, <2>2, <2>3, <3>1 DEF Learnt
  <2>. QED  BY <1>0, <2>1, <2>2, <2>4, LookStep
<1>3. CASE ~BaseStillCurrent
  <2>1. Goes(w, At("conflict"))  BY <1>3 DEF Check
  <2>2. Learnt(w)'  BY <1>0, <1>1, <2>1, Plain, Moves DEF Learnt
  <2>. QED  BY <1>0, <2>1, <2>2, Plain, LookStep
<1>. QED  BY <1>2, <1>3

LEMMA ScheduleKeeps == ASSUME IInv, NEW w \in Workers, Schedule(w) PROVE IInv'
<1>0. /\ TypeOK /\ w \in Actors /\ request \in Requests /\ Inside(w) /\ Learnt(w) /\ History
      /\ RequestOnly /\ actor[w].pc = "published" /\ kind = "downgrade"
  BY RevisionsAreSeq DEF IInv, Knowledge, Actors, Schedule, Inside
<1>1. Max(Changed) \in 1..Len(revisions) /\ Len(revisions) \in Nat
  BY <1>0, TheChange, RevisionsAreSeq DEF Learnt, Published
<1>2. request' = [request EXCEPT !.status = "scheduled", !.revision = Max(Changed)]
  BY DEF Schedule
<1> DEFINE r == Max(Changed)
<1> HIDE DEF r
<1>3. r \in Nat /\ r \in 0..Len(revisions)  BY <1>1 DEF r
<1>4. request' = [request EXCEPT !.status = "scheduled", !.revision = r]  BY <1>2 DEF r
<1>5. /\ request' \in Requests /\ request'.base = request.base /\ request'.at = request.at
      /\ request'.leased = request.leased /\ request'.revision = r
      /\ request'.status = "scheduled"
  BY <1>0, <1>3, <1>4 DEF Requests, Statuses, Open
<1>6. PICK pc \in {"billing", "leaving"} : Goes(w, At(pc))  BY DEF Schedule
<1>7. Published' = Published  BY <1>0 DEF Published, Changed, RequestOnly
<1>8. Learnt(w)'
  BY <1>0, <1>5, <1>6, <1>7, Plain, Moves DEF Learnt, RequestOnly
<1>9. Warranted(request'.status)  BY <1>5 DEF Warranted
<1>. QED  BY <1>0, <1>3, <1>5, <1>6, <1>8, <1>9, Plain, WorkStep

LEMMA ConflictKeeps == ASSUME IInv, NEW w \in Workers, Conflict(w) PROVE IInv'
<1>0. /\ TypeOK /\ w \in Actors /\ request \in Requests /\ Inside(w) /\ Learnt(w) /\ Money
      /\ RequestOnly /\ actor[w].pc = "conflict" /\ request.revision \in 0..Len(revisions)
      /\ Goes(w, At("leaving"))
  BY RevisionsAreSeq DEF IInv, History, Knowledge, Actors, Conflict, Inside
<1>1. /\ request' \in Requests /\ request'.base = request.base /\ request'.at = request.at
      /\ request'.leased = request.leased /\ request'.revision = request.revision
      /\ request'.status \in {request.status, "needs_review"}
  BY <1>0 DEF Requests, Statuses, Conflict, Status
<1>2. request.status # "none"  BY <1>0 DEF Learnt
<1>3. Learnt(w)'  BY <1>0, <1>1, <1>2, Plain, Moves DEF Learnt
<1>4. Warranted(request'.status)  BY <1>1, AsItIs DEF Warranted
<1>. QED  BY <1>0, <1>1, <1>2, <1>3, <1>4, Plain, WorkStep

\* Whoever leaves frees the row, and knows nothing any more.
LEMMA LeaveKeeps == ASSUME IInv, NEW a \in Actors, Leave(a) PROVE IInv'
<1>0. /\ TypeOK /\ request \in Requests /\ Inside(a) /\ Learnt(a) /\ Money
      /\ RequestOnly /\ request.revision \in 0..Len(revisions)
      /\ Goes(a, Idle) /\ Idle \in States /\ Idle.pc = "idle"
  BY RevisionsAreSeq, Plain, IdleIsPlain DEF IInv, History, Knowledge, Leave, Inside
<1>1. /\ request' \in Requests /\ request'.base = request.base /\ request'.at = request.at
      /\ request'.revision = request.revision /\ request'.status = request.status
  BY <1>0 DEF Requests, Leave
<1>2. request.status # "none"  BY <1>0 DEF Learnt, Leave
<1>3. Learnt(a)'  BY <1>0, <1>1, Moves DEF Learnt
<1>. QED  BY <1>0, <1>1, <1>2, <1>3, WorkStep, AsItIs

LEMMA CancelledKeeps == ASSUME IInv, NEW c \in Cancellers, Cancelled(c) PROVE IInv'
<1>0. /\ TypeOK /\ c \in Actors /\ request \in Requests /\ Inside(c) /\ Learnt(c)
      /\ RequestOnly /\ actor[c].pc = "dropped" /\ request.revision \in 0..Len(revisions)
      /\ Goes(c, At("leaving"))
  BY RevisionsAreSeq DEF IInv, History, Knowledge, Actors, Cancelled, Inside
<1>1. /\ request' \in Requests /\ request'.base = request.base /\ request'.at = request.at
      /\ request'.leased = request.leased /\ request'.revision = request.revision
      /\ request'.status = "cancelled"
  BY <1>0 DEF Requests, Statuses, Cancelled, Status
<1>2. Learnt(c)'  BY <1>0, <1>1, Plain, Moves DEF Learnt
<1>3. Warranted(request'.status)  BY <1>0, <1>1 DEF Learnt, Warranted
<1>. QED  BY <1>0, <1>1, <1>2, <1>3, Plain, WorkStep

-------------------------------------------------------------------------------
\* cancel() looks at the row, and then claims it.
LEMMA CancelKeeps == ASSUME IInv, NEW c \in Cancellers, Cancel(c) PROVE IInv'
<1>0. /\ TypeOK /\ c \in Actors /\ request \in Requests /\ ~Inside(c) /\ ActorOnly
      /\ request.revision \in 0..Len(revisions) /\ request.revision \in Nat
      /\ request.status \in Cancellable
  BY RevisionsAreSeq DEF IInv, History, Actors, Cancel, Inside, Idle, Requests
<1> DEFINE s == [pc |-> "cancelling", revision |-> request.revision]
<1>1. s \in States /\ s.pc = "cancelling" /\ s.revision = request.revision
  BY <1>0 DEF States
<1>2. Goes(c, s)  BY DEF Cancel
<1> HIDE DEF s
<1>3. request' = request /\ RequestOnly  BY <1>0 DEF ActorOnly
<1>4. TypeOK' /\ History' /\ Money' /\ Progress
  BY <1>0, <1>1, <1>2, <1>3, OnRequest, AsItIs DEF IInv
<1>5. actor'[c] = s /\ \A b \in Actors : b # c => actor'[b] = actor[b]
  BY <1>0, <1>1, <1>2, Moves
<1>6. Learnt(c)'
  BY <1>0, <1>1, <1>3, <1>5 DEF Learnt, RequestOnly, Cancellable
<1>7. Knowledge'  BY <1>0, <1>4, <1>5, <1>6, OneLearns DEF IInv
<1>8. Alone'  BY <1>0, <1>1, <1>2, <1>3, AloneLook DEF IInv, RequestOnly
<1>. QED  BY <1>4, <1>7, <1>8 DEF IInv

LEMMA ClaimToCancelKeeps == ASSUME IInv, NEW c \in Cancellers, ClaimToCancel(c) PROVE IInv'
<1>0. /\ TypeOK /\ c \in Actors /\ request \in Requests /\ ~Inside(c) /\ RequestOnly
      /\ request.revision \in 0..Len(revisions) /\ Learnt(c) /\ actor[c].pc = "cancelling"
      /\ Idle \in States /\ Idle.pc = "idle"
  BY RevisionsAreSeq, Plain, IdleIsPlain
  DEF IInv, History, Knowledge, Actors, ClaimToCancel, Inside
<1>1. CASE request.status \in Cancellable /\ ~request.leased
  <2> DEFINE s == [pc |-> "dropping", revision |-> actor[c].revision]
  <2>1. s \in States /\ s.pc = "dropping" /\ s.revision = actor[c].revision
    BY <1>0, Carries DEF States
  <2>2. Goes(c, s) /\ request' = [request EXCEPT !.leased = TRUE]
    BY <1>1 DEF ClaimToCancel
  <2> HIDE DEF s
  <2>3. /\ request' \in Requests /\ request'.base = request.base /\ request'.at = request.at
        /\ request'.status = request.status /\ request'.revision = request.revision
    BY <1>0, <2>2 DEF Requests
  <2>4. TypeOK' /\ History' /\ Money' /\ Progress
    BY <1>0, <2>1, <2>2, <2>3, OnRequest, AsItIs DEF IInv
  <2>5. actor'[c] = s /\ \A b \in Actors : b # c => actor'[b] = actor[b]
    BY <1>0, <2>1, <2>2, Moves
  <2>6. Learnt(c)'
    BY <1>0, <1>1, <2>1, <2>3, <2>5 DEF Learnt, RequestOnly, Cancellable
  <2>7. Knowledge'  BY <1>0, <2>4, <2>5, <2>6, OneLearns DEF IInv
  <2>8. Alone'
    BY <1>0, <1>1, <2>1, <2>2, AloneClaim DEF IInv, RequestOnly, Cancellable
  <2>. QED  BY <2>4, <2>7, <2>8 DEF IInv
<1>2. CASE ~(request.status \in Cancellable /\ ~request.leased)
  <2>1. Goes(c, Idle) /\ request' = request  BY <1>2 DEF ClaimToCancel
  <2>2. TypeOK' /\ History' /\ Money' /\ Progress
    BY <1>0, <2>1, OnRequest, AsItIs DEF IInv
  <2>3. actor'[c] = Idle /\ \A b \in Actors : b # c => actor'[b] = actor[b]
    BY <1>0, <2>1, Moves
  <2>4. Learnt(c)'  BY <1>0, <2>3 DEF Learnt
  <2>5. Knowledge'  BY <1>0, <2>2, <2>3, <2>4, OneLearns DEF IInv
  <2>6. Alone'  BY <1>0, <2>1, AloneLook DEF IInv, RequestOnly
  <2>. QED  BY <2>2, <2>5, <2>6 DEF IInv
<1>. QED  BY <1>1, <1>2

-------------------------------------------------------------------------------
\* What Billing does: it takes no money back, and gives nothing up twice.
Firm ==
    /\ billing' \in [payment : Payments, paidAt : Days, next : Days]
    /\ billing'.paidAt = billing.paidAt
    /\ PaidFor => PaidFor'
    /\ billing.payment \in {"activated", "cancelled"} => billing'.payment = billing.payment

LEMMA BillingIsFirm ==
    ASSUME TypeOK,
           \/ billing' = billing
           \/ billing' = Asked(billing)
           \/ billing' = Activated(billing)
           \/ GivesUp(billing) /\ billing' = [billing EXCEPT !.payment = "cancelled"]
    PROVE  Firm
<1>1. billing \in [payment : Payments, paidAt : Days, next : Days]  BY DEF TypeOK
<1>2. CASE billing' = billing  BY <1>1, <1>2 DEF Firm, PaidFor
<1>3. CASE billing' = Asked(billing)
  BY <1>1, <1>3 DEF Firm, PaidFor, Asked, Payments
<1>4. CASE billing' = Activated(billing)
  <2> DEFINE n == IF kind = "free_upgrade" THEN now + PaidUntil ELSE billing.next
  <2>0. now \in 0..Horizon  BY DEF TypeOK
  <2>1. n \in Days  BY <1>1, <2>0, PlanAssumption DEF Days
  <2>2. billing' = IF billing.payment = "paid"
                   THEN [billing EXCEPT !.payment = "activated", !.next = n] ELSE billing
    BY <1>4 DEF Activated
  <2> HIDE DEF n
  <2>. QED  BY <1>1, <2>1, <2>2 DEF Firm, PaidFor, Payments
<1>5. CASE GivesUp(billing) /\ billing' = [billing EXCEPT !.payment = "cancelled"]
  BY <1>1, <1>5 DEF Firm, PaidFor, GivesUp, Payments
<1>. QED  BY <1>2, <1>3, <1>4, <1>5

\* Nothing changes but Billing, the actor and perhaps the count of faults.
LEMMA OnBilling ==
    ASSUME IInv, NEW a \in Actors, NEW s \in States, Goes(a, s), Firm, Inside(a),
           UNCHANGED <<now, kind, request, revisions, ending, next, announced, lapsed, moves>>,
           faults' \in 0..MaxFaults, actor[a].pc # "leaving", Learnt(a)'
    PROVE  IInv'
<1>0. TypeOK /\ Knowledge /\ Alone /\ Money /\ History  BY DEF IInv
<1>1. TypeOK'  BY <1>0, Moves DEF TypeOK, Firm
<1>2. UNCHANGED <<Standing, Changed, Published>>
  BY DEF Standing, Changed, Published
<1>3. Ahead' = Ahead  BY <1>2 DEF Ahead
<1>4. History'  BY <1>0, <1>2 DEF History
<1>5. Money'  BY <1>0, <1>2 DEF Money, Firm
<1>6. Progress
  <2>1. now' >= now /\ Len(revisions') >= Len(revisions)
    BY <1>0, PlanAssumption, LenProperties DEF TypeOK
  <2>. QED  BY <1>2, <1>3, <2>1 DEF Progress, Firm
<1>7. Knowledge'  BY <1>0, <1>1, <1>6, Moves, OneLearns
<1>8. Alone'  BY <1>0, AloneStep
<1>. QED  BY <1>1, <1>4, <1>5, <1>7, <1>8 DEF IInv

LEMMA AskKeeps == ASSUME IInv, NEW w \in Workers, Ask(w) PROVE IInv'
<1>0. /\ TypeOK /\ w \in Actors /\ Inside(w) /\ Learnt(w) /\ actor[w].pc = "asking"
      /\ BillingOnly /\ faults \in 0..MaxFaults
  BY DEF IInv, Knowledge, Actors, Ask, Inside, TypeOK
<1> DEFINE s == [pc |-> "answered", status |-> actor[w].status, payment |-> billing'.payment]
<1>1. billing' \in {billing, Asked(billing)} /\ Goes(w, s)  BY DEF Ask
<1>2. Firm  BY <1>0, <1>1, BillingIsFirm
<1>3. /\ s \in States /\ s.pc = "answered" /\ s.payment = billing'.payment
  BY <1>0, <1>2, Carries DEF States, Firm
<1> HIDE DEF s
<1>4. Learnt(w)'
  BY <1>0, <1>1, <1>3, Moves DEF Learnt, BillingOnly, PaidFor
<1>. QED  BY <1>0, <1>1, <1>2, <1>3, <1>4, OnBilling DEF BillingOnly

LEMMA ActivateKeeps == ASSUME IInv, NEW w \in Workers, Activate(w) PROVE IInv'
<1>0. /\ TypeOK /\ w \in Actors /\ Inside(w) /\ Learnt(w) /\ actor[w].pc = "published"
      /\ BillingOnly /\ faults \in 0..MaxFaults /\ kind # "downgrade" /\ Goes(w, At("acked"))
  BY DEF IInv, Knowledge, Actors, Activate, Inside, TypeOK
<1>1. Firm  BY <1>0, BillingIsFirm DEF Activate
<1>2. billing'.payment = "activated"
  <2>1. billing.payment \in {"paid", "activated"}  BY <1>0 DEF Learnt, PaidFor
  <2>. QED  BY <1>0, <2>1 DEF Activate, Activated, TypeOK
<1>3. Learnt(w)'
  BY <1>0, <1>2, Plain, Moves DEF Learnt, BillingOnly, Published, Changed
<1>. QED  BY <1>0, <1>1, <1>3, Plain, OnBilling DEF BillingOnly

LEMMA DropPaymentKeeps == ASSUME IInv, NEW c \in Cancellers, DropPayment(c) PROVE IInv'
<1>0. /\ TypeOK /\ c \in Actors /\ Inside(c) /\ Learnt(c) /\ actor[c].pc = "dropping"
      /\ BillingOnly /\ faults \in 0..MaxFaults
  BY DEF IInv, Knowledge, Actors, DropPayment, Inside, TypeOK
<1>1. Firm  BY <1>0, BillingIsFirm DEF DropPayment
<1>2. CASE Refused
  <2>1. Goes(c, At("leaving"))  BY <1>2 DEF DropPayment
  <2>2. Learnt(c)'  BY <1>0, <2>1, Plain, Moves DEF Learnt, BillingOnly
  <2>. QED  BY <1>0, <1>1, <2>1, <2>2, Plain, OnBilling DEF BillingOnly
<1>3. CASE ~Refused
  <2>1. Goes(c, At("dropped")) /\ billing'.payment = "cancelled"
    BY <1>0, <1>3 DEF DropPayment, Refused, TypeOK
  <2>2. Learnt(c)'  BY <1>0, <2>1, Plain, Moves DEF Learnt, BillingOnly
  <2>. QED  BY <1>0, <1>1, <2>1, <2>2, Plain, OnBilling DEF BillingOnly
<1>. QED  BY <1>2, <1>3

\* Licensing has the decision, or the rest is left for another time.
LEMMA TellKeeps == ASSUME IInv, NEW w \in Workers, Tell(w) PROVE IInv'
<1>0. /\ TypeOK /\ w \in Actors /\ Inside(w) /\ Learnt(w) /\ actor[w].pc = "telling"
      /\ UNCHANGED <<now, kind, request, revisions, ending, next, billing, announced, lapsed,
                     moves>>
  BY DEF IInv, Knowledge, Actors, Tell, Inside
<1>1. faults' \in 0..MaxFaults  BY <1>0, Counted DEF TypeOK, Tell
<1>2. PICK pc \in {"completing", "leaving"} : Goes(w, At(pc))  BY DEF Tell
<1>3. Firm  BY <1>0, BillingIsFirm
<1>4. Learnt(w)'
  BY <1>0, <1>2, Plain, Moves DEF Learnt, Published, Changed
<1>. QED  BY <1>0, <1>1, <1>2, <1>3, <1>4, Plain, OnBilling

\* A call fails, or is refused.
LEMMA CallFailsKeeps == ASSUME IInv, NEW a \in Actors, CallFails(a) PROVE IInv'
<1>0. /\ TypeOK /\ Inside(a) /\ Learnt(a) /\ actor[a].pc \in Calls
      /\ faults' \in 0..MaxFaults
      /\ UNCHANGED <<now, kind, request, revisions, ending, next, announced, lapsed, moves>>
  BY Counted DEF IInv, Knowledge, CallFails, Inside, Calls
<1>1. PICK pc \in {"leaving", "conflict"} : Goes(a, At(pc))  BY DEF CallFails
<1>2. Firm  BY <1>0, BillingIsFirm DEF CallFails
<1>3. Learnt(a)'  BY <1>0, <1>1, Plain, Moves DEF Learnt, Calls
<1>. QED  BY <1>0, <1>1, <1>2, <1>3, Plain, OnBilling DEF Calls

\* A process dies: its claim stays.
LEMMA CrashKeeps == ASSUME IInv, NEW a \in Actors, Crash(a) PROVE IInv'
<1>0. /\ TypeOK /\ Knowledge /\ Alone /\ Money /\ History /\ Inside(a)
      /\ faults' \in 0..MaxFaults /\ Goes(a, Idle) /\ Idle \in States /\ Idle.pc = "idle"
      /\ UNCHANGED <<now, kind, request, revisions, ending, next, billing, announced, lapsed,
                     moves>>
  BY Counted, Plain, IdleIsPlain DEF IInv, Crash, Inside
<1>1. TypeOK'  BY <1>0, Moves DEF TypeOK
<1>2. UNCHANGED <<Standing, Changed, Published, PaidFor, Ahead>>
  BY <1>0 DEF Standing, Changed, Published, PaidFor, Ahead
<1>3. History' /\ Money'  BY <1>0, <1>2 DEF History, Money
<1>4. Progress
  <2>1. now' >= now /\ Len(revisions') >= Len(revisions)
    BY <1>0, PlanAssumption, LenProperties DEF TypeOK
  <2>. QED  BY <1>0, <1>2, <2>1 DEF Progress
<1>5. Learnt(a)'  BY <1>0, Moves DEF Learnt
<1>6. Knowledge'  BY <1>0, <1>1, <1>4, <1>5, Moves, OneLearns
<1>7. Alone'  BY <1>0, AloneStep
<1>. QED  BY <1>1, <1>3, <1>6, <1>7 DEF IInv

-------------------------------------------------------------------------------
\* A revision comes after all there are.
LEMMA Appending ==
    ASSUME TypeOK, NEW rev \in Revisions, revisions' = Append(revisions, rev)
    PROVE  /\ revisions' \in Seq(Revisions)
           /\ Len(revisions') = Len(revisions) + 1 /\ Len(revisions) \in Nat
           /\ DOMAIN revisions' = 1..(Len(revisions) + 1) /\ DOMAIN revisions = 1..Len(revisions)
           /\ \A i \in DOMAIN revisions : revisions'[i] = revisions[i]
           /\ revisions'[Len(revisions) + 1] = rev
           /\ Changed' = IF rev.key = "change" THEN Changed \cup {Len(revisions) + 1} ELSE Changed
<1>1. revisions \in Seq(Revisions) /\ Len(revisions) \in Nat
      /\ DOMAIN revisions = 1..Len(revisions)
  BY RevisionsAreSeq
<1>2. /\ revisions' \in Seq(Revisions) /\ Len(revisions') = Len(revisions) + 1
      /\ \A i \in 1..Len(revisions) : revisions'[i] = revisions[i]
      /\ revisions'[Len(revisions) + 1] = rev
  BY <1>1, AppendProperties
<1>3. DOMAIN revisions' = 1..(Len(revisions) + 1)  BY <1>2, LenProperties
<1>4. Changed' = {i \in DOMAIN revisions' : revisions'[i].key = "change"}  BY DEF Changed
<1>5. Changed' = IF rev.key = "change" THEN Changed \cup {Len(revisions) + 1} ELSE Changed
  BY <1>1, <1>2, <1>3, <1>4 DEF Changed
<1>. QED  BY <1>1, <1>2, <1>3, <1>5

\* A revision changes in place.
LEMMA Replacing ==
    ASSUME TypeOK, NEW i \in DOMAIN revisions, NEW rev \in Revisions, rev.key = revisions[i].key,
           revisions' = [revisions EXCEPT ![i] = rev]
    PROVE  /\ revisions' \in Seq(Revisions) /\ Len(revisions') = Len(revisions)
           /\ DOMAIN revisions' = DOMAIN revisions
           /\ \A j \in DOMAIN revisions : revisions'[j] = IF j = i THEN rev ELSE revisions[j]
           /\ Changed' = Changed
<1>1. revisions \in Seq(Revisions) /\ DOMAIN revisions = 1..Len(revisions)
  BY RevisionsAreSeq
<1>2. /\ revisions' \in Seq(Revisions) /\ Len(revisions') = Len(revisions)
      /\ \A j \in DOMAIN revisions : revisions'[j] = IF j = i THEN rev ELSE revisions[j]
  BY <1>1, ExceptSeq
<1>3. DOMAIN revisions' = DOMAIN revisions  BY <1>1, <1>2, LenProperties
<1>. QED  BY <1>1, <1>2, <1>3 DEF Changed

\* publishConfirmedSnapshot().
LEMMA PublishNewKeeps ==
    ASSUME IInv, NEW w \in Workers, Publish(w), Changed = {}, MayPublish(actor[w].at)
    PROVE  IInv'
<1>0. /\ TypeOK /\ Knowledge /\ Alone /\ Money /\ History /\ w \in Actors /\ Inside(w)
      /\ Learnt(w) /\ actor[w].pc = "publishing"
      /\ UNCHANGED <<now, kind, request, ending, next, billing, announced, lapsed, moves>>
  BY DEF IInv, Knowledge, Actors, Publish, Inside
<1> DEFINE d == actor[w].at
           new == [key |-> "change", at |-> d, made |-> now,
                   cancelled |-> FALSE, synced |-> FALSE]
           n == Len(revisions) + 1
<1>1. PICK rev \in Delivered(new) :
        /\ revisions' = Append(revisions, rev)
        /\ Goes(w, IF rev.synced THEN At("published") ELSE At("leaving"))
        /\ IF rev.synced \/ rev.cancelled THEN UNCHANGED faults ELSE Fault
  BY DEF Publish
<1>2. /\ rev \in Revisions /\ rev.key = "change" /\ rev.at = d /\ rev.cancelled = FALSE
      /\ rev.synced \in BOOLEAN /\ d \in Days
  <2>1. /\ new \in Revisions /\ new.key = "change" /\ new.at = d /\ new.cancelled = FALSE
        /\ d \in Days
    <3>1. d \in Days /\ now \in Days  BY <1>0, Carries, PlanAssumption DEF TypeOK, Days
    <3> HIDE DEF d
    <3>. QED  BY <3>1 DEF Revisions, Keys
  <2>2. rev = new \/ rev = [new EXCEPT !.synced = ~new.cancelled \/ new.synced]
    BY <1>1 DEF Delivered
  <2>3. rev = new \/ rev = [new EXCEPT !.synced = TRUE]  BY <2>2
  <2> HIDE DEF new
  <2>. QED  BY <2>1, <2>3 DEF Revisions
<1>3. /\ revisions' \in Seq(Revisions)
      /\ Len(revisions') = n /\ Len(revisions) \in Nat
      /\ DOMAIN revisions' = 1..n /\ DOMAIN revisions = 1..Len(revisions)
      /\ \A i \in DOMAIN revisions : revisions'[i] = revisions[i]
      /\ revisions'[n] = rev
      /\ Changed' = {n}
  BY <1>0, <1>1, <1>2, Appending
<1> HIDE DEF new
<1>4. PICK pc \in {"published", "leaving"} :
        /\ Goes(w, At(pc))
        /\ pc = "published" => rev.synced
  BY <1>1
<1>5. TypeOK'
  <2>1. faults' \in 0..MaxFaults  BY <1>0, <1>1, Counted DEF TypeOK
  <2>2. actor' \in [Actors -> States]  BY <1>0, <1>4, Plain, Moves
  <2>. QED  BY <1>0, <1>3, <2>1, <2>2 DEF TypeOK, Revisions
<1>6. request.status # "none"  BY <1>0 DEF Learnt
<1>7. History'
  <2>1. 1 \in DOMAIN revisions /\ revisions' # <<>>
    BY <1>0, <1>3 DEF History
  <2>2. request.revision \in 0..Len(revisions')  BY <1>0, <1>3 DEF History
  <2>3. request.status \notin {"activated", "completed"}  BY <1>0 DEF History, Published
  <2>. QED  BY <1>0, <1>3, <1>6, <2>1, <2>2, <2>3 DEF History
<1>8. Money'
  <2>. SUFFICES ASSUME kind # "downgrade" PROVE Money'  BY <1>0 DEF Money
  <2>1. PaidFor /\ d \in Ahead  BY <1>0 DEF Learnt
  <2>2. request.status \notin {"activated", "completed"}
    BY <1>0 DEF History, Published
  <2>3. request.base \in Nat  BY <1>0 DEF TypeOK
  <2>4. ASSUME NEW j \in (request.base + 1)..(n - 1)
        PROVE  \/ revisions'[j].cancelled
               \/ revisions'[j].made >= rev.at /\ rev.at > revisions'[j].at
    <3>1. j \in DOMAIN revisions /\ j > request.base  BY <1>3, <2>3, <2>4
    <3>2. revisions[j].at \in Int /\ d \in Int
      BY <1>0, <1>2, <3>1, RevisionsAreSeq, PlanAssumption DEF Revisions, Days
    <3>3. ASSUME j \in Standing PROVE revisions[j].at < d /\ revisions[j].made >= d
      <4>1. revisions[j].at < d  BY <3>3 DEF MayPublish, MaySave
      <4>2. revisions[j].at >= d \/ revisions[j].made >= d  BY <2>1, <3>1, <3>3 DEF Ahead
      <4>. QED  BY <3>2, <4>1, <4>2
    <3> HIDE DEF d
    <3>. QED  BY <1>2, <1>3, <3>1, <3>2, <3>3 DEF Standing
  <2>. QED  BY <1>0, <1>3, <2>1, <2>2, <2>4 DEF Money, PaidFor
<1>9. Progress
  <2>1. now' >= now  BY <1>0, PlanAssumption DEF TypeOK
  <2>. QED  BY <1>0, <1>3, <2>1 DEF Progress, Published, PaidFor
<1>10. Learnt(w)'
  <2>1. actor'[w] = At(pc) /\ At(pc).pc = pc  BY <1>0, <1>4, Plain, Moves
  <2>2. pc = "published" => Published'  BY <1>3, <1>4 DEF Published
  <2>. QED  BY <1>0, <1>3, <1>4, <1>6, <2>1, <2>2 DEF Learnt, PaidFor
<1>11. Knowledge'  BY <1>0, <1>4, <1>5, <1>9, <1>10, Plain, Moves, OneLearns
<1>12. Alone'  BY <1>0, <1>4, Plain, AloneStep
<1>. QED  BY <1>5, <1>7, <1>8, <1>11, <1>12 DEF IInv

LEMMA PublishAgainKeeps ==
    ASSUME IInv, NEW w \in Workers, Publish(w), Changed # {}, MayPublish(actor[w].at)
    PROVE  IInv'
<1>0. /\ TypeOK /\ Knowledge /\ Alone /\ Money /\ History /\ w \in Actors /\ Inside(w)
      /\ Learnt(w) /\ actor[w].pc = "publishing"
      /\ UNCHANGED <<now, kind, request, ending, next, billing, announced, lapsed, moves>>
  BY DEF IInv, Knowledge, Actors, Publish, Inside
<1> DEFINE m == Max(Changed)
           old == revisions[m]
<1>1. PICK rev \in Delivered(old) :
        /\ revisions' = [revisions EXCEPT ![m] = rev]
        /\ Goes(w, IF rev.synced THEN At("published") ELSE At("leaving"))
        /\ IF rev.synced \/ rev.cancelled THEN UNCHANGED faults ELSE Fault
  BY DEF Publish
<1>2. m \in DOMAIN revisions /\ Changed = {m} /\ old \in Revisions
  BY <1>0, TheChange, RevisionsAreSeq
<1>3. /\ rev \in Revisions /\ rev.key = old.key /\ rev.at = old.at /\ rev.made = old.made
      /\ rev.cancelled = old.cancelled /\ rev.synced \in BOOLEAN
      /\ old.synced => rev.synced
  <2> HIDE DEF old
  <2>1. (~old.cancelled \/ old.synced) \in BOOLEAN  OBVIOUS
  <2> DEFINE sy == ~old.cancelled \/ old.synced
  <2>2. rev = old \/ rev = [old EXCEPT !.synced = sy]
    BY <1>1 DEF Delivered
  <2>3. sy \in BOOLEAN /\ (old.synced => sy)  OBVIOUS
  <2> HIDE DEF sy
  <2>. QED  BY <1>2, <2>2, <2>3 DEF Revisions
<1>4. /\ revisions' \in Seq(Revisions) /\ Len(revisions') = Len(revisions)
      /\ DOMAIN revisions' = DOMAIN revisions
      /\ \A j \in DOMAIN revisions : revisions'[j] = IF j = m THEN rev ELSE revisions[j]
      /\ Changed' = Changed
  BY <1>0, <1>1, <1>2, <1>3, Replacing
<1>5. \A j \in DOMAIN revisions : /\ revisions'[j].at = revisions[j].at
                                  /\ revisions'[j].made = revisions[j].made
                                  /\ revisions'[j].cancelled = revisions[j].cancelled
                                  /\ revisions[j].synced => revisions'[j].synced
  BY <1>3, <1>4
<1> HIDE DEF m, old
<1>6. PICK pc \in {"published", "leaving"} :
        /\ Goes(w, At(pc))
        /\ pc = "published" => rev.synced
  BY <1>1
<1>7. TypeOK'
  <2>1. faults' \in 0..MaxFaults  BY <1>0, <1>1, Counted DEF TypeOK
  <2>2. actor' \in [Actors -> States]  BY <1>0, <1>6, Plain, Moves
  <2>. QED  BY <1>0, <1>4, <2>1, <2>2 DEF TypeOK, Revisions
<1>8. Standing' = Standing /\ PaidFor' = PaidFor
      /\ Changed \subseteq DOMAIN revisions /\ DOMAIN revisions = 1..Len(revisions)
      /\ Len(revisions) \in Nat
  BY <1>0, <1>4, <1>5, RevisionsAreSeq DEF Standing, Changed, PaidFor
<1>9. Published => Published'  BY <1>4, <1>5, <1>8 DEF Published
<1>10. Ahead \subseteq Ahead'
  <2>1. \A j \in Standing : j \in DOMAIN revisions  BY DEF Standing
  <2>. QED  BY <1>0, <1>5, <1>8, <2>1 DEF Ahead
<1>11. History'
  <2>1. 1 \in DOMAIN revisions /\ revisions' # <<>>
    BY <1>0, <1>4, <1>8, LenProperties DEF History
  <2>. QED  BY <1>0, <1>4, <1>5, <1>9, <2>1 DEF History
<1>12. Money'
  <2>1. request.base \in Nat  BY <1>0 DEF TypeOK
  <2>2. \A i \in Changed : \A j \in (request.base + 1)..(i - 1) : j \in DOMAIN revisions
    BY <1>8, <2>1
  <2>. QED  BY <1>0, <1>4, <1>5, <1>8, <1>9, <2>2 DEF Money
<1>13. Progress
  <2>1. now' >= now  BY <1>0, PlanAssumption DEF TypeOK
  <2>. QED  BY <1>0, <1>4, <1>8, <1>9, <1>10, <2>1 DEF Progress
<1>14. Learnt(w)'
  <2>1. actor'[w] = At(pc) /\ At(pc).pc = pc  BY <1>0, <1>6, Plain, Moves
  <2>2. pc = "published" => Published'  BY <1>2, <1>4, <1>6 DEF Published
  <2>. QED  BY <1>0, <1>4, <1>6, <1>8, <2>1, <2>2 DEF Learnt
<1>15. Knowledge'  BY <1>0, <1>6, <1>7, <1>13, <1>14, Plain, Moves, OneLearns
<1>16. Alone'  BY <1>0, <1>6, Plain, AloneStep
<1>. QED  BY <1>7, <1>11, <1>12, <1>15, <1>16 DEF IInv

LEMMA PublishKeeps == ASSUME IInv, NEW w \in Workers, Publish(w) PROVE IInv'
<1>1. CASE ~MayPublish(actor[w].at)
  <2>0. /\ TypeOK /\ w \in Actors /\ Inside(w) /\ Learnt(w) /\ actor[w].pc = "publishing"
        /\ Goes(w, At("conflict")) /\ ActorOnly
    BY <1>1 DEF IInv, Knowledge, Actors, Publish, Inside, ActorOnly, RequestOnly
  <2>1. Learnt(w)'  BY <2>0, Plain, Moves DEF Learnt, ActorOnly
  <2>. QED  BY <2>0, <2>1, Plain, LookStep
<1>. QED  BY <1>1, PublishNewKeeps, PublishAgainKeeps

-------------------------------------------------------------------------------
\* The cycle of a downgrade is billed.
LEMMA BillCycleKeeps == ASSUME IInv, NEW w \in Workers, BillCycle(w) PROVE IInv'
<1>0. /\ TypeOK /\ Knowledge /\ Alone /\ Money /\ History /\ w \in Actors /\ Inside(w)
      /\ Learnt(w) /\ actor[w].pc = "billing" /\ kind = "downgrade"
      /\ UNCHANGED <<now, kind, request, revisions, ending, billing, announced, lapsed, moves,
                     faults>>
  BY DEF IInv, Knowledge, Actors, BillCycle, Inside, Learnt
<1>1. PICK n \in {next, Max({next, PaidUntil + 1})} :
        /\ next' = n
        /\ Goes(w, IF n > PaidUntil THEN At("completing") ELSE At("leaving"))
  BY DEF BillCycle
<1>2. PICK pc \in {"completing", "leaving"} : Goes(w, At(pc))  BY <1>1
<1>3. next' \in Days
  <2>1. next \in Days /\ PaidUntil + 1 \in Days /\ Days \subseteq Int
    BY <1>0, PlanAssumption DEF TypeOK, Days
  <2>. QED  BY <1>1, <2>1, Later
<1>4. TypeOK'  BY <1>0, <1>2, <1>3, Plain, Moves DEF TypeOK
<1>5. UNCHANGED <<Changed, PaidFor, Published>>  BY <1>0 DEF Changed, PaidFor, Published
<1>6. History' /\ Money'  BY <1>0, <1>5 DEF History, Money
<1>7. Progress
  <2>1. now' >= now /\ Len(revisions') >= Len(revisions)
    BY <1>0, PlanAssumption, LenProperties DEF TypeOK
  <2>. QED  BY <1>0, <1>5, <2>1 DEF Progress
<1>8. Learnt(w)'  BY <1>0, <1>2, <1>5, Plain, Moves DEF Learnt
<1>9. Knowledge'  BY <1>0, <1>2, <1>4, <1>7, <1>8, Plain, Moves, OneLearns
<1>10. Alone'  BY <1>0, <1>2, Plain, AloneStep
<1>. QED  BY <1>4, <1>6, <1>9, <1>10 DEF IInv

\* The activation is written down.
LEMMA RecordActivationKeeps ==
    ASSUME IInv, NEW w \in Workers, RecordActivation(w)
    PROVE  IInv'
<1>0. /\ TypeOK /\ Knowledge /\ Alone /\ Money /\ History /\ w \in Actors /\ Inside(w)
      /\ Learnt(w) /\ actor[w].pc = "acked" /\ Goes(w, At("telling")) /\ request \in Requests
      /\ UNCHANGED <<now, kind, revisions, ending, billing, announced, lapsed, moves, faults>>
  BY RevisionsAreSeq DEF IInv, Knowledge, Actors, RecordActivation, Inside
<1> DEFINE r == Max(Changed)
<1>1. request' = [request EXCEPT !.status = "activated", !.revision = r]
  BY DEF RecordActivation
<1>2. r \in 0..Len(revisions) /\ r \in Nat
  BY <1>0, TheChange, RevisionsAreSeq DEF Learnt, Published, RecordActivation
<1> HIDE DEF r
<1>3. /\ request' \in Requests /\ request'.base = request.base /\ request'.at = request.at
      /\ request'.leased = request.leased /\ request'.revision = r
      /\ request'.status = "activated"
  BY <1>0, <1>1, <1>2 DEF Requests, Statuses, Open
<1>4. next' \in Days  BY <1>0 DEF TypeOK, RecordActivation
<1>5. TypeOK'  BY <1>0, <1>3, <1>4, Plain, Moves DEF TypeOK, Requests
<1>6. UNCHANGED <<Standing, Changed, PaidFor, Published, Ahead>>
  BY <1>0, <1>3 DEF Standing, Changed, PaidFor, Published, Ahead
<1>7. History'  BY <1>0, <1>2, <1>3, <1>6 DEF History, Learnt
<1>8. request.status # "none"  BY <1>0 DEF Learnt
<1>9. Money'  BY <1>0, <1>3, <1>6, <1>8 DEF Money, Learnt
<1>10. Progress
  <2>1. now' >= now /\ Len(revisions') >= Len(revisions)
    BY <1>0, PlanAssumption, LenProperties DEF TypeOK
  <2>. QED  BY <1>0, <1>3, <1>6, <2>1 DEF Progress
<1>11. Learnt(w)'  BY <1>0, <1>3, <1>6, Plain, Moves DEF Learnt
<1>12. Knowledge'  BY <1>0, <1>5, <1>10, <1>11, Plain, Moves, OneLearns
<1>13. Alone'  BY <1>0, <1>3, Plain, AloneStep
<1>. QED  BY <1>5, <1>7, <1>9, <1>12, <1>13 DEF IInv

\* The change is over, and that is announced.
LEMMA CompleteKeeps == ASSUME IInv, NEW w \in Workers, Complete(w) PROVE IInv'
<1>0. /\ TypeOK /\ Knowledge /\ Alone /\ Money /\ History /\ w \in Actors /\ Inside(w)
      /\ Learnt(w) /\ actor[w].pc = "completing" /\ Goes(w, At("leaving"))
      /\ request \in Requests
      /\ UNCHANGED <<now, kind, revisions, ending, next, billing, lapsed, moves, faults>>
  BY RevisionsAreSeq DEF IInv, Knowledge, Actors, Complete, Inside
<1> DEFINE done == kind = "downgrade" \/ request.status = "activated"
<1>1. /\ request' = IF done THEN [request EXCEPT !.status = "completed"] ELSE request
      /\ announced' = IF done /\ kind # "downgrade" /\ announced < 2
                       THEN announced + 1 ELSE announced
  BY DEF Complete, Status
<1>2. /\ request' \in Requests /\ request'.base = request.base /\ request'.at = request.at
      /\ request'.leased = request.leased /\ request'.revision = request.revision
      /\ request'.status = IF done THEN "completed" ELSE request.status
  BY <1>0, <1>1 DEF Requests, Statuses
<1>3. announced' \in 0..2 /\ announced \in 0..2  BY <1>0, <1>1 DEF TypeOK
<1>4. TypeOK'  BY <1>0, <1>2, <1>3, Plain, Moves DEF TypeOK, Requests
<1>5. UNCHANGED <<Standing, Changed, PaidFor, Published, Ahead>>
  BY <1>0, <1>2 DEF Standing, Changed, PaidFor, Published, Ahead
<1>6. request.status # "none"  BY <1>0 DEF Learnt
<1>7. History'  BY <1>0, <1>2, <1>5, <1>6 DEF History, Learnt
<1>8. Money'  BY <1>0, <1>2, <1>5, <1>6 DEF Money
<1>9. Progress
  <2>1. now' >= now /\ Len(revisions') >= Len(revisions)
    BY <1>0, PlanAssumption, LenProperties DEF TypeOK
  <2>. QED  BY <1>0, <1>2, <1>5, <2>1 DEF Progress
<1>10. Learnt(w)'  BY <1>0, <1>2, <1>5, <1>6, Plain, Moves DEF Learnt
<1>11. Knowledge'  BY <1>0, <1>4, <1>9, <1>10, Plain, Moves, OneLearns
<1>12. Alone'
  <2>. SUFFICES ASSUME ~lapsed PROVE Alone'  BY <1>0 DEF Alone
  <2>1. /\ \A b \in Actors : Inside(b) => b = w
        /\ announced # 1 /\ announced <= 1 /\ request.leased
    BY <1>0 DEF Alone
  <2>2. announced = 0  BY <1>3, <2>1
  <2>3. actor'[w] = At("leaving") /\ \A b \in Actors : b # w => actor'[b] = actor[b]
    BY <1>0, Plain, Moves
  <2>4. \A b \in Actors : Inside(b)' => b = w  BY <2>1, <2>3 DEF Inside
  <2>5. announced' \in {0, 1} /\ (announced' = 1 => done)  BY <1>1, <2>2
  <2>. QED  BY <1>2, <2>1, <2>3, <2>4, <2>5, Plain DEF Alone
<1>. QED  BY <1>4, <1>7, <1>8, <1>11, <1>12 DEF IInv

\* cancel() drops the revision of a downgrade.
LEMMA DropRevisionKeeps ==
    ASSUME IInv, NEW c \in Cancellers, DropRevision(c)
    PROVE  IInv'
<1>0. /\ TypeOK /\ Knowledge /\ Alone /\ Money /\ History /\ c \in Actors /\ Inside(c)
      /\ Learnt(c) /\ actor[c].pc = "dropping" /\ kind = "downgrade"
      /\ UNCHANGED <<now, kind, request, ending, next, billing, announced, lapsed, moves, faults>>
  BY DEF IInv, Knowledge, Actors, DropRevision, Inside
<1> DEFINE r == actor[c].revision
           drops == r # 0 /\ (revisions[r].cancelled \/ revisions[r].at > now)
<1>1. /\ revisions' = IF drops THEN [revisions EXCEPT ![r].cancelled = TRUE] ELSE revisions
      /\ Goes(c, IF drops THEN At("dropped") ELSE At("leaving"))
  BY DEF DropRevision
<1>2. r \in 0..Len(revisions) /\ Len(revisions) \in Nat /\ DOMAIN revisions = 1..Len(revisions)
  BY <1>0, RevisionsAreSeq DEF Learnt
<1>3. /\ revisions' \in Seq(Revisions) /\ Len(revisions') = Len(revisions)
      /\ DOMAIN revisions' = DOMAIN revisions /\ Changed' = Changed
      /\ revisions'[1] = revisions[1]
      /\ \A i \in DOMAIN revisions : revisions'[i].synced = revisions[i].synced
  <2>1. CASE ~drops  BY <1>0, <1>1, <2>1, RevisionsAreSeq DEF Changed
  <2>2. CASE drops
    <3> DEFINE rev == [revisions[r] EXCEPT !.cancelled = TRUE]
    <3>1. r \in DOMAIN revisions  BY <1>2, <2>2
    <3>2. r # 1  BY <1>0, <1>2, <2>2, <3>1, PlanAssumption DEF History, TypeOK
    <3>3. rev \in Revisions /\ rev.key = revisions[r].key /\ rev.synced = revisions[r].synced
      BY <1>0, <3>1, RevisionsAreSeq DEF Revisions
    <3>4. revisions' = [revisions EXCEPT ![r] = rev]  BY <1>1, <2>2
    <3> HIDE DEF rev, r
    <3>5. 1 \in DOMAIN revisions  BY <1>0, <1>2, RevisionsAreSeq DEF History
    <3>. QED  BY <1>0, <3>1, <3>2, <3>3, <3>4, <3>5, Replacing
  <2>. QED  BY <2>1, <2>2
<1>4. PICK pc \in {"dropped", "leaving"} : Goes(c, At(pc))  BY <1>1
<1> HIDE DEF r, drops
<1>11. Published' = Published  BY <1>3 DEF Published, Changed
<1>5. TypeOK'  BY <1>0, <1>3, <1>4, Plain, Moves DEF TypeOK, Revisions
<1>6. History' /\ Money'
  <2>1. revisions' # <<>>  BY <1>0, <1>3, LenProperties DEF History, TypeOK
  <2>. QED  BY <1>0, <1>3, <1>11, <2>1 DEF History, Money
<1>7. Progress
  <2>1. now' >= now  BY <1>0, PlanAssumption DEF TypeOK
  <2>. QED  BY <1>0, <1>2, <1>3, <1>11, <2>1 DEF Progress
<1>8. Learnt(c)'  BY <1>0, <1>4, Plain, Moves DEF Learnt
<1>9. Knowledge'  BY <1>0, <1>4, <1>5, <1>7, <1>8, Plain, Moves, OneLearns
<1>10. Alone'  BY <1>0, <1>4, Plain, AloneStep
<1>. QED  BY <1>5, <1>6, <1>9, <1>10 DEF IInv

-------------------------------------------------------------------------------
\* A claim ends; nobody moves.
LEMMA LapseKeeps == ASSUME IInv, Lapse PROVE IInv'
<1>0. /\ TypeOK /\ Knowledge /\ Alone /\ Money /\ History /\ request \in Requests
      /\ UNCHANGED <<now, kind, revisions, ending, next, billing, announced, actor, moves>>
  BY RevisionsAreSeq DEF IInv, Lapse
<1>1. /\ request' \in Requests /\ request'.base = request.base /\ request'.at = request.at
      /\ request'.status = request.status /\ request'.revision = request.revision
  BY <1>0 DEF Requests, Lapse
<1>2. faults' \in 0..MaxFaults  BY <1>0, Counted DEF Lapse, TypeOK
<1>3. lapsed' \in BOOLEAN /\ (~lapsed' => ~lapsed /\ \A a \in Actors : ~Inside(a))
  BY <1>0 DEF TypeOK, Lapse
<1>4. TypeOK'  BY <1>0, <1>1, <1>2, <1>3 DEF TypeOK, Requests
<1>5. UNCHANGED <<Standing, Changed, PaidFor, Published, Ahead>>
  BY <1>0, <1>1 DEF Standing, Changed, PaidFor, Published, Ahead
<1>6. History' /\ Money'  BY <1>0, <1>1, <1>5 DEF History, Money
<1>7. Progress
  <2>1. now' >= now /\ Len(revisions') >= Len(revisions)
    BY <1>0, PlanAssumption, LenProperties DEF TypeOK
  <2>. QED  BY <1>0, <1>1, <1>5, <2>1 DEF Progress
<1>8. Knowledge'  BY <1>0, <1>4, <1>7, NoneLearns
<1>9. Alone'
  <2>1. \A a \in Actors : Inside(a)' <=> Inside(a)  BY <1>0 DEF Inside
  <2>. QED  BY <1>0, <1>1, <1>3, <2>1 DEF Alone
<1>. QED  BY <1>4, <1>6, <1>8, <1>9 DEF IInv

\* What happens outside changes neither the row nor who works on it.
LEMMA AloneOutside ==
    ASSUME Alone, UNCHANGED <<request, announced, lapsed, actor>>
    PROVE  Alone'
BY DEF Alone, Inside

LEMMA OperatorPublishesKeeps ==
    ASSUME IInv, NEW at \in 0..(now + 1), OperatorPublishes(at)
    PROVE  IInv'
<1>0. /\ TypeOK /\ Knowledge /\ Alone /\ Money /\ History
      /\ UNCHANGED <<now, kind, request, ending, next, billing, announced, lapsed, actor, faults>>
  BY DEF IInv, OperatorPublishes
<1>1. at \in Days /\ now \in Days /\ now \in Int
  BY <1>0, PlanAssumption DEF TypeOK, Days
<1> DEFINE rev == [key |-> "operator", at |-> at, made |-> now,
                   cancelled |-> FALSE, synced |-> TRUE]
           n == Len(revisions) + 1
<1>2. rev \in Revisions /\ rev.key = "operator" /\ rev.made = now
  BY <1>1 DEF Revisions, Keys
<1>3. revisions' = Append(revisions, rev)  BY DEF OperatorPublishes
<1> HIDE DEF rev
<1>4. /\ revisions' \in Seq(Revisions)
      /\ Len(revisions') = n /\ Len(revisions) \in Nat
      /\ DOMAIN revisions' = 1..n /\ DOMAIN revisions = 1..Len(revisions)
      /\ \A i \in DOMAIN revisions : revisions'[i] = revisions[i]
      /\ revisions'[n] = rev /\ Changed' = Changed
  BY <1>0, <1>2, <1>3, Appending
<1>5. moves' \in 0..MaxMoves  BY <1>0, Counted DEF OperatorPublishes
<1>6. TypeOK'  BY <1>0, <1>4, <1>5 DEF TypeOK, Revisions
<1>7. Changed \subseteq DOMAIN revisions  BY DEF Changed
<1>8. PaidFor' = PaidFor /\ (Published => Published')
  BY <1>0, <1>4, <1>7 DEF PaidFor, Published
<1>9. History'
  <2>1. 1 \in DOMAIN revisions /\ revisions' # <<>>
    BY <1>0, <1>4 DEF History
  <2>. QED  BY <1>0, <1>4, <1>8, <2>1 DEF History
<1>10. Money'
  <2>1. request.base \in Nat  BY <1>0 DEF TypeOK
  <2>2. \A i \in Changed : \A j \in (request.base + 1)..(i - 1) : j \in DOMAIN revisions
    BY <1>4, <1>7, <2>1
  <2>. QED  BY <1>0, <1>4, <1>7, <1>8, <2>2 DEF Money
<1>12. ASSUME NEW d \in Ahead PROVE d \in Ahead'
  <2>1. d \in Days /\ d <= now  BY DEF Ahead
  <2>2. ASSUME NEW j \in Standing', j > request'.base
        PROVE  revisions'[j].at >= d \/ revisions'[j].made >= d
    <3>1. CASE j \in DOMAIN revisions
      <4>1. j \in Standing /\ revisions'[j] = revisions[j]
        BY <1>4, <2>2, <3>1 DEF Standing
      <4>. QED  BY <1>0, <2>2, <4>1 DEF Ahead
    <3>2. CASE j = n
      <4>1. revisions'[j].made = now  BY <1>2, <1>4, <3>2
      <4>2. d \in Int  BY <2>1, PlanAssumption DEF Days
      <4>. QED  BY <1>1, <2>1, <4>1, <4>2
    <3>3. j \in DOMAIN revisions \/ j = n  BY <1>4 DEF Standing
    <3>. QED  BY <3>1, <3>2, <3>3
  <2>. QED  BY <1>0, <2>1, <2>2 DEF Ahead
<1>13. Progress
  BY <1>0, <1>1, <1>4, <1>8, <1>12 DEF Progress
<1>14. Knowledge'  BY <1>0, <1>6, <1>13, NoneLearns
<1>15. Alone'  BY <1>0, AloneOutside
<1>. QED  BY <1>6, <1>9, <1>10, <1>14, <1>15 DEF IInv

LEMMA OperatorCancelsKeeps ==
    ASSUME IInv, NEW i \in DOMAIN revisions, OperatorCancels(i)
    PROVE  IInv'
<1>0. /\ TypeOK /\ Knowledge /\ Alone /\ Money /\ History
      /\ UNCHANGED <<now, kind, request, ending, next, billing, announced, lapsed, actor, faults>>
  BY DEF IInv, OperatorCancels
<1> DEFINE rev == [revisions[i] EXCEPT !.cancelled = TRUE]
<1>1. /\ rev \in Revisions /\ rev.key = revisions[i].key /\ rev.at = revisions[i].at
      /\ rev.made = revisions[i].made /\ rev.cancelled = TRUE
      /\ rev.synced = revisions[i].synced
  BY <1>0, RevisionsAreSeq DEF Revisions
<1>2. revisions' = [revisions EXCEPT ![i] = rev]  BY DEF OperatorCancels
<1> HIDE DEF rev
<1>3. /\ revisions' \in Seq(Revisions) /\ Len(revisions') = Len(revisions)
      /\ DOMAIN revisions' = DOMAIN revisions
      /\ \A j \in DOMAIN revisions : revisions'[j] = IF j = i THEN rev ELSE revisions[j]
      /\ Changed' = Changed
  BY <1>0, <1>1, <1>2, Replacing
<1>4. \A j \in DOMAIN revisions : /\ revisions'[j].at = revisions[j].at
                                  /\ revisions'[j].made = revisions[j].made
                                  /\ revisions[j].cancelled => revisions'[j].cancelled
                                  /\ revisions'[j].synced = revisions[j].synced
  BY <1>1, <1>3
<1>5. Len(revisions) \in Nat /\ DOMAIN revisions = 1..Len(revisions)
      /\ Changed \subseteq DOMAIN revisions /\ now \in Nat
  BY <1>0, RevisionsAreSeq, PlanAssumption DEF Changed, TypeOK
<1>6. moves' \in 0..MaxMoves  BY <1>0, Counted DEF OperatorCancels
<1>7. TypeOK'  BY <1>0, <1>3, <1>6 DEF TypeOK, Revisions
<1>8. PaidFor' = PaidFor /\ (Published => Published')
      /\ Standing' \subseteq Standing
  BY <1>0, <1>3, <1>4, <1>5 DEF PaidFor, Published, Standing
<1>9. Ahead \subseteq Ahead'
  <2>1. \A j \in Standing : j \in DOMAIN revisions  BY DEF Standing
  <2>. QED  BY <1>0, <1>4, <1>8, <2>1 DEF Ahead
<1>10. History'
  <2>1. 1 \in DOMAIN revisions /\ revisions' # <<>>
    BY <1>0, <1>3, <1>5, LenProperties DEF History
  <2>2. i # 1  BY <1>0, <1>5 DEF OperatorCancels, History
  <2>. QED  BY <1>0, <1>3, <1>4, <1>8, <2>1, <2>2 DEF History
<1>11. Money'
  <2>1. request.base \in Nat  BY <1>0 DEF TypeOK
  <2>2. \A k \in Changed : \A j \in (request.base + 1)..(k - 1) : j \in DOMAIN revisions
    BY <1>5, <2>1
  <2>3. ASSUME kind # "downgrade", NEW k \in Changed', NEW j \in (request'.base + 1)..(k - 1)
        PROVE  \/ revisions'[j].cancelled
               \/ revisions'[j].made >= revisions'[k].at /\ revisions'[k].at > revisions'[j].at
    <3>1. k \in Changed /\ j \in (request.base + 1)..(k - 1)  BY <1>0, <1>3, <2>3
    <3>2. \/ revisions[j].cancelled
          \/ revisions[j].made >= revisions[k].at /\ revisions[k].at > revisions[j].at
      BY <1>0, <2>3, <3>1 DEF Money
    <3>3. j \in DOMAIN revisions /\ k \in DOMAIN revisions  BY <1>5, <2>2, <3>1
    <3>. QED  BY <1>4, <3>2, <3>3
  <2>. QED  BY <1>0, <1>3, <1>8, <2>3 DEF Money
<1>12. Progress
  BY <1>0, <1>3, <1>5, <1>8, <1>9 DEF Progress
<1>13. Knowledge'  BY <1>0, <1>7, <1>12, NoneLearns
<1>14. Alone'  BY <1>0, AloneOutside
<1>. QED  BY <1>7, <1>10, <1>11, <1>13, <1>14 DEF IInv

\* A termination is recorded, an invoice is settled, a day goes by.
LEMMA OutsideKeeps == ASSUME IInv, Terminate \/ PaymentSettles \/ Tick PROVE IInv'
<1>0. /\ TypeOK /\ Knowledge /\ Alone /\ Money /\ History /\ now \in Int
      /\ UNCHANGED <<kind, request, revisions, next, announced, lapsed, actor, faults>>
  BY PlanAssumption DEF IInv, TypeOK, Terminate, PaymentSettles, Tick, BillingOnly
<1>1. /\ now' \in 0..Horizon /\ now' >= now /\ moves' \in 0..MaxMoves /\ ending' \in BOOLEAN
      /\ billing' \in [payment : Payments, paidAt : Days, next : Days]
      /\ billing' = billing \/ (billing.payment = "awaiting_payment"
                              /\ billing'.paidAt \in {now', billing.paidAt})
  <2>1. CASE Terminate
    BY <1>0, <2>1, Counted DEF TypeOK, Terminate
  <2>2. CASE PaymentSettles
    <3>1. now \in Days  BY <1>0, PlanAssumption DEF TypeOK, Days
    <3>2. UNCHANGED <<now, moves, ending>>  BY <2>2 DEF PaymentSettles, BillingOnly
    <3>3. billing \in [payment : Payments, paidAt : Days, next : Days]  BY <1>0 DEF TypeOK
    <3>4. CASE billing' = [billing EXCEPT !.payment = "paid", !.paidAt = now]
      <4>1. /\ billing' \in [payment : Payments, paidAt : Days, next : Days]
            /\ billing'.paidAt = now
        BY <3>1, <3>3, <3>4 DEF Payments
      <4>. QED  BY <1>0, <2>2, <3>2, <4>1 DEF TypeOK, PaymentSettles
    <3>5. CASE billing' = [billing EXCEPT !.payment = "expired"]
      <4>1. /\ billing' \in [payment : Payments, paidAt : Days, next : Days]
            /\ billing'.paidAt = billing.paidAt
        BY <3>3, <3>5 DEF Payments
      <4>. QED  BY <1>0, <2>2, <3>2, <4>1 DEF TypeOK, PaymentSettles
    <3>. QED  BY <2>2, <3>4, <3>5 DEF PaymentSettles
  <2>3. CASE Tick
    BY <1>0, <2>3, PlanAssumption DEF TypeOK, Tick
  <2>. QED  BY <2>1, <2>2, <2>3
<1>2. TypeOK'  BY <1>0, <1>1 DEF TypeOK
<1>3. UNCHANGED <<Standing, Changed, Published>>  BY <1>0 DEF Standing, Changed, Published
<1>4. /\ PaidFor => PaidFor'
      /\ billing.payment \in {"activated", "cancelled"} => billing'.payment = billing.payment
  BY <1>0, <1>1 DEF PaidFor
<1>5. History'  BY <1>0, <1>3 DEF History
<1>6. Money'
  <2>1. kind # "downgrade" /\ request.status # "none" => request.at <= now'
    BY <1>0, <1>1, PlanAssumption DEF Money, TypeOK, Days
  <2>2. kind # "downgrade" => billing'.paidAt <= now'
    BY <1>0, <1>1, PlanAssumption DEF Money, TypeOK, Days
  <2>. QED  BY <1>0, <1>3, <1>4, <2>1, <2>2 DEF Money
<1>7. Ahead \subseteq Ahead'
  <2>1. \A d \in Days : d <= now => d <= now'
    BY <1>0, <1>1, PlanAssumption DEF Days
  <2>. QED  BY <1>0, <1>3, <2>1 DEF Ahead
<1>8. Progress
  <2>1. Len(revisions') >= Len(revisions)  BY <1>0, LenProperties DEF TypeOK
  <2>. QED  BY <1>0, <1>1, <1>3, <1>4, <1>7, <2>1 DEF Progress
<1>9. Knowledge'  BY <1>0, <1>2, <1>8, NoneLearns
<1>10. Alone'  BY <1>0, AloneOutside
<1>. QED  BY <1>2, <1>5, <1>6, <1>9, <1>10 DEF IInv

-------------------------------------------------------------------------------
\* No step breaks the invariant.
LEMMA NextKeeps == ASSUME IInv, [Next]_vars PROVE IInv'
<1>1. ASSUME NEW w \in Workers, Quote(w) \/ Start(w) \/ Claim(w) PROVE IInv'
  BY <1>1, QuoteKeeps, StartKeeps, ClaimKeeps
<1>2. ASSUME NEW w \in Workers, Works(w) PROVE IInv'
  BY <1>2, CheckTerminationKeeps, AskKeeps, AnsweredKeeps, CheckKeeps, PublishKeeps,
     ScheduleKeeps, BillCycleKeeps, ActivateKeeps, RecordActivationKeeps, TellKeeps,
     CompleteKeeps, ConflictKeeps DEF Works
<1>3. ASSUME NEW c \in Cancellers, Cancel(c) \/ ClaimToCancel(c) \/ Cancels(c) PROVE IInv'
  BY <1>3, CancelKeeps, ClaimToCancelKeeps, DropRevisionKeeps, DropPaymentKeeps,
     CancelledKeeps DEF Cancels
<1>4. ASSUME NEW a \in Actors, Leave(a) \/ CallFails(a) \/ Crash(a) PROVE IInv'
  BY <1>4, LeaveKeeps, CallFailsKeeps, CrashKeeps
<1>5. CASE Lapse \/ Operators \/ PaymentSettles \/ Tick
  BY <1>5, LapseKeeps, OperatorPublishesKeeps, OperatorCancelsKeeps, OutsideKeeps DEF Operators
<1>6. CASE UNCHANGED vars
  <2>1. TypeOK'  BY <1>6 DEF IInv, TypeOK, vars
  <2>2. UNCHANGED <<Changed, PaidFor, Published, Ahead>>
    BY <1>6 DEF vars, Changed, PaidFor, Published, Ahead, Standing
  <2>3. Knowledge'  BY <1>6, <2>2 DEF IInv, Knowledge, Learnt, vars
  <2>4. History' /\ Money'  BY <1>6, <2>2 DEF IInv, History, Money, vars
  <2>5. Alone'  BY <1>6, AloneOutside DEF IInv, vars
  <2>. QED  BY <2>1, <2>3, <2>4, <2>5 DEF IInv
<1>. QED  BY <1>1, <1>2, <1>3, <1>4, <1>5, <1>6 DEF Next

THEOREM Invariant == Spec => []IInv
BY InitIInv, NextKeeps, PTL DEF Spec

-------------------------------------------------------------------------------
\* In every reachable state the row, the versions, Billing and the actors have
\* their types: a request is never in a status that its column does not know.
THEOREM TypeCorrect == Spec => []TypeOK
<1>1. IInv => TypeOK  BY DEF IInv
<1>. QED  BY Invariant, <1>1, PTL

\* No upgrade is published, activated or completed without its money, however
\* many processes go on writing after their claims have lapsed.
THEOREM NothingIsUnpaid == Spec => []NothingUnpaid
<1>1. IInv => NothingUnpaid  BY DEF IInv, History, Money, NothingUnpaid, PaidFor, Published
<1>. QED  BY Invariant, <1>1, PTL

\* An upgrade never overtakes conditions that were saved between its quote and
\* its payment, however actors, lapsed claims and operators take turns.
THEOREM BaseAlwaysStands == Spec => []BaseStands
<1>1. IInv => BaseStands  BY DEF IInv, Money, BaseStands
<1>. QED  BY Invariant, <1>1, PTL

\* An upgrade that is told to be cancelled is never paid for.
THEOREM CancelledIsFree == Spec => []CancelledForFree
<1>1. IInv => CancelledForFree  BY DEF IInv, Money, CancelledForFree
<1>. QED  BY Invariant, <1>1, PTL

\* As long as no claim lapsed under its holder, one process at a time works on
\* the row and the end of an upgrade is announced once.
THEOREM OneWorksAtATime == Spec => []OneAtATime
<1>1. IInv => OneAtATime
  <2>. SUFFICES ASSUME IInv, ~lapsed
                PROVE  Cardinality({a \in Actors : Inside(a)}) <= 1 /\ announced <= 1
    BY DEF OneAtATime
  <2> DEFINE S == {a \in Actors : Inside(a)}
  <2>1. \A a, b \in S : a = b  BY DEF IInv, Alone
  <2>2. CASE S = {}  BY <2>2, FS_EmptySet DEF IInv, Alone
  <2>3. CASE S # {}
    <3>1. PICK x \in S : TRUE  BY <2>3
    <3>2. S = {x}  BY <2>1, <3>1
    <3> HIDE DEF S
    <3>3. Cardinality(S) = 1  BY <3>2, FS_Singleton
    <3>. QED  BY <3>3 DEF S, IInv, Alone
  <2>. QED  BY <2>2, <2>3
<1>. QED  BY Invariant, <1>1, PTL

-------------------------------------------------------------------------------
\* A downgrade that is left alone.  What the row and the actors refer to is the
\* revision of the change.
RefersTo(a) ==
    /\ actor[a].pc \in {"cancelling", "dropping"} => actor[a].revision \in {0} \cup Changed
    /\ actor[a].pc \in {"billing", "telling", "completing"} => request.revision # 0

Refers ==
    /\ request.revision \in {0} \cup Changed
    /\ request.status = "completed" => request.revision # 0
    /\ \A a \in Actors : RefersTo(a)

\* The revision that a cancellation has dropped is told to be cancelled, or is
\* going to be, by who holds the claim.
Undone == \E i \in Changed : revisions[i].cancelled
Told   == request.status = "cancelled" \/ \E a \in Actors : actor[a].pc = "dropped"
Quiet  == kind = "downgrade" /\ moves = 0 /\ faults = 0

Undisturbed == Quiet => ~lapsed /\ (Undone => Told)

\* The numbers of revisions count from one.
LEMMA NotZero == ASSUME TypeOK PROVE 0 \notin Changed
BY RevisionsAreSeq DEF Changed

\* Who writes revisions.
LEMMA WhoRevises ==
    ASSUME [Next]_vars
    PROVE  \/ revisions' = revisions \/ Operators
           \/ \E w \in Workers : Publish(w)
           \/ \E c \in Cancellers : DropRevision(c)
<1>1. ASSUME NEW w \in Workers,
             \/ Quote(w) \/ Start(w) \/ Claim(w) \/ CheckTermination(w) \/ Ask(w) \/ Answered(w)
             \/ Check(w) \/ Schedule(w) \/ BillCycle(w) \/ Activate(w) \/ RecordActivation(w)
             \/ Tell(w) \/ Complete(w) \/ Conflict(w)
      PROVE  revisions' = revisions
  <2>1. CASE Quote(w) \/ Start(w) \/ Claim(w) \/ CheckTermination(w)
    BY <2>1 DEF Quote, Start, Claim, CheckTermination, RequestOnly, ActorOnly
  <2>2. CASE Answered(w)
    <3>1. RequestOnly  BY <2>2 DEF Answered
    <3>. QED  BY <3>1 DEF RequestOnly
  <2>5. CASE Ask(w) \/ Check(w) \/ Schedule(w)
    BY <2>5 DEF Ask, Check, Schedule, RequestOnly, ActorOnly, BillingOnly
  <2>3. CASE BillCycle(w) \/ Activate(w) \/ RecordActivation(w)
    BY <2>3 DEF BillCycle, Activate, RecordActivation, BillingOnly
  <2>4. CASE Tell(w) \/ Complete(w) \/ Conflict(w)
    BY <2>4 DEF Tell, Complete, Conflict, RequestOnly
  <2>. QED  BY <1>1, <2>1, <2>2, <2>3, <2>4, <2>5
<1>2. ASSUME NEW c \in Cancellers, Cancel(c) \/ ClaimToCancel(c) \/ DropPayment(c) \/ Cancelled(c)
      PROVE  revisions' = revisions
  BY <1>2 DEF Cancel, ClaimToCancel, DropPayment, Cancelled, RequestOnly, ActorOnly, BillingOnly
<1>3. ASSUME NEW a \in Actors, Leave(a) \/ CallFails(a) \/ Crash(a) PROVE revisions' = revisions
  BY <1>3 DEF Leave, CallFails, Crash, RequestOnly
<1>4. CASE Lapse \/ PaymentSettles \/ Tick \/ UNCHANGED vars
  BY <1>4 DEF Lapse, PaymentSettles, Tick, BillingOnly, vars
<1>. QED  BY <1>1, <1>2, <1>3, <1>4 DEF Next, Works, Cancels

\* Revisions keep their keys.
LEMMA ChangedGrows == ASSUME IInv, [Next]_vars PROVE Changed \subseteq Changed'
<1>0. TypeOK  BY DEF IInv
<1>1. CASE revisions' = revisions  BY <1>1 DEF Changed
<1>2. ASSUME NEW rev \in Revisions, revisions' = Append(revisions, rev)
      PROVE  Changed \subseteq Changed'
  BY <1>0, <1>2, Appending
<1>3. ASSUME NEW i \in DOMAIN revisions, revisions' = [revisions EXCEPT ![i].cancelled = TRUE]
      PROVE  Changed \subseteq Changed'
  <2> DEFINE rev == [revisions[i] EXCEPT !.cancelled = TRUE]
  <2>1. rev \in Revisions /\ rev.key = revisions[i].key
    BY <1>0, RevisionsAreSeq DEF Revisions
  <2>2. revisions' = [revisions EXCEPT ![i] = rev]  BY <1>3
  <2> HIDE DEF rev
  <2>. QED  BY <1>0, <2>1, <2>2, Replacing
<1>4. ASSUME NEW w \in Workers, Publish(w) PROVE Changed \subseteq Changed'
  <2>1. CASE Changed # {} /\ MayPublish(actor[w].at)
    <3> DEFINE m == Max(Changed)
               old == revisions[m]
    <3>1. m \in DOMAIN revisions /\ old \in Revisions
      BY <1>0, <2>1, TheChange, RevisionsAreSeq DEF IInv
    <3>2. PICK rev \in Delivered(old) : revisions' = [revisions EXCEPT ![m] = rev]
      BY <1>4, <2>1 DEF Publish
    <3>3. rev \in Revisions /\ rev.key = old.key
      <4> DEFINE sy == ~old.cancelled \/ old.synced
      <4>1. rev = old \/ rev = [old EXCEPT !.synced = sy]  BY <3>2 DEF Delivered
      <4>2. sy \in BOOLEAN  OBVIOUS
      <4> HIDE DEF sy, old
      <4>. QED  BY <3>1, <4>1, <4>2 DEF Revisions
    <3>. QED  BY <1>0, <3>1, <3>2, <3>3, Replacing
  <2>2. CASE ~MayPublish(actor[w].at)
    <3>1. revisions' = revisions  BY <1>4, <2>2 DEF Publish
    <3>. QED  BY <1>1, <3>1
  <2>. QED  BY <2>1, <2>2
<1>5. ASSUME NEW c \in Cancellers, DropRevision(c) PROVE Changed \subseteq Changed'
  <2>1. actor[c].revision # 0 => actor[c].revision \in DOMAIN revisions
    BY <1>0, <1>5, RevisionsAreSeq DEF DropRevision, IInv, Knowledge, Learnt, Actors
  <2>. QED  BY <1>1, <1>3, <1>5, <2>1 DEF DropRevision
<1>6. ASSUME NEW at \in 0..(now + 1), OperatorPublishes(at) PROVE Changed \subseteq Changed'
  <2>1. [key |-> "operator", at |-> at, made |-> now, cancelled |-> FALSE, synced |-> TRUE]
          \in Revisions
    BY <1>0, PlanAssumption DEF Revisions, Keys, TypeOK, Days
  <2>. QED  BY <1>2, <1>6, <2>1 DEF OperatorPublishes
<1>8. CASE Terminate  BY <1>1, <1>8 DEF Terminate
<1>. QED  BY <1>1, <1>3, <1>4, <1>5, <1>6, <1>8, WhoRevises DEF Operators, OperatorCancels

\* One actor moves; the row keeps its revision or is given that of the change.
LEMMA ReferStep ==
    ASSUME IInv, Refers, NEW a \in Actors, NEW s \in States, Goes(a, s),
           Changed \subseteq Changed',
           request'.revision \in {request.revision} \cup (Changed' \ {0}),
           request'.status = "completed" => request'.revision # 0,
           RefersTo(a)'
    PROVE  Refers'
<1>1. \A b \in Actors : b # a => actor'[b] = actor[b]  BY Moves DEF IInv
<1>2. \A b \in Actors : b # a => RefersTo(b)'  BY <1>1 DEF Refers, RefersTo
<1>. QED  BY <1>2 DEF Refers

LEMMA ReferStay ==
    ASSUME Refers, Changed \subseteq Changed', actor' = actor,
           request'.revision = request.revision, request'.status = request.status
    PROVE  Refers'
BY DEF Refers, RefersTo

\* What the actors and the row refer to is the revision of the change.
LEMMA RefersKept == ASSUME IInv, Refers, [Next]_vars PROVE Refers'
<1>0. /\ TypeOK /\ request \in Requests /\ Changed \subseteq Changed' /\ 0 \notin Changed
      /\ Idle \in States /\ Idle.pc = "idle"
      /\ \A a \in Actors : Learnt(a) /\ RefersTo(a)
      /\ Workers \subseteq Actors /\ Cancellers \subseteq Actors
  BY ChangedGrows, NotZero, RevisionsAreSeq, Plain, IdleIsPlain
     DEF IInv, Knowledge, Actors, Refers
<1>1. ASSUME NEW a \in Actors, NEW s \in States, Goes(a, s),
             request'.revision = request.revision,
             request'.status = "completed" => request.status = "completed",
             s.pc \notin {"cancelling", "dropping", "billing", "telling", "completing"}
      PROVE  Refers'
  <2>1. actor'[a] = s  BY <1>0, <1>1, Moves
  <2>. QED  BY <1>0, <1>1, <2>1, ReferStep DEF Refers, RefersTo
<1>2. CASE \/ Lapse \/ Operators \/ PaymentSettles \/ Tick \/ UNCHANGED vars
  <2>1. actor' = actor
    BY <1>2 DEF Lapse, Operators, OperatorPublishes, OperatorCancels, Terminate,
                PaymentSettles, BillingOnly, Tick, vars
  <2>2. request'.revision = request.revision /\ request'.status = request.status
    BY <1>0, <1>2 DEF Lapse, Operators, OperatorPublishes, OperatorCancels, Terminate,
                      PaymentSettles, BillingOnly, Tick, vars, Requests
  <2>. QED  BY <1>0, <2>1, <2>2, ReferStay
<1>3. ASSUME NEW a \in Actors, Leave(a) \/ CallFails(a) \/ Crash(a) PROVE Refers'
  <2>1. PICK s \in {Idle, At("leaving"), At("conflict")} : Goes(a, s)
    BY <1>3 DEF Leave, CallFails, Crash
  <2>2. request'.revision = request.revision /\ request'.status = request.status
    BY <1>0, <1>3 DEF Leave, CallFails, Crash, Requests
  <2>3. s \in States /\ s.pc \in {"idle", "leaving", "conflict"}
    BY <1>0, <2>1, Plain DEF At
  <2>. QED  BY <1>1, <2>1, <2>2, <2>3
<1>4. ASSUME NEW c \in Cancellers, Cancel(c) PROVE Refers'
  <2> DEFINE s == [pc |-> "cancelling", revision |-> request.revision]
  <2>1. s \in States /\ s.pc = "cancelling" /\ s.revision = request.revision
    BY <1>0 DEF States, Requests
  <2>2. Goes(c, s) /\ request' = request  BY <1>4 DEF Cancel, ActorOnly
  <2> HIDE DEF s
  <2>3. actor'[c] = s  BY <1>0, <2>1, <2>2, Moves
  <2>4. RefersTo(c)'  BY <1>0, <2>1, <2>2, <2>3 DEF Refers, RefersTo
  <2>. QED  BY <1>0, <2>1, <2>2, <2>4, ReferStep DEF Refers
<1>5. ASSUME NEW c \in Cancellers, ClaimToCancel(c) PROVE Refers'
  <2>0. actor[c].pc = "cancelling"  BY <1>5 DEF ClaimToCancel
  <2> DEFINE s == [pc |-> "dropping", revision |-> actor[c].revision]
  <2>1. s \in States /\ s.pc = "dropping" /\ s.revision = actor[c].revision
    BY <1>0, <2>0, Carries DEF States
  <2>2. /\ Goes(c, s) \/ Goes(c, Idle)
        /\ request'.status = request.status /\ request'.revision = request.revision
    BY <1>0, <1>5 DEF ClaimToCancel, Requests
  <2> HIDE DEF s
  <2>3. CASE Goes(c, s)
    <3>1. actor'[c] = s  BY <1>0, <2>1, <2>3, Moves
    <3>2. RefersTo(c)'  BY <1>0, <2>0, <2>1, <3>1 DEF RefersTo
    <3>. QED  BY <1>0, <2>1, <2>2, <2>3, <3>2, ReferStep DEF Refers
  <2>4. CASE Goes(c, Idle)  BY <1>0, <1>1, <2>2, <2>4
  <2>. QED  BY <2>2, <2>3, <2>4
<1>6. ASSUME NEW c \in Cancellers, Cancels(c) PROVE Refers'
  <2>1. PICK s \in {At("leaving"), At("dropped")} : Goes(c, s)
    BY <1>6 DEF Cancels, DropRevision, DropPayment, Cancelled
  <2>2. s \in States /\ s.pc \in {"leaving", "dropped"}  BY <2>1, Plain DEF At
  <2>3. /\ request'.revision = request.revision
        /\ request'.status = "completed" => request.status = "completed"
    BY <1>0, <1>6 DEF Cancels, DropRevision, DropPayment, Cancelled, Status, BillingOnly, Requests
  <2>. QED  BY <1>0, <1>1, <2>1, <2>2, <2>3
<1>7. ASSUME NEW w \in Workers, Quote(w) PROVE Refers'
  <2> DEFINE s == [pc |-> "quoted", base |-> Current,
                   at |-> IF kind = "downgrade" THEN PaidUntil ELSE now]
  <2>1. s \in States /\ s.pc = "quoted"
    <3>1. Current \in Nat  BY CurrentIsNewest DEF IInv
    <3>2. now \in Days /\ PaidUntil \in Days
      BY <1>0, PlanAssumption DEF TypeOK, Days
    <3>. QED  BY <3>1, <3>2 DEF States
  <2>2. Goes(w, s) /\ request' = request  BY <1>7 DEF Quote, ActorOnly
  <2> HIDE DEF s
  <2>. QED  BY <1>0, <1>1, <2>1, <2>2
<1>8. ASSUME NEW w \in Workers, Start(w) PROVE Refers'
  <2>1. Goes(w, Idle)  BY <1>8 DEF Start
  <2>2. CASE request' = request  BY <1>0, <1>1, <2>1, <2>2
  <2>3. CASE MayStart
    <3>1. request.status = "none" /\ request'.status = "requested" /\ request'.revision = 0
      BY <1>8, <2>3 DEF Start, MayStart
    <3>2. \A b \in Actors : actor'[b].pc \in {"idle", "quoted"}
      BY <1>0, <2>1, <3>1, Moves DEF Learnt
    <3>. QED  BY <3>1, <3>2 DEF Refers, RefersTo
  <2>. QED  BY <1>8, <2>2, <2>3 DEF Start
<1>9. ASSUME NEW w \in Workers, Claim(w) PROVE Refers'
  <2> DEFINE s == [pc |-> "claimed", status |-> request.status]
  <2>1. s \in States /\ s.pc = "claimed"  BY <1>9 DEF Claim, Claimable, States
  <2>2. /\ Goes(w, s)
        /\ request'.revision = request.revision /\ request'.status = request.status
    BY <1>0, <1>9 DEF Claim, Requests
  <2> HIDE DEF s
  <2>. QED  BY <1>0, <1>1, <2>1, <2>2
<1>10. ASSUME NEW w \in Workers, Works(w) PROVE Refers'
  <2>0. w \in Actors /\ Learnt(w) /\ RefersTo(w)  BY <1>0
  <2>1. CASE CheckTermination(w)
    <3> DEFINE s == [pc |-> "asking", status |-> actor[w].status]
    <3>1. s \in States /\ s.pc = "asking"
      BY <1>0, <2>0, <2>1, Carries DEF CheckTermination, States
    <3> DEFINE p == [pc |-> "publishing", at |-> request.at]
    <3>2. /\ Goes(w, s) \/ Goes(w, Idle) \/ Goes(w, p)
          /\ request'.status \in {request.status, "needs_review"}
          /\ request'.revision = request.revision
      BY <1>0, <2>1 DEF CheckTermination, Requests
    <3>3. p \in States /\ p.pc = "publishing"  BY <1>0 DEF States, Requests
    <3> HIDE DEF s, p
    <3>4. PICK t \in {s, Idle, p} : Goes(w, t)  BY <3>2
    <3>5. t \in States /\ t.pc \in {"asking", "idle", "publishing"}
      BY <1>0, <3>1, <3>3, <3>4
    <3>. QED  BY <1>1, <2>0, <3>2, <3>4, <3>5
  <2>2. CASE Ask(w)
    <3> DEFINE b == IF actor[w].status = "requested" THEN Asked(billing) ELSE billing
               s == [pc |-> "answered", status |-> actor[w].status, payment |-> b.payment]
    <3>1. b.payment \in Payments  BY <1>0 DEF TypeOK, Asked, Payments
    <3>2. actor[w].status \in Open  BY <1>0, <2>0, <2>2, Carries DEF Ask
    <3>3. Goes(w, s) /\ request' = request  BY <2>2 DEF Ask, BillingOnly
    <3> HIDE DEF b
    <3>4. s \in States /\ s.pc = "answered"  BY <3>1, <3>2 DEF States
    <3> HIDE DEF s
    <3>. QED  BY <1>1, <2>0, <3>3, <3>4
  <2>3. CASE Answered(w)
    <3> DEFINE st == StatusOf(actor[w].status, actor[w].payment)
    <3>1. st # "completed"  BY DEF StatusOf
    <3>2. request' = IF st = "" THEN request ELSE [request EXCEPT !.status = st]
      BY <2>3 DEF Answered, Status
    <3> HIDE DEF st
    <3>3. /\ request'.status = "completed" => request.status = "completed"
          /\ request'.revision = request.revision
      BY <1>0, <3>1, <3>2 DEF Requests
    <3>4. PICK t \in {At("checking"), At("leaving")} : Goes(w, t)  BY <2>3 DEF Answered
    <3>5. t \in States /\ t.pc \in {"checking", "leaving"}  BY <3>4, Plain
    <3>. QED  BY <1>1, <2>0, <3>3, <3>4, <3>5
  <2>4. CASE Check(w) \/ Publish(w) \/ Activate(w)
    <3>1. request' = request
      BY <2>4 DEF Check, Publish, Activate, ActorOnly, BillingOnly
    <3> DEFINE p == [pc |-> "publishing", at |-> ChangeAt]
    <3>2. p \in States /\ p.pc = "publishing"  BY ChangeAtIsDay DEF IInv, States
    <3>3. PICK t \in {p, At("conflict"), At("published"), At("leaving"), At("acked")} :
            Goes(w, t)
      BY <2>4 DEF Check, Publish, Activate
    <3> HIDE DEF p
    <3>4. t \in States /\ t.pc \in {"publishing", "conflict", "published", "leaving", "acked"}
      BY <3>2, <3>3, Plain
    <3>. QED  BY <1>1, <2>0, <3>1, <3>3, <3>4
  <2>5. ASSUME NEW t \in {At("billing"), At("leaving"), At("telling")}, Goes(w, t),
               actor[w].pc \in {"published", "acked"},
               request'.revision = Max(Changed), request'.status # "completed"
        PROVE  Refers'
    <3>1. Max(Changed) \in Changed
      BY <2>0, <2>5, TheChange DEF Learnt, Published, IInv
    <3>2. request'.revision \in Changed' \ {0}  BY <1>0, <2>5, <3>1
    <3>3. t \in States /\ t.pc \in {"billing", "leaving", "telling"}  BY <2>5, Plain
    <3>4. actor'[w] = t  BY <1>0, <2>0, <2>5, <3>3, Moves
    <3>5. RefersTo(w)'  BY <3>2, <3>3, <3>4 DEF RefersTo
    <3>. QED  BY <1>0, <2>0, <2>5, <3>2, <3>3, <3>5, ReferStep
  <2>6. CASE Schedule(w)
    <3>1. request'.revision = Max(Changed) /\ request'.status = "scheduled"
      BY <1>0, <2>6 DEF Schedule, Requests
    <3>. QED  BY <2>5, <2>6, <3>1 DEF Schedule
  <2>7. CASE RecordActivation(w)
    <3>1. request'.revision = Max(Changed) /\ request'.status = "activated"
      BY <1>0, <2>7 DEF RecordActivation, Requests
    <3>. QED  BY <2>5, <2>7, <3>1 DEF RecordActivation
  <2>8. CASE BillCycle(w) \/ Tell(w)
    <3>1. actor[w].pc \in {"billing", "telling"} /\ request' = request
      BY <2>8 DEF BillCycle, Tell
    <3>2. PICK t \in {At("completing"), At("leaving")} : Goes(w, t)
      BY <2>8 DEF BillCycle, Tell
    <3>3. t \in States /\ t.pc \in {"completing", "leaving"}  BY <3>2, Plain
    <3>4. actor'[w] = t  BY <1>0, <2>0, <3>2, <3>3, Moves
    <3>5. RefersTo(w)'  BY <2>0, <3>1, <3>3, <3>4 DEF RefersTo
    <3>. QED  BY <1>0, <2>0, <3>1, <3>2, <3>3, <3>5, ReferStep DEF Refers
  <2>9. CASE Complete(w)
    <3>1. Goes(w, At("leaving")) /\ actor[w].pc = "completing"
          /\ request'.revision = request.revision
      BY <1>0, <2>9 DEF Complete, Status, Requests
    <3>2. At("leaving") \in States /\ At("leaving").pc = "leaving"  BY Plain
    <3>3. actor'[w] = At("leaving")  BY <1>0, <2>0, <3>1, <3>2, Moves
    <3>4. RefersTo(w)'  BY <3>2, <3>3 DEF RefersTo
    <3>5. request'.revision # 0  BY <2>0, <3>1 DEF RefersTo
    <3>. QED  BY <1>0, <2>0, <3>1, <3>2, <3>4, <3>5, ReferStep
  <2>10. CASE Conflict(w)
    <3>1. /\ Goes(w, At("leaving"))
          /\ request'.status \in {request.status, "needs_review"}
          /\ request'.revision = request.revision
      BY <1>0, <2>10 DEF Conflict, Status, Requests
    <3>2. At("leaving") \in States /\ At("leaving").pc = "leaving"  BY Plain
    <3>. QED  BY <1>1, <2>0, <3>1, <3>2
  <2>. QED
    BY <1>10, <2>1, <2>2, <2>3, <2>4, <2>6, <2>7, <2>8, <2>9, <2>10 DEF Works
<1>. QED
  BY <1>2, <1>3, <1>4, <1>5, <1>6, <1>7, <1>8, <1>9, <1>10 DEF Next

\* While nobody intervenes and nothing fails: faults and moves only count up.
LEMMA QuietBefore ==
    ASSUME IInv, [Next]_vars, Quiet'
    PROVE  Quiet /\ moves' = moves /\ faults' = faults /\ (~lapsed => ~lapsed')
<1>0. moves \in Nat /\ faults \in Nat  BY PlanAssumption DEF IInv, TypeOK
<1>1. CASE UNCHANGED <<kind, moves, faults, lapsed>>  BY <1>1 DEF Quiet
<1>2. CASE UNCHANGED <<kind, moves, lapsed>> /\ Fault  BY <1>0, <1>2 DEF Quiet, Fault
<1>3. CASE UNCHANGED <<kind, faults, lapsed>> /\ Move  BY <1>0, <1>3 DEF Quiet, Move
<1>4. ASSUME NEW w \in Workers, Quote(w) \/ Start(w) \/ Claim(w) \/ CheckTermination(w)
      PROVE  UNCHANGED <<kind, moves, faults, lapsed>>
  BY <1>4 DEF Quote, Start, Claim, CheckTermination, RequestOnly, ActorOnly
<1>5. ASSUME NEW w \in Workers, Answered(w) PROVE UNCHANGED <<kind, moves, faults, lapsed>>
  <2>1. RequestOnly  BY <1>5 DEF Answered
  <2>. QED  BY <2>1 DEF RequestOnly
<1>6. ASSUME NEW w \in Workers, Ask(w) \/ Check(w) \/ Schedule(w) \/ BillCycle(w)
      PROVE  UNCHANGED <<kind, moves, faults, lapsed>>
  BY <1>6 DEF Ask, Check, Schedule, BillCycle, RequestOnly, ActorOnly, BillingOnly
<1>7. ASSUME NEW w \in Workers,
             Activate(w) \/ RecordActivation(w) \/ Complete(w) \/ Conflict(w)
      PROVE  UNCHANGED <<kind, moves, faults, lapsed>>
  BY <1>7 DEF Activate, RecordActivation, Complete, Conflict, RequestOnly, BillingOnly
<1>8. ASSUME NEW w \in Workers, Publish(w) \/ Tell(w)
      PROVE  UNCHANGED <<kind, moves, lapsed>> /\ (faults' = faults \/ Fault)
  BY <1>8 DEF Publish, Tell
<1>9. ASSUME NEW c \in Cancellers, Cancel(c) \/ ClaimToCancel(c) \/ Cancels(c)
      PROVE  UNCHANGED <<kind, moves, faults, lapsed>>
  BY <1>9 DEF Cancel, ClaimToCancel, Cancels, DropRevision, DropPayment, Cancelled, RequestOnly,
              ActorOnly, BillingOnly
<1>10. ASSUME NEW a \in Actors, Leave(a) PROVE UNCHANGED <<kind, moves, faults, lapsed>>
  BY <1>10 DEF Leave, RequestOnly
<1>11. ASSUME NEW a \in Actors, CallFails(a) \/ Crash(a)
       PROVE  UNCHANGED <<kind, moves, lapsed>> /\ Fault
  BY <1>11 DEF CallFails, Crash
<1>12. CASE Lapse
  <2>1. UNCHANGED <<kind, moves>> /\ (Fault \/ UNCHANGED <<faults, lapsed>>)
    BY <1>12 DEF Lapse, IInv, TypeOK
  <2>2. CASE UNCHANGED <<faults, lapsed>>  BY <1>1, <2>1, <2>2
  <2>3. CASE Fault
    <3>1. faults' # 0  BY <1>0, <2>3 DEF Fault
    <3>. QED  BY <3>1 DEF Quiet
  <2>. QED  BY <2>1, <2>2, <2>3
<1>13. CASE Operators
  <2>1. UNCHANGED <<kind, faults, lapsed>> /\ Move
    BY <1>13 DEF Operators, OperatorPublishes, OperatorCancels, Terminate
  <2>. QED  BY <1>3, <2>1
<1>14. CASE PaymentSettles \/ Tick \/ UNCHANGED vars
  BY <1>1, <1>14 DEF PaymentSettles, Tick, BillingOnly, vars
<1>. QED
  BY <1>1, <1>2, <1>4, <1>5, <1>6, <1>7, <1>8, <1>9, <1>10, <1>11, <1>12, <1>13, <1>14
     DEF Next, Works

\* Only a cancellation marks the revision of the change then, and goes on to
\* tell it.
LEMMA UndoneByCancel ==
    ASSUME IInv, Refers, [Next]_vars, moves' = moves, Undone'
    PROVE  Undone \/ Told'
<1>0. TypeOK /\ moves \in Nat  BY PlanAssumption DEF IInv, TypeOK
<1>1. revisions' = revisions => Undone  BY DEF Undone, Changed
<1>2. ASSUME NEW w \in Workers, Publish(w) PROVE Undone
  <2>1. CASE revisions' = revisions  BY <1>1, <2>1
  <2>0. w \in Actors /\ actor[w].pc = "publishing"  BY <1>2 DEF Publish, Actors
  <2>2. CASE Changed = {} /\ MayPublish(actor[w].at)
    <3> DEFINE d == actor[w].at
               new == [key |-> "change", at |-> d, made |-> now,
                       cancelled |-> FALSE, synced |-> FALSE]
    <3>1. PICK rev \in Delivered(new) : revisions' = Append(revisions, rev)
      BY <1>2, <2>2 DEF Publish
    <3>2. rev \in Revisions /\ ~rev.cancelled
      <4>1. new \in Revisions /\ new.cancelled = FALSE
        <5>1. d \in Days /\ now \in Days
          BY <1>0, <2>0, Carries, PlanAssumption DEF TypeOK, Days
        <5> HIDE DEF d
        <5>. QED  BY <5>1 DEF Revisions, Keys
      <4>2. rev = new \/ rev = [new EXCEPT !.synced = TRUE]  BY <3>1, <4>1 DEF Delivered
      <4> HIDE DEF new
      <4>. QED  BY <4>1, <4>2 DEF Revisions
    <3>3. Changed' \subseteq {Len(revisions) + 1} /\ revisions'[Len(revisions) + 1] = rev
      BY <1>0, <2>2, <3>1, <3>2, Appending
    <3>. QED  BY <3>2, <3>3 DEF Undone
  <2>3. CASE Changed # {} /\ MayPublish(actor[w].at)
    <3> DEFINE m == Max(Changed)
               old == revisions[m]
    <3>1. m \in DOMAIN revisions /\ Changed = {m} /\ old \in Revisions
      BY <1>0, <2>3, TheChange, RevisionsAreSeq DEF IInv
    <3>2. PICK rev \in Delivered(old) : revisions' = [revisions EXCEPT ![m] = rev]
      BY <1>2, <2>3 DEF Publish
    <3>3. rev \in Revisions /\ rev.key = old.key /\ rev.cancelled = old.cancelled
      <4> DEFINE sy == ~old.cancelled \/ old.synced
      <4>1. rev = old \/ rev = [old EXCEPT !.synced = sy]  BY <3>2 DEF Delivered
      <4>2. sy \in BOOLEAN  OBVIOUS
      <4> HIDE DEF sy, old
      <4>. QED  BY <3>1, <4>1, <4>2 DEF Revisions
    <3>4. Changed' = {m} /\ revisions'[m] = rev  BY <1>0, <3>1, <3>2, <3>3, Replacing
    <3>. QED  BY <3>1, <3>3, <3>4 DEF Undone
  <2>. QED  BY <1>2, <2>1, <2>2, <2>3 DEF Publish
<1>3. ASSUME NEW c \in Cancellers, DropRevision(c) PROVE Undone \/ Told'
  <2>1. c \in Actors /\ (revisions' = revisions \/ Goes(c, At("dropped")))
    BY <1>3 DEF DropRevision, Actors
  <2>2. CASE Goes(c, At("dropped"))
    <3>1. actor'[c].pc = "dropped"  BY <1>0, <2>1, <2>2, Plain, Moves
    <3>. QED  BY <2>1, <3>1 DEF Told
  <2>. QED  BY <1>1, <2>1, <2>2
<1>4. ~Operators
  <2>1. Operators => Move
    BY DEF Operators, OperatorPublishes, OperatorCancels, Terminate
  <2>. QED  BY <1>0, <2>1 DEF Move
<1>. QED
  BY <1>1, <1>2, <1>3, <1>4, WhoRevises

\* What was told stays told, and who is about to tell it does.
LEMMA ToldStays ==
    ASSUME IInv, [Next]_vars, Told, ~lapsed, Quiet, faults' = faults
    PROVE  Told'
<1>0. TypeOK /\ request \in Requests /\ faults \in Nat /\ kind = "downgrade"
      /\ Workers \subseteq Actors /\ Cancellers \subseteq Actors
  BY RevisionsAreSeq, PlanAssumption DEF IInv, TypeOK, Actors, Quiet
<1>1. ASSUME NEW a \in Actors, CallFails(a) \/ Crash(a) PROVE FALSE
  BY <1>0, <1>1 DEF CallFails, Crash, Fault
<1>2. CASE request.status = "cancelled"
  <2>1. \A a \in Actors : Inside(a) => actor[a].pc = "leaving"
    BY <1>2 DEF IInv, Alone
  <2>2. ASSUME NEW w \in Workers, Works(w) PROVE FALSE
    <3>1. actor[w].pc \notin {"idle", "quoted", "cancelling", "leaving"}
      BY <2>2 DEF Works, CheckTermination, Ask, Answered, Check, Publish, Schedule, BillCycle,
                  Activate, RecordActivation, Tell, Complete, Conflict
    <3>. QED  BY <1>0, <2>1, <3>1 DEF Inside
  <2>3. ASSUME NEW c \in Cancellers, Cancels(c) PROVE FALSE
    <3>1. actor[c].pc \in {"dropping", "dropped"}
      BY <2>3 DEF Cancels, DropRevision, DropPayment, Cancelled
    <3>. QED  BY <1>0, <2>1, <3>1 DEF Inside
  <2>4. ASSUME NEW w \in Workers, Quote(w) \/ Start(w) \/ Claim(w)
        PROVE  request'.status = request.status
    BY <1>0, <1>2, <2>4 DEF Quote, Start, MayStart, Claim, ActorOnly, Requests
  <2>5. ASSUME NEW c \in Cancellers, Cancel(c) \/ ClaimToCancel(c)
        PROVE  request'.status = request.status
    BY <1>0, <2>5 DEF Cancel, ClaimToCancel, ActorOnly, Requests
  <2>6. ASSUME NEW a \in Actors, Leave(a) PROVE request'.status = request.status
    BY <1>0, <2>6 DEF Leave, Requests
  <2>7. CASE Lapse \/ Operators \/ PaymentSettles \/ Tick \/ UNCHANGED vars
    BY <1>0, <1>2, <2>7 DEF Lapse, Operators, OperatorPublishes, OperatorCancels, Terminate,
                            PaymentSettles, BillingOnly, Tick, vars, Requests, Told
  <2>. QED  BY <1>1, <1>2, <2>2, <2>3, <2>4, <2>5, <2>6, <2>7 DEF Next, Told
<1>3. ASSUME NEW x \in Actors, actor[x].pc = "dropped" PROVE Told'
  <2>1. CASE actor'[x] = actor[x]  BY <1>3, <2>1 DEF Told
  <2>3. ASSUME NEW a \in Actors, actor[a].pc # "dropped",
               \A b \in Actors : b # a => actor'[b] = actor[b]
        PROVE  Told'
    BY <1>3, <2>1, <2>3
  <2>6. ASSUME NEW w \in Workers, NEW s, Goes(w, s), actor[w].pc # "dropped" PROVE Told'
    BY <1>0, <2>3, <2>6 DEF Goes, TypeOK
  <2>7. ASSUME NEW w \in Workers, Quote(w) \/ Start(w) \/ Claim(w) PROVE Told'
    BY <1>0, <2>3, <2>7 DEF Quote, Start, Claim, Goes, TypeOK, Idle
  <2>8. ASSUME NEW w \in Workers, Works(w) PROVE Told'
    <3>1. CASE CheckTermination(w) \/ Ask(w) \/ Check(w)
      BY <1>0, <2>3, <3>1 DEF CheckTermination, Ask, Check, Goes, TypeOK
    <3>2. CASE Answered(w)
      <4>1. actor[w].pc = "answered"  BY <3>2 DEF Answered
      <4>2. PICK s \in {At("checking"), At("leaving")} : Goes(w, s)  BY <3>2 DEF Answered
      <4> HIDE <3>2
      <4>. QED  BY <2>6, <4>1, <4>2
    <3>3. CASE Publish(w)
      <4>1. PICK s \in {At("conflict"), At("published"), At("leaving")} : Goes(w, s)
        BY <3>3 DEF Publish
      <4>. QED  BY <2>6, <3>3, <4>1 DEF Publish
    <3>4. CASE Schedule(w) \/ BillCycle(w) \/ Activate(w)
      BY <1>0, <2>3, <3>4 DEF Schedule, BillCycle, Activate, Goes, TypeOK
    <3>5. CASE RecordActivation(w) \/ Tell(w) \/ Complete(w) \/ Conflict(w)
      BY <1>0, <2>3, <3>5 DEF RecordActivation, Tell, Complete, Conflict, Goes, TypeOK
    <3>. QED  BY <2>8, <3>1, <3>2, <3>3, <3>4, <3>5 DEF Works
  <2>9. ASSUME NEW c \in Cancellers,
               Cancel(c) \/ ClaimToCancel(c) \/ DropRevision(c) \/ DropPayment(c)
        PROVE  Told'
    BY <1>0, <2>3, <2>9
       DEF Cancel, ClaimToCancel, DropRevision, DropPayment, Goes, TypeOK, Idle
  <2>10. ASSUME NEW a \in Actors, Leave(a) PROVE Told'
    BY <1>0, <2>3, <2>10 DEF Leave, Goes, TypeOK
  <2>4. ASSUME NEW c \in Cancellers, Cancelled(c) PROVE Told'
    BY <1>0, <2>4 DEF Cancelled, Status, Told, Requests
  <2>5. CASE Lapse \/ Operators \/ PaymentSettles \/ Tick \/ UNCHANGED vars
    BY <2>1, <2>5 DEF Lapse, Operators, OperatorPublishes, OperatorCancels, Terminate,
                      PaymentSettles, BillingOnly, Tick, vars
  <2>. QED
    BY <1>1, <2>4, <2>5, <2>7, <2>8, <2>9, <2>10 DEF Next, Cancels
<1>. QED  BY <1>2, <1>3 DEF Told

LEMMA UndisturbedInit == Init => Refers /\ Undisturbed
<1>. SUFFICES ASSUME Init PROVE Refers /\ Undisturbed  OBVIOUS
<1>1. Changed = {}  BY DEF Init, Changed
<1>. QED  BY <1>1 DEF Init, Refers, RefersTo, Undisturbed, Undone, Idle

LEMMA UndisturbedStep ==
    ASSUME IInv, Refers, Undisturbed, [Next]_vars PROVE Undisturbed'
<1>. SUFFICES ASSUME Quiet' PROVE ~lapsed' /\ (Undone' => Told')  BY DEF Undisturbed
<1>1. Quiet /\ moves' = moves /\ faults' = faults /\ (~lapsed => ~lapsed')  BY QuietBefore
<1>2. ~lapsed /\ (Undone => Told)  BY <1>1 DEF Undisturbed
<1>. QED  BY <1>1, <1>2, UndoneByCancel, ToldStays

\* The finding CompletedStands needs somebody else: as long as no operator
\* publishes, cancels or terminates and no call, process or claim fails, a
\* downgrade that counts as completed stands, however the days, the timers and
\* the customer's cancellations interleave.
THEOREM StandsUnlessDisturbed == Spec => []StandsUndisturbed
<1>1. Init => IInv /\ Refers /\ Undisturbed  BY InitIInv, UndisturbedInit
<1>2. IInv /\ Refers /\ Undisturbed /\ [Next]_vars => (IInv /\ Refers /\ Undisturbed)'
  BY NextKeeps, RefersKept, UndisturbedStep
<1>3. IInv /\ Refers /\ Undisturbed => StandsUndisturbed
  <2>. SUFFICES ASSUME IInv, Refers, Undisturbed, moves = 0, faults = 0, kind = "downgrade",
                       request.status = "completed", revisions[request.revision].cancelled
                PROVE  FALSE
    BY DEF StandsUndisturbed, CompletedStands
  <2>1. request.revision \in Changed  BY DEF Refers
  <2>2. ~lapsed /\ Told  BY <2>1 DEF Undisturbed, Quiet, Undone
  <2>3. PICK a \in Actors : actor[a].pc = "dropped"  BY <2>2 DEF Told
  <2>. QED  BY <2>2, <2>3 DEF IInv, Alone, Inside
<1>. QED  BY <1>1, <1>2, <1>3, PTL DEF Spec

-------------------------------------------------------------------------------
\* The refinement of PlanDeal.  What the mapping shows of the revisions:
LEMMA ConditionsOf ==
    /\ Conditions \in {"none", "published", "delivered"}
    /\ Conditions = "none" <=> Changed = {}
    /\ Conditions = "delivered" <=> Published
BY DEF Conditions, Published

\* and of the request.
LEMMA ShownOf ==
    ASSUME request.status \in Statuses
    PROVE  /\ Shown \in {"none", "open", "active", "done", "review", "cancelled"}
           /\ Shown = "none" <=> request.status = "none"
           /\ Shown = "active" <=> request.status = "activated"
           /\ Shown = "done" <=> request.status = "completed"
           /\ Shown = "cancelled" <=> request.status = "cancelled"
BY DEF Shown, Statuses, Open

LEMMA DealInit == Init => Deal!Init
<1>. SUFFICES ASSUME Init PROVE Deal!Init  OBVIOUS
<1>1. Changed = {}  BY DEF Init, Changed
<1>. QED  BY <1>1 DEF Init, Deal!Init, Conditions, Shown

\* Revisions that keep their keys and their confirmation keep the conditions.
LEMMA ConditionsKept ==
    ASSUME Changed' = Changed, \A i \in Changed : revisions'[i].synced = revisions[i].synced
    PROVE  Conditions' = Conditions
BY DEF Conditions

\* Nothing of what the deal is about changes.
LEMMA NoDeal ==
    ASSUME kind' = kind, billing'.payment = billing.payment, Conditions' = Conditions,
           request'.status = request.status, lapsed' = lapsed
    PROVE  [Deal!Next]_(Deal!vars)
<1>1. Shown' = Shown  BY DEF Shown
<1>. QED  BY <1>1 DEF Deal!vars

\* Whoever works on the row finds it neither completed nor cancelled, unless it
\* is about to leave or a claim has lapsed.
LEMMA NotTheLastWord ==
    ASSUME IInv, NEW a \in Actors, Inside(a), actor[a].pc # "leaving"
    PROVE  /\ request.status # "none"
           /\ request.status \in {"completed", "cancelled"} => lapsed
BY DEF IInv, Knowledge, Learnt, Alone, Inside

\* A status that is warranted is told.
LEMMA TellMaps ==
    ASSUME IInv, NEW a \in Actors, Inside(a), actor[a].pc # "leaving",
           request'.status \in Statuses \ {"none"}, Warranted(request'.status),
           UNCHANGED <<kind, revisions, billing, lapsed>>
    PROVE  [Deal!Next]_(Deal!vars)
<1>1. /\ request.status # "none" /\ request.status \in Statuses
      /\ request.status \in {"completed", "cancelled"} => lapsed
  BY NotTheLastWord DEF IInv, TypeOK
<1>2. Conditions' = Conditions  BY DEF Conditions, Changed
<1>3. /\ Shown # "none"
      /\ Shown \in {"done", "cancelled"} => lapsed
  BY <1>1, ShownOf
<1>4. /\ Shown' \in {"open", "active", "done", "review", "cancelled"}
      /\ Shown' \in {"active", "done"} <=> request'.status \in {"activated", "completed"}
      /\ Shown' = "cancelled" <=> request'.status = "cancelled"
  BY DEF Shown, Statuses, Open
<1>5. /\ Shown' \in {"active", "done"} =>
             Conditions = "delivered" /\ (kind # "downgrade" => billing.payment = "activated")
      /\ Shown' = "cancelled" /\ kind # "downgrade" => billing.payment = "cancelled"
  BY <1>4, ConditionsOf DEF Warranted
<1>6. Deal!Tell  BY <1>2, <1>3, <1>4, <1>5 DEF Deal!Tell
<1>. QED  BY <1>6 DEF Deal!Next

\* A request is recorded.
LEMMA StartMaps == ASSUME IInv, NEW w \in Workers, Start(w) PROVE [Deal!Next]_(Deal!vars)
<1>1. UNCHANGED <<kind, revisions, billing, lapsed>>  BY DEF Start, RequestOnly
<1>2. Conditions' = Conditions  BY <1>1 DEF Conditions, Changed
<1>3. CASE ~MayStart  BY <1>1, <1>2, <1>3, NoDeal DEF Start
<1>4. CASE MayStart
  <2>1. request.status = "none" /\ request'.status = "requested"
    BY <1>4 DEF Start, MayStart
  <2>2. Shown = "none" /\ Shown' = "open"  BY <2>1 DEF Shown
  <2>3. Deal!Open  BY <1>1, <1>2, <2>2 DEF Deal!Open
  <2>. QED  BY <2>3 DEF Deal!Next
<1>. QED  BY <1>3, <1>4

\* What Billing is asked for, whether or not its answer comes back.
LEMMA BillingMaps ==
    ASSUME IInv, NEW a \in Actors, Inside(a),
           UNCHANGED <<kind, request, revisions, lapsed>>,
           \/ billing' = billing
           \/ billing' = Asked(billing) /\ actor[a].pc = "asking"
           \/ billing' = Activated(billing) /\ actor[a].pc = "published"
           \/ GivesUp(billing) /\ billing' = [billing EXCEPT !.payment = "cancelled"]
    PROVE  [Deal!Next]_(Deal!vars)
<1>1. billing \in [payment : Payments, paidAt : Days, next : Days]  BY DEF IInv, TypeOK
<1>2. Conditions' = Conditions /\ Shown' = Shown  BY DEF Conditions, Changed, Shown
<1>3. CASE billing'.payment = billing.payment  BY <1>2, <1>3, NoDeal
<1>4. CASE billing' = Asked(billing) /\ actor[a].pc = "asking" /\ billing.payment = "none"
  <2>1. kind # "downgrade" /\ request.status # "none"
    BY <1>4 DEF IInv, Knowledge, Learnt
  <2>2. Shown # "none"  BY <2>1, ShownOf DEF IInv, TypeOK
  <2>3. billing'.payment = "awaiting_payment"  BY <1>1, <1>4 DEF Asked
  <2>4. Deal!Invoice  BY <1>2, <1>4, <2>1, <2>2, <2>3 DEF Deal!Invoice
  <2>. QED  BY <2>4 DEF Deal!Next
<1>5. CASE billing' = Activated(billing) /\ actor[a].pc = "published" /\ billing.payment = "paid"
  <2>1. Conditions = "delivered"  BY <1>5, ConditionsOf DEF IInv, Knowledge, Learnt
  <2>2. billing'.payment = "activated"  BY <1>1, <1>5 DEF Activated
  <2>3. Deal!Use  BY <1>2, <1>5, <2>1, <2>2 DEF Deal!Use
  <2>. QED  BY <2>3 DEF Deal!Next
<1>6. CASE /\ GivesUp(billing) /\ billing' = [billing EXCEPT !.payment = "cancelled"]
           /\ billing.payment # "cancelled"
  <2>1. billing'.payment = "cancelled"  BY <1>1, <1>6
  <2>2. billing.payment \in {"awaiting_payment", "expired"}  BY <1>6 DEF GivesUp
  <2>3. Deal!GiveUp  BY <1>2, <2>1, <2>2 DEF Deal!GiveUp
  <2>. QED  BY <2>3 DEF Deal!Next
<1>. QED  BY <1>1, <1>3, <1>4, <1>5, <1>6 DEF Asked, Activated

\* A revision is published, or published again, and perhaps confirmed.
LEMMA PublishMaps == ASSUME IInv, NEW w \in Workers, Publish(w) PROVE [Deal!Next]_(Deal!vars)
<1>0. /\ TypeOK /\ w \in Actors /\ Learnt(w) /\ actor[w].pc = "publishing"
      /\ UNCHANGED <<kind, request, billing, lapsed>>
  BY DEF IInv, Knowledge, Actors, Publish
<1>1. Shown' = Shown  BY <1>0 DEF Shown
<1>2. CASE revisions' = revisions
  <2>1. Conditions' = Conditions  BY <1>2 DEF Conditions, Changed
  <2>. QED  BY <1>0, <2>1, NoDeal
<1>3. CASE Changed = {} /\ MayPublish(actor[w].at)
  <2> DEFINE d == actor[w].at
             new == [key |-> "change", at |-> d, made |-> now,
                     cancelled |-> FALSE, synced |-> FALSE]
  <2>1. PICK rev \in Delivered(new) : revisions' = Append(revisions, rev)
    BY <1>3 DEF Publish
  <2>2. rev \in Revisions /\ rev.key = "change"
    <3>1. new \in Revisions /\ new.key = "change" /\ new.cancelled = FALSE
      <4>1. d \in Days /\ now \in Days  BY <1>0, Carries, PlanAssumption DEF TypeOK, Days
      <4> HIDE DEF d
      <4>. QED  BY <4>1 DEF Revisions, Keys
    <3>2. rev = new \/ rev = [new EXCEPT !.synced = TRUE]  BY <2>1, <3>1 DEF Delivered
    <3> HIDE DEF new
    <3>. QED  BY <3>1, <3>2 DEF Revisions
  <2>3. Changed' # {}  BY <1>0, <2>1, <2>2, Appending
  <2>4. Conditions = "none" /\ Conditions' \in {"published", "delivered"}
    BY <1>3, <2>3 DEF Conditions
  <2>5. kind # "downgrade" => billing.payment \in {"paid", "activated"}
    BY <1>0 DEF Learnt, PaidFor
  <2>6. Shown # "none"  BY <1>0, ShownOf DEF Learnt, TypeOK
  <2>7. Deal!Publish  BY <1>0, <1>1, <2>4, <2>5, <2>6 DEF Deal!Publish
  <2>. QED  BY <2>7 DEF Deal!Next
<1>4. CASE Changed # {} /\ MayPublish(actor[w].at)
  <2>1. PICK rev \in Delivered(revisions[Max(Changed)]) :
          revisions' = [revisions EXCEPT ![Max(Changed)] = rev]
    BY <1>4 DEF Publish
  <2> DEFINE m == Max(Changed)
             old == revisions[m]
  <2>2. m \in DOMAIN revisions /\ Changed = {m} /\ old \in Revisions
    BY <1>0, <1>4, TheChange, RevisionsAreSeq DEF IInv
  <2>3. rev \in Revisions /\ rev.key = old.key /\ (old.synced => rev.synced)
    <3> DEFINE sy == ~old.cancelled \/ old.synced
    <3>1. rev = old \/ rev = [old EXCEPT !.synced = sy]  BY <2>1 DEF Delivered
    <3>2. sy \in BOOLEAN /\ (old.synced => sy)  OBVIOUS
    <3> HIDE DEF sy, old
    <3>. QED  BY <2>2, <3>1, <3>2 DEF Revisions
  <2>4. /\ Changed' = {m} /\ revisions'[m] = rev
    BY <1>0, <2>1, <2>2, <2>3, Replacing
  <2>5. CASE rev.synced = old.synced
    <3>1. Conditions' = Conditions  BY <2>2, <2>4, <2>5, ConditionsKept
    <3>. QED  BY <1>0, <3>1, NoDeal
  <2>6. CASE ~ old.synced /\ rev.synced
    <3>1. Conditions = "published" /\ Conditions' = "delivered"
      BY <2>2, <2>4, <2>6 DEF Conditions
    <3>2. Deal!Deliver  BY <1>0, <1>1, <3>1 DEF Deal!Deliver
    <3>. QED  BY <3>2 DEF Deal!Next
  <2>7. old.synced \in BOOLEAN /\ rev.synced \in BOOLEAN  BY <2>2, <2>3 DEF Revisions
  <2>. QED  BY <2>3, <2>5, <2>6, <2>7
<1>. QED  BY <1>2, <1>3, <1>4 DEF Publish

\* Cancelled or added by others, revisions keep the conditions of the change.
LEMMA OthersMap ==
    ASSUME IInv, NEW i \in DOMAIN revisions,
           revisions' = [revisions EXCEPT ![i].cancelled = TRUE]
    PROVE  Conditions' = Conditions
<1> DEFINE rev == [revisions[i] EXCEPT !.cancelled = TRUE]
<1>1. rev \in Revisions /\ rev.key = revisions[i].key /\ rev.synced = revisions[i].synced
  BY RevisionsAreSeq DEF IInv, Revisions
<1>2. revisions' = [revisions EXCEPT ![i] = rev]  OBVIOUS
<1> HIDE DEF rev
<1>3. /\ Changed' = Changed
      /\ \A j \in DOMAIN revisions : revisions'[j] = IF j = i THEN rev ELSE revisions[j]
  BY <1>1, <1>2, Replacing DEF IInv
<1>. QED  BY <1>1, <1>3, ConditionsKept DEF Changed

\* A step of who works on the row.
LEMMA WorksMap == ASSUME IInv, NEW w \in Workers, Works(w) PROVE [Deal!Next]_(Deal!vars)
<1>0. /\ TypeOK /\ w \in Actors /\ Learnt(w) /\ Warranted(request.status)
      /\ request \in Requests /\ request.status # "none" /\ Inside(w)
      /\ actor[w].pc # "leaving"
  <2>1. TypeOK /\ w \in Actors /\ Learnt(w)  BY DEF IInv, Knowledge, Actors
  <2>2. actor[w].pc \notin {"idle", "quoted", "cancelling", "leaving"}
    BY DEF Works, CheckTermination, Ask, Answered, Check, Publish, Schedule, BillCycle, Activate,
           RecordActivation, Tell, Complete, Conflict
  <2>. QED  BY <2>1, <2>2, AsItIs, RevisionsAreSeq DEF Inside, Learnt
<1>1. CASE UNCHANGED <<kind, billing, revisions, request, lapsed>>
  <2>1. Conditions' = Conditions  BY <1>1 DEF Conditions, Changed
  <2>. QED  BY <1>1, <2>1, NoDeal
<1>2. CASE Check(w) \/ BillCycle(w) \/ Tell(w)
  BY <1>1, <1>2 DEF Check, BillCycle, Tell, ActorOnly, RequestOnly
<1>3. CASE Ask(w)
  <2>1. UNCHANGED <<kind, request, revisions, lapsed>>  BY <1>3 DEF Ask, BillingOnly
  <2>2. actor[w].pc = "asking" /\ billing' \in {billing, Asked(billing)}  BY <1>3 DEF Ask
  <2>. QED  BY <1>0, <2>1, <2>2, BillingMaps
<1>4. CASE Activate(w)
  <2>1. UNCHANGED <<kind, request, revisions, lapsed>>  BY <1>4 DEF Activate, BillingOnly
  <2>2. actor[w].pc = "published" /\ billing' = Activated(billing)  BY <1>4 DEF Activate
  <2>. QED  BY <1>0, <2>1, <2>2, BillingMaps
<1>5. CASE Publish(w)  BY <1>5, PublishMaps
<1>6. ASSUME request'.status \in Statuses \ {"none"}, Warranted(request'.status),
             UNCHANGED <<kind, revisions, billing, lapsed>>
      PROVE  [Deal!Next]_(Deal!vars)
  BY <1>0, <1>6, TellMaps
<1>7. CASE CheckTermination(w)
  <2>1. request'.status \in {request.status, "needs_review"}
    BY <1>0, <1>7 DEF CheckTermination, Requests
  <2>2. UNCHANGED <<kind, revisions, billing, lapsed>>
    BY <1>7 DEF CheckTermination, RequestOnly
  <2>. QED  BY <1>0, <1>6, <2>1, <2>2 DEF Warranted, Requests, Statuses
<1>8. CASE Answered(w)
  <2> DEFINE st == StatusOf(actor[w].status, actor[w].payment)
  <2>1. /\ st \in {"", "needs_review", "awaiting_payment", "cancelled"}
        /\ st = "cancelled" => actor[w].payment = "cancelled"
    BY DEF StatusOf
  <2>2. request' = IF st = "" THEN request ELSE [request EXCEPT !.status = st]
    BY <1>8 DEF Answered, Status
  <2>3. actor[w].pc = "answered"  BY <1>8 DEF Answered
  <2> HIDE DEF st
  <2>4. request'.status = IF st = "" THEN request.status ELSE st
    BY <1>0, <2>2 DEF Requests
  <2>5. Warranted(request'.status)  BY <1>0, <2>1, <2>3, <2>4 DEF Learnt, Warranted
  <2>6. request'.status \in Statuses \ {"none"}
    BY <1>0, <2>1, <2>4 DEF Requests, Statuses, Open
  <2>7. UNCHANGED <<kind, revisions, billing, lapsed>>  BY <1>8 DEF Answered, RequestOnly
  <2>. QED  BY <1>6, <2>5, <2>6, <2>7
<1>9. CASE Schedule(w)
  <2>1. request'.status = "scheduled"  BY <1>0, <1>9 DEF Schedule, Requests
  <2>2. UNCHANGED <<kind, revisions, billing, lapsed>>  BY <1>9 DEF Schedule, RequestOnly
  <2>. QED  BY <1>6, <2>1, <2>2 DEF Warranted, Statuses, Open
<1>10. CASE RecordActivation(w)
  <2>1. request'.status = "activated" /\ actor[w].pc = "acked"
    BY <1>0, <1>10 DEF RecordActivation, Requests
  <2>2. UNCHANGED <<kind, revisions, billing, lapsed>>  BY <1>10 DEF RecordActivation
  <2>3. Warranted(request'.status)  BY <1>0, <2>1 DEF Learnt, Warranted
  <2>. QED  BY <1>6, <2>1, <2>2, <2>3 DEF Statuses, Open
<1>11. CASE Complete(w)
  <2>1. request'.status \in {request.status, "completed"} /\ actor[w].pc = "completing"
    BY <1>0, <1>11 DEF Complete, Status, Requests
  <2>2. UNCHANGED <<kind, revisions, billing, lapsed>>  BY <1>11 DEF Complete
  <2>3. Warranted(request'.status)  BY <1>0, <2>1 DEF Learnt, Warranted
  <2>. QED  BY <1>0, <1>6, <2>1, <2>2, <2>3 DEF Requests, Statuses
<1>12. CASE Conflict(w)
  <2>1. request'.status \in {request.status, "needs_review"}
    BY <1>0, <1>12 DEF Conflict, Status, Requests
  <2>2. UNCHANGED <<kind, revisions, billing, lapsed>>  BY <1>12 DEF Conflict, RequestOnly
  <2>. QED  BY <1>0, <1>6, <2>1, <2>2 DEF Warranted, Requests, Statuses
<1>. QED
  BY <1>2, <1>3, <1>4, <1>5, <1>7, <1>8, <1>9, <1>10, <1>11, <1>12 DEF Works

\* A step of cancel().
LEMMA CancelsMap == ASSUME IInv, NEW c \in Cancellers, Cancels(c) PROVE [Deal!Next]_(Deal!vars)
<1>0. /\ TypeOK /\ c \in Actors /\ Learnt(c) /\ request \in Requests
      /\ Inside(c) /\ actor[c].pc \in {"dropping", "dropped"}
  BY RevisionsAreSeq
     DEF IInv, Knowledge, Actors, Cancels, DropRevision, DropPayment, Cancelled, Inside
<1>1. CASE DropRevision(c)
  <2> DEFINE r == actor[c].revision
             drops == r # 0 /\ (revisions[r].cancelled \/ revisions[r].at > now)
  <2>1. /\ revisions' = IF drops THEN [revisions EXCEPT ![r].cancelled = TRUE] ELSE revisions
        /\ UNCHANGED <<kind, request, billing, lapsed>> /\ actor[c].pc = "dropping"
    BY <1>1 DEF DropRevision
  <2>2. CASE ~drops
    <3>1. Conditions' = Conditions  BY <2>1, <2>2 DEF Conditions, Changed
    <3>. QED  BY <2>1, <3>1, NoDeal
  <2>3. CASE drops
    <3>1. r \in DOMAIN revisions
      BY <1>0, <2>1, <2>3, RevisionsAreSeq DEF Learnt
    <3>2. Conditions' = Conditions  BY <2>1, <2>3, <3>1, OthersMap
    <3>. QED  BY <2>1, <3>2, NoDeal
  <2>. QED  BY <2>2, <2>3
<1>2. CASE DropPayment(c)
  <2>1. UNCHANGED <<kind, request, revisions, lapsed>>  BY <1>2 DEF DropPayment, BillingOnly
  <2>2. \/ billing' = billing
        \/ GivesUp(billing) /\ billing' = [billing EXCEPT !.payment = "cancelled"]
    BY <1>2 DEF DropPayment
  <2>. QED  BY <1>0, <2>1, <2>2, BillingMaps
<1>3. CASE Cancelled(c)
  <2>1. request'.status = "cancelled" /\ actor[c].pc = "dropped"
    BY <1>0, <1>3 DEF Cancelled, Status, Requests
  <2>2. UNCHANGED <<kind, revisions, billing, lapsed>>  BY <1>3 DEF Cancelled, RequestOnly
  <2>3. Warranted(request'.status)  BY <1>0, <2>1 DEF Learnt, Warranted
  <2>. QED  BY <1>0, <2>1, <2>2, <2>3, TellMaps DEF Statuses
<1>. QED  BY <1>1, <1>2, <1>3 DEF Cancels

\* A revision of an operator is none of the change.
LEMMA OperatorsMap == ASSUME IInv, Operators PROVE [Deal!Next]_(Deal!vars)
<1>0. TypeOK  BY DEF IInv
<1>1. UNCHANGED <<kind, request, billing, lapsed>>
  BY DEF Operators, OperatorPublishes, OperatorCancels, Terminate
<1>2. ASSUME NEW at \in 0..(now + 1), OperatorPublishes(at) PROVE Conditions' = Conditions
  <2> DEFINE rev == [key |-> "operator", at |-> at, made |-> now, cancelled |-> FALSE, synced |-> TRUE]
  <2>1. rev \in Revisions /\ rev.key = "operator"
    BY <1>0, PlanAssumption DEF Revisions, Keys, TypeOK, Days
  <2>2. revisions' = Append(revisions, rev)  BY <1>2 DEF OperatorPublishes
  <2> HIDE DEF rev
  <2>3. /\ Changed' = Changed
        /\ \A i \in DOMAIN revisions : revisions'[i] = revisions[i]
    BY <1>0, <2>1, <2>2, Appending
  <2>. QED  BY <2>3, ConditionsKept DEF Changed
<1>3. ASSUME NEW i \in DOMAIN revisions, OperatorCancels(i) PROVE Conditions' = Conditions
  BY <1>3, OthersMap DEF OperatorCancels
<1>4. Terminate => Conditions' = Conditions  BY DEF Terminate, Conditions, Changed
<1>. QED  BY <1>1, <1>2, <1>3, <1>4, NoDeal DEF Operators

\* Every step maps to a step of PlanDeal or to a stutter.
LEMMA DealStep == IInv /\ [Next]_vars => [Deal!Next]_(Deal!vars)
<1>. SUFFICES ASSUME IInv, [Next]_vars PROVE [Deal!Next]_(Deal!vars)  OBVIOUS
<1>0. request \in Requests  BY RevisionsAreSeq DEF IInv
<1>1. CASE UNCHANGED <<kind, billing, revisions, lapsed>> /\ request'.status = request.status
  <2>1. Conditions' = Conditions  BY <1>1 DEF Conditions, Changed
  <2>. QED  BY <1>1, <2>1, NoDeal
<1>2. ASSUME NEW w \in Workers, Quote(w) \/ Claim(w) PROVE [Deal!Next]_(Deal!vars)
  BY <1>0, <1>1, <1>2 DEF Quote, Claim, ActorOnly, RequestOnly, Requests
<1>3. ASSUME NEW c \in Cancellers, Cancel(c) \/ ClaimToCancel(c) PROVE [Deal!Next]_(Deal!vars)
  BY <1>0, <1>1, <1>3 DEF Cancel, ClaimToCancel, ActorOnly, RequestOnly, Requests
<1>4. ASSUME NEW a \in Actors, Leave(a) \/ Crash(a) PROVE [Deal!Next]_(Deal!vars)
  BY <1>0, <1>1, <1>4 DEF Leave, Crash, RequestOnly, Requests
<1>5. ASSUME NEW a \in Actors, CallFails(a) PROVE [Deal!Next]_(Deal!vars)
  <2>1. UNCHANGED <<kind, request, revisions, lapsed>> /\ Inside(a)
    BY <1>5 DEF CallFails, Calls, Inside
  <2>2. \/ billing' = billing
        \/ billing' = Asked(billing) /\ actor[a].pc = "asking"
        \/ billing' = Activated(billing) /\ actor[a].pc = "published"
        \/ GivesUp(billing) /\ billing' = [billing EXCEPT !.payment = "cancelled"]
    BY <1>5 DEF CallFails
  <2>. QED  BY <2>1, <2>2, BillingMaps
<1>6. CASE Lapse
  <2>1. /\ UNCHANGED <<kind, billing, revisions>> /\ request'.status = request.status
        /\ lapsed' \in {lapsed, TRUE}
    BY <1>0, <1>6 DEF Lapse, Requests, IInv, TypeOK
  <2>2. CASE lapsed' = lapsed  BY <1>1, <2>1, <2>2
  <2>3. CASE lapsed' = TRUE
    <3>1. Conditions' = Conditions /\ Shown' = Shown  BY <2>1 DEF Conditions, Changed, Shown
    <3>2. Deal!Contest  BY <2>1, <2>3, <3>1 DEF Deal!Contest
    <3>. QED  BY <3>2 DEF Deal!Next
  <2>. QED  BY <2>1, <2>2, <2>3
<1>7. CASE PaymentSettles
  <2>1. /\ billing.payment = "awaiting_payment" /\ billing'.payment \in {"paid", "expired"}
        /\ UNCHANGED <<kind, request, revisions, lapsed>>
    BY <1>7 DEF PaymentSettles, BillingOnly, IInv, TypeOK
  <2>2. Conditions' = Conditions /\ Shown' = Shown  BY <2>1 DEF Conditions, Changed, Shown
  <2>3. Deal!Settle  BY <2>1, <2>2 DEF Deal!Settle
  <2>. QED  BY <2>3 DEF Deal!Next
<1>8. CASE Tick  BY <1>1, <1>8 DEF Tick
<1>9. CASE UNCHANGED vars  BY <1>1, <1>9 DEF vars
<1>. QED
  BY <1>2, <1>3, <1>4, <1>5, <1>6, <1>7, <1>8, <1>9, StartMaps, WorksMap, CancelsMap,
     OperatorsMap DEF Next

\* Whatever processes, lapsed claims, failed calls, crashes and operators do
\* keeps the deal: no upgrade without its money, no money without the upgrade,
\* and the last word is kept until a claim lapses under a process that goes on.
THEOREM DealKept == Spec => ImplementsDeal
BY DealInit, DealStep, Invariant, PTL DEF Spec, ImplementsDeal, Deal!Spec
===============================================================================
