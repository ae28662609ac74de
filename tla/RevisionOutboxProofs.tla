------------------------- MODULE RevisionOutboxProofs -------------------------
(***************************************************************************)
(* Theorems about RevisionOutbox for every number of revisions, timers,    *)
(* handlers and faults, with their proofs.                                 *)
(*                                                                         *)
(* IInv is inductive.  Besides the types it says what an actor knows at    *)
(* each of its steps (Knowledge), what the rows and Billing's ledger have  *)
(* to do with each other (Agreement), that claims identify their holders   *)
(* (Claims), and that attempts are accounted for (Accounts).               *)
(***************************************************************************)
EXTENDS RevisionOutbox, TLAPS

\* An actor under way is working on a saved revision; one that drops a
\* cancellation works on a pending one, alone; one that was answered has seen
\* what Billing did.
Knowledge ==
    /\ \A a \in Actors : actor[a].pc # "idle" => actor[a].rev \in 1..created
    /\ \A a \in Actors : actor[a].pc = "acked" => ledger[actor[a].rev] # "unknown"
    /\ \A a \in Actors : actor[a].pc \in {"dropping", "dropped", "refused"}
                            => canc[actor[a].rev] = "pending"
    /\ \A a \in Actors : actor[a].pc = "dropped" => ledger[actor[a].rev] = "cancelled"
    /\ OneDropper

\* Billing holds only saved revisions and drops only cancelled ones; what was
\* abandoned on the way is about saved, or cancelled, revisions.
Agreement ==
    /\ \A r \in Revisions : r > created => rev[r] = BlankRow /\ canc[r] = "none"
    /\ \A r \in Revisions : ledger[r] # "unknown" => r <= created
    /\ \A r \in Revisions : ledger[r] = "cancelled" => canc[r] # "none"
    /\ \A r \in Revisions : canc[r] # "none" => rev[r].cancelled
    /\ \A request \in wire : /\ request[2] <= created
                             /\ request[1] = "cancel" => canc[request[2]] # "none"
    /\ \A r \in Revisions : rev[r].status = "synced" => ledger[r] # "unknown"
    /\ SettledIsDropped

\* The queue holds pending cancellations, each once.
Queued ==
    /\ \A i \in 1..Len(queue) : canc[queue[i]] = "pending"
    /\ \A i, j \in 1..Len(queue) : queue[i] = queue[j] => i = j

\* Tokens were issued by past claims of the row, to one actor each.
Claims ==
    /\ \A r \in Revisions : rev[r].claim <= rev[r].attempts
    /\ \A r \in Revisions : rev[r].lease = "live" => rev[r].claim > 0
    /\ \A a \in Actors : actor[a].pc \in {"post", "acked", "errored"} =>
           actor[a].token \in 1..rev[actor[a].rev].attempts
    /\ \A a, b \in Actors :
           /\ actor[a].pc \in {"post", "acked", "errored"}
           /\ actor[b].pc \in {"post", "acked", "errored"}
           /\ actor[a].rev = actor[b].rev
           /\ actor[a].token = actor[b].token
           => a = b

\* A pending row whose claims outnumber the faults is being delivered right
\* now, under a live lease, by an actor that has not met a fault.
Delivering(r) == /\ rev[r].lease = "live"
                 /\ \E a \in Actors : Holds(a, r) /\ actor[a].pc \in {"post", "acked"}

Accounts ==
    /\ AttemptsPaidFor
    /\ \A r \in Revisions : rev[r].attempts = faults + 1 /\ rev[r].status = "pending"
                               => Delivering(r)

IInv == TypeOK /\ Knowledge /\ Agreement /\ Queued /\ Claims /\ Accounts

-------------------------------------------------------------------------------
\* Removing a revision from the queue leaves a sequence of its other entries.
LEMMA WithoutIsQueue ==
    ASSUME NEW S, NEW q \in Seq(S), NEW r
    PROVE  /\ Without(q, r) \in Seq(S)
           /\ \A i \in 1..Len(Without(q, r)) :
                 \E j \in 1..Len(q) : Without(q, r)[i] = q[j]
           /\ (\A i, j \in 1..Len(q) : q[i] = q[j] => i = j) =>
                 /\ \A i \in 1..Len(Without(q, r)) : Without(q, r)[i] # r
                 /\ \A i, j \in 1..Len(Without(q, r)) :
                       Without(q, r)[i] = Without(q, r)[j] => i = j
<1>1. CASE Places(q, r) = {}
  BY <1>1 DEF Without, Places
<1>2. CASE Places(q, r) # {}
  <2> DEFINE k == CHOOSE j \in Places(q, r) : TRUE
             w == [j \in 1..(Len(q) - 1) |-> IF j < k THEN q[j] ELSE q[j + 1]]
  <2>1. k \in 1..Len(q)  BY <1>2 DEF Places
  <2>2. Without(q, r) = w  BY <1>2 DEF Without
  <2>3. Len(q) \in Nat /\ q \in [1..Len(q) -> S]  OBVIOUS
  <2> HIDE DEF k
  <2>4. w \in Seq(S)  BY <2>1, <2>3
  <2>5. Len(w) = Len(q) - 1  BY <2>1, <2>3
  <2>6. ASSUME NEW i \in 1..(Len(q) - 1)
        PROVE  \E j \in 1..Len(q) : w[i] = q[j]
    <3>1. i \in 1..Len(q) /\ i + 1 \in 1..Len(q)  BY <2>3
    <3>2. w[i] = q[i] \/ w[i] = q[i + 1]  OBVIOUS
    <3>. QED  BY <3>1, <3>2
  <2>7. ASSUME \A i, j \in 1..Len(q) : q[i] = q[j] => i = j
        PROVE  /\ \A i \in 1..(Len(q) - 1) : w[i] # r
               /\ \A i, j \in 1..(Len(q) - 1) : w[i] = w[j] => i = j
    <3> DEFINE p(i) == IF i < k THEN i ELSE i + 1
    <3>1. q[k] = r  BY <1>2 DEF Places, k
    <3>2. \A i \in 1..(Len(q) - 1) : p(i) \in 1..Len(q) /\ p(i) # k /\ w[i] = q[p(i)]
      BY <2>1, <2>3
    <3>3. \A i, j \in 1..(Len(q) - 1) : p(i) = p(j) => i = j  BY <2>1, <2>3
    <3> HIDE DEF p, w
    <3>. QED  BY <2>1, <2>7, <3>1, <3>2, <3>3
  <2> HIDE DEF w
  <2>8. 1..Len(w) = 1..(Len(q) - 1)  BY <2>5
  <2>9. /\ \A i \in 1..Len(w) : \E j \in 1..Len(q) : w[i] = q[j]
        /\ (\A i, j \in 1..Len(q) : q[i] = q[j] => i = j) =>
               /\ \A i \in 1..Len(w) : w[i] # r
               /\ \A i, j \in 1..Len(w) : w[i] = w[j] => i = j
    BY <2>6, <2>7, <2>8, Zenon
  <2>. QED  BY <2>2, <2>4, <2>9, Zenon
<1>. QED  BY <1>1, <1>2

\* Appending a new revision keeps the entries distinct and in place.
LEMMA AppendIsQueue ==
    ASSUME NEW S, NEW q \in Seq(S), NEW r \in S
    PROVE  /\ Append(q, r) \in Seq(S)
           /\ \A i \in 1..Len(Append(q, r)) :
                 Append(q, r)[i] = r \/ \E j \in 1..Len(q) : Append(q, r)[i] = q[j]
           /\ (\A i, j \in 1..Len(q) : q[i] = q[j] => i = j)
              /\ (\A i \in 1..Len(q) : q[i] # r) =>
                 \A i, j \in 1..Len(Append(q, r)) :
                    Append(q, r)[i] = Append(q, r)[j] => i = j
<1> DEFINE w == Append(q, r)
<1>1. Len(q) \in Nat /\ w \in Seq(S) /\ Len(w) = Len(q) + 1  OBVIOUS
<1>2. w[Len(q) + 1] = r /\ \A i \in 1..Len(q) : w[i] = q[i]  OBVIOUS
<1>3. \A i \in 1..Len(w) : i \in 1..Len(q) \/ i = Len(q) + 1  BY <1>1
<1> HIDE DEF w
<1>4. \A i \in 1..Len(w) : w[i] = r \/ \E j \in 1..Len(q) : w[i] = q[j]
  BY <1>2, <1>3
<1>5. ASSUME \A i, j \in 1..Len(q) : q[i] = q[j] => i = j,
             \A i \in 1..Len(q) : q[i] # r,
             NEW i \in 1..Len(w), NEW j \in 1..Len(w), w[i] = w[j]
      PROVE  i = j
  <2>1. CASE i \in 1..Len(q) /\ j \in 1..Len(q)  BY <1>2, <1>5, <2>1
  <2>2. CASE i \in 1..Len(q) /\ j = Len(q) + 1  BY <1>2, <1>5, <2>2
  <2>3. CASE i = Len(q) + 1 /\ j \in 1..Len(q)  BY <1>2, <1>5, <2>3
  <2>. QED  BY <1>3, <2>1, <2>2, <2>3
<1>. QED  BY <1>1, <1>4, <1>5 DEF w

-------------------------------------------------------------------------------
\* The ways an actor moves keep its state well formed.
LEMMA MovesTyped ==
    ASSUME NEW a \in Actors, actor \in [Actors -> ActorStates], Batch \in Nat
    PROVE  /\ \A pc \in Steps : Goto(a, pc) => actor' \in [Actors -> ActorStates]
           /\ Finish(a) => actor' \in [Actors -> ActorStates]
           /\ \A pc \in Steps, r \in Revisions, t \in Nat :
                 (a \in Workers => actor[a].left > 0) /\ Start(a, pc, r, t)
                     => actor' \in [Actors -> ActorStates]
           /\ \A phase \in Phases, n \in 0..Batch :
                 EnterPhase(a, phase, n) => actor' \in [Actors -> ActorStates]
<1>1. actor[a] \in ActorStates  OBVIOUS
<1>2. ASSUME NEW pc \in Steps PROVE Goto(a, pc) => actor' \in [Actors -> ActorStates]
  BY <1>1 DEF Goto, ActorStates
<1>3. Finish(a) => actor' \in [Actors -> ActorStates]
  <2>1. [actor[a] EXCEPT !.pc = "idle", !.rev = 0, !.token = 0] \in ActorStates
    BY <1>1 DEF ActorStates, Steps
  <2>. QED  BY <2>1 DEF Finish
<1>4. ASSUME NEW pc \in Steps, NEW r \in Revisions, NEW t \in Nat,
             a \in Workers => actor[a].left > 0, Start(a, pc, r, t)
      PROVE  actor' \in [Actors -> ActorStates]
  <2>1. LeftAfter(a) \in 0..Batch  BY <1>1, <1>4 DEF ActorStates, LeftAfter
  <2>2. [actor[a] EXCEPT !.pc = pc, !.rev = r, !.token = t, !.left = LeftAfter(a)]
          \in ActorStates
    BY <1>1, <2>1 DEF ActorStates
  <2>. QED  BY <2>2, <1>4 DEF Start
<1>5. ASSUME NEW phase \in Phases, NEW n \in 0..Batch, EnterPhase(a, phase, n)
      PROVE  actor' \in [Actors -> ActorStates]
  BY <1>1, <1>5 DEF EnterPhase, ActorStates
<1>. QED  BY <1>2, <1>3, <1>4, <1>5

\* A change of one row, of any kind the actions make, keeps it a row.
LEMMA RowsTyped ==
    ASSUME NEW r \in Revisions, rev \in [Revisions -> Rows]
    PROVE  /\ rev[r] \in Rows
           /\ \A b \in BOOLEAN : [rev EXCEPT ![r].effective = b] \in [Revisions -> Rows]
           /\ [rev EXCEPT ![r].lease = "lapsed"] \in [Revisions -> Rows]
           /\ [rev EXCEPT ![r].due = TRUE] \in [Revisions -> Rows]
           /\ [rev EXCEPT ![r].cancelled = TRUE] \in [Revisions -> Rows]
           /\ Claimed(r) \in [Revisions -> Rows]
           /\ [rev EXCEPT ![r] = [@ EXCEPT !.status = "synced", !.claim = 0,
                                           !.lease = "none"]] \in [Revisions -> Rows]
           /\ [rev EXCEPT ![r] = [@ EXCEPT !.due = FALSE, !.claim = 0,
                                           !.lease = "none"]] \in [Revisions -> Rows]
<1>1. rev[r] \in Rows  OBVIOUS
<1>2. \A b \in BOOLEAN : [rev[r] EXCEPT !.effective = b] \in Rows  BY <1>1 DEF Rows
<1>3. [rev[r] EXCEPT !.lease = "lapsed"] \in Rows  BY <1>1 DEF Rows
<1>4. [rev[r] EXCEPT !.due = TRUE] \in Rows  BY <1>1 DEF Rows
<1>5. [rev[r] EXCEPT !.cancelled = TRUE] \in Rows  BY <1>1 DEF Rows
<1>6. [rev[r] EXCEPT !.claim = rev[r].attempts + 1, !.lease = "live",
                     !.attempts = rev[r].attempts + 1] \in Rows
  <2> DEFINE n == rev[r].attempts + 1
  <2>1. n \in Nat  BY <1>1 DEF Rows
  <2> HIDE DEF n
  <2>2. [rev[r] EXCEPT !.claim = n, !.lease = "live", !.attempts = n] \in Rows
    BY <1>1, <2>1 DEF Rows
  <2>. QED  BY <2>2 DEF n
<1>7. [rev[r] EXCEPT !.status = "synced", !.claim = 0, !.lease = "none"] \in Rows
  BY <1>1 DEF Rows
<1>8. [rev[r] EXCEPT !.due = FALSE, !.claim = 0, !.lease = "none"] \in Rows
  BY <1>1 DEF Rows
<1>9. Claimed(r) \in [Revisions -> Rows]  BY <1>6 DEF Claimed
<1>. QED  BY <1>1, <1>2, <1>3, <1>4, <1>5, <1>7, <1>8, <1>9

LEMMA LedgerTyped ==
    ASSUME NEW request \in Requests, TypeOK
    PROVE  LedgerAfter(request) \in [Revisions -> {"unknown", "open", "cancelled"}]
  BY DEF TypeOK, LedgerAfter, Requests

LEMMA InitTypeOK == Init => TypeOK
<1> SUFFICES ASSUME Init PROVE TypeOK  OBVIOUS
<1>1. BlankRow \in Rows  BY DEF BlankRow, Rows
<1>2. Resting \in ActorStates
  BY OutboxAssumption DEF Resting, ActorStates, Steps, Phases
<1>. QED  BY <1>1, <1>2, OutboxAssumption DEF Init, TypeOK, Revisions, Requests

\* What a move of a changes of any actor b: nothing unless b is a.
LEMMA MovePoints ==
    ASSUME TypeOK, NEW a \in Actors, NEW b \in Actors
    PROVE  /\ \A pc : Goto(a, pc) =>
                 /\ actor'[b].pc = IF b = a THEN pc ELSE actor[b].pc
                 /\ actor'[b].rev = actor[b].rev /\ actor'[b].token = actor[b].token
           /\ Finish(a) => IF b = a THEN actor'[b].pc = "idle" ELSE actor'[b] = actor[b]
           /\ \A pc, r, t : Start(a, pc, r, t) =>
                 IF b = a THEN /\ actor'[b].pc = pc /\ actor'[b].rev = r
                               /\ actor'[b].token = t
                          ELSE actor'[b] = actor[b]
           /\ \A phase, n : EnterPhase(a, phase, n) =>
                 /\ actor'[b].pc = actor[b].pc /\ actor'[b].rev = actor[b].rev
                 /\ actor'[b].token = actor[b].token
<1> actor[a] \in ActorStates /\ actor[b] \in ActorStates  BY DEF TypeOK
<1>1. ASSUME NEW pc, Goto(a, pc)
      PROVE  /\ actor'[b].pc = IF b = a THEN pc ELSE actor[b].pc
             /\ actor'[b].rev = actor[b].rev /\ actor'[b].token = actor[b].token
  BY <1>1 DEF Goto, TypeOK, ActorStates
<1>2. ASSUME Finish(a)
      PROVE  IF b = a THEN actor'[b].pc = "idle" ELSE actor'[b] = actor[b]
  BY <1>2 DEF Finish, TypeOK, ActorStates
<1>3. ASSUME NEW pc, NEW r, NEW t, Start(a, pc, r, t)
      PROVE  IF b = a THEN actor'[b].pc = pc /\ actor'[b].rev = r /\ actor'[b].token = t
                      ELSE actor'[b] = actor[b]
  BY <1>3 DEF Start, TypeOK, ActorStates
<1>4. ASSUME NEW phase, NEW n, EnterPhase(a, phase, n)
      PROVE  /\ actor'[b].pc = actor[b].pc /\ actor'[b].rev = actor[b].rev
             /\ actor'[b].token = actor[b].token
  BY <1>4 DEF EnterPhase, TypeOK, ActorStates
<1>. QED  BY <1>1, <1>2, <1>3, <1>4


\* Elementary consequences of the invariant, for the leaves below.
Facts ==
    /\ created \in Nat /\ created <= NumRevisions /\ NumRevisions \in Nat
    /\ faults \in Nat /\ MaxFaults \in Nat
    /\ \A r \in Revisions : r \in Nat /\ r <= NumRevisions /\ r > 0
    /\ \A r \in Nat : r > 0 /\ r <= created => r \in Revisions
    /\ \A a \in Actors : actor[a].pc # "idle" =>
          actor[a].rev \in Revisions /\ actor[a].rev <= created
    /\ \A r \in Revisions : /\ rev[r] \in Rows
                            /\ rev[r].attempts \in Nat /\ rev[r].claim \in Nat
    /\ \A a \in Actors : actor[a] \in ActorStates /\ actor[a].token \in Nat
    /\ \A request \in wire : request \in Requests /\ request[2] \in Revisions
    /\ \A i \in 1..Len(queue) : queue[i] \in Revisions

LEMMA Basics == IInv => Facts
<1> SUFFICES ASSUME IInv PROVE Facts  OBVIOUS
<1> USE OutboxAssumption DEF IInv, TypeOK, Revisions
<1>1. created \in Nat /\ created <= NumRevisions /\ faults \in Nat  OBVIOUS
<1>2. \A a \in Actors : actor[a].pc # "idle" =>
         actor[a].rev \in Revisions /\ actor[a].rev <= created
  BY DEF Knowledge
<1>3. \A r \in Revisions : /\ rev[r] \in Rows
                           /\ rev[r].attempts \in Nat /\ rev[r].claim \in Nat
  BY DEF Rows
<1>4. \A a \in Actors : actor[a] \in ActorStates /\ actor[a].token \in Nat
  BY DEF ActorStates
<1>5. \A request \in wire : request \in Requests /\ request[2] \in Revisions
  BY DEF Requests
<1>6. \A i \in 1..Len(queue) : queue[i] \in Revisions  OBVIOUS
<1>. QED  BY <1>1, <1>2, <1>3, <1>4, <1>5, <1>6 DEF Facts

\* When rows keep what counts and nobody stops delivering, accounts stand.
LEMMA AccountsKept ==
    ASSUME Accounts, faults' = faults,
           \A q \in Revisions : /\ rev'[q].attempts = rev[q].attempts
                                /\ rev'[q].status = rev[q].status
                                /\ rev'[q].claim = rev[q].claim
                                /\ rev'[q].lease = rev[q].lease,
           \A b \in Actors : actor[b].pc \in {"post", "acked"} => actor'[b] = actor[b]
    PROVE  Accounts'
<1>1. AttemptsPaidFor'  BY DEF Accounts, AttemptsPaidFor
<1>2. ASSUME NEW q \in Revisions, rev'[q].attempts = faults' + 1,
             rev'[q].status = "pending"
      PROVE  Delivering(q)'
  <2>1. Delivering(q)  BY <1>2 DEF Accounts
  <2>2. PICK b \in Actors : Holds(b, q) /\ actor[b].pc \in {"post", "acked"}
    BY <2>1 DEF Delivering
  <2>3. actor'[b] = actor[b]  BY <2>2
  <2>4. Holds(b, q)'  BY <2>2, <2>3 DEF Holds
  <2>. QED  BY <2>1, <2>2, <2>3, <2>4 DEF Delivering
<1>. QED  BY <1>1, <1>2 DEF Accounts

\* Actors that go on knowing what they knew, and drop only pending rows.
LEMMA KnowledgeKept ==
    ASSUME Knowledge, ledger' = ledger,
           \A b \in Actors : actor'[b].pc # "idle" => actor'[b].rev \in 1..created',
           \A b \in Actors : actor'[b].pc \in {"acked", "dropping", "dropped", "refused"}
                                => actor'[b].pc = actor[b].pc /\ actor'[b].rev = actor[b].rev,
           \A b \in Actors : actor'[b].pc \in {"dropping", "dropped", "refused"}
                                => canc'[actor'[b].rev] = "pending"
    PROVE  Knowledge'
<1>1. OneDropper'  BY DEF Knowledge, OneDropper
<1>2. \A b \in Actors : actor'[b].pc = "acked" => ledger'[actor'[b].rev] # "unknown"
  BY DEF Knowledge
<1>3. \A b \in Actors : actor'[b].pc = "dropped" => ledger'[actor'[b].rev] = "cancelled"
  BY DEF Knowledge
<1>. QED  BY <1>1, <1>2, <1>3 DEF Knowledge

\* Rows that keep what Billing may rely on, while nothing else changes.
LEMMA AgreementKept ==
    ASSUME Agreement, UNCHANGED <<created, canc, ledger, wire>>,
           \A q \in Revisions : /\ q > created => rev'[q] = rev[q]
                                /\ rev[q].cancelled => rev'[q].cancelled
                                /\ rev'[q].status = "synced" => ledger[q] # "unknown"
    PROVE  Agreement'
<1>1. \A r \in Revisions : r > created' => rev'[r] = BlankRow /\ canc'[r] = "none"
  BY DEF Agreement
<1>2. \A r \in Revisions : canc'[r] # "none" => rev'[r].cancelled  BY DEF Agreement
<1>3. \A r \in Revisions : rev'[r].status = "synced" => ledger'[r] # "unknown"
  OBVIOUS
<1>4. SettledIsDropped'  BY DEF Agreement, SettledIsDropped
<1>. QED  BY <1>1, <1>2, <1>3, <1>4 DEF Agreement

\* Claims and their holders as they were, or fewer of them.
LEMMA ClaimsKept ==
    ASSUME Claims,
           \A b \in Actors : actor[b].pc # "idle" => actor[b].rev \in Revisions,
           \A q \in Revisions : /\ rev'[q].attempts = rev[q].attempts
                                /\ rev'[q].claim = rev[q].claim
                                /\ rev'[q].lease = "live" => rev[q].lease = "live",
           \A b \in Actors : actor'[b].pc \in {"post", "acked", "errored"}
                                => actor'[b] = actor[b]
    PROVE  Claims'
<1>1. \A r \in Revisions : rev'[r].claim <= rev'[r].attempts  BY DEF Claims
<1>2. \A r \in Revisions : rev'[r].lease = "live" => rev'[r].claim > 0  BY DEF Claims
<1>3. ASSUME NEW b \in Actors, actor'[b].pc \in {"post", "acked", "errored"}
      PROVE  actor'[b].token \in 1..rev'[actor'[b].rev].attempts
  <2>1. actor'[b] = actor[b] /\ actor[b].rev \in Revisions  BY <1>3
  <2>2. actor[b].token \in 1..rev[actor[b].rev].attempts  BY <1>3, <2>1 DEF Claims
  <2>. QED  BY <2>1, <2>2
<1>4. ASSUME NEW b \in Actors, NEW c \in Actors,
             actor'[b].pc \in {"post", "acked", "errored"},
             actor'[c].pc \in {"post", "acked", "errored"},
             actor'[b].rev = actor'[c].rev, actor'[b].token = actor'[c].token
      PROVE  b = c
  <2>1. actor'[b] = actor[b] /\ actor'[c] = actor[c]  BY <1>4
  <2>. QED  BY <1>4, <2>1 DEF Claims
<1>. QED  BY <1>1, <1>2, <1>3, <1>4 DEF Claims

\* save() of a new revision.
LEMMA PublishStep ==
    ASSUME IInv, NEW a \in Actors, Publish(a)
    PROVE  IInv'
<1> DEFINE n == created + 1
<1>0. Facts  BY Basics
<1> USE <1>0 DEF IInv, Facts
<1>1. n \in Revisions /\ created' = n /\ n > created
  BY DEF Publish, Revisions
<1>2. UNCHANGED <<canc, queue, ledger, wire, faults>> /\ actor[a].pc = "idle"
  BY DEF Publish, FreeToCall
<1>3. PICK now \in BOOLEAN : rev' = [rev EXCEPT ![n].effective = now]
  BY DEF Publish
<1>4. rev' \in [Revisions -> Rows]
  BY <1>1, <1>3, RowsTyped DEF TypeOK
<1>5. actor' \in [Actors -> ActorStates]
  BY <1>1, MovesTyped, OutboxAssumption DEF Publish, FreeToCall, Steps, TypeOK
<1>6. TypeOK'
  BY <1>1, <1>2, <1>4, <1>5 DEF TypeOK, Revisions
<1>7. \A b \in Actors : IF b = a THEN actor'[b].pc = "claim" /\ actor'[b].rev = n
                                 ELSE actor'[b] = actor[b]
  BY MovePoints DEF Publish
<1>8. \A r \in Revisions : /\ r # n => rev'[r] = rev[r]
                           /\ rev'[r].cancelled = rev[r].cancelled
                           /\ rev'[r].status = rev[r].status
                           /\ rev'[r].attempts = rev[r].attempts
                           /\ rev'[r].claim = rev[r].claim
                           /\ rev'[r].lease = rev[r].lease
  BY <1>1, <1>3 DEF TypeOK, Rows
<1> HIDE DEF n
<1>9. Knowledge'
  <2>1. \A b \in Actors : actor'[b].pc # "idle" => actor'[b].rev \in 1..created'
    BY <1>1, <1>7 DEF Knowledge
  <2>2. \A b \in Actors : actor'[b].pc \in {"acked", "dropping", "dropped", "refused"}
                             => actor'[b] = actor[b]
    BY <1>7
  <2>. QED  BY <1>2, <2>1, <2>2 DEF Knowledge, OneDropper
<1>10. Agreement'
  BY <1>1, <1>2, <1>8 DEF Agreement, SettledIsDropped
<1>11. Claims'
  <2>1. \A b \in Actors : actor'[b].pc \in {"post", "acked", "errored"}
                             => actor'[b] = actor[b]
    BY <1>7
  <2>. QED  BY <1>8, <2>1, ClaimsKept
<1>12. Accounts'
  BY <1>2, <1>7, <1>8, AccountsKept
<1>13. Queued'  BY <1>2 DEF Queued
<1>. QED  BY <1>6, <1>9, <1>10, <1>11, <1>12, <1>13

\* A handler or a loop sets out to deliver something that is saved already,
\* or a timer goes from one loop to the next; only the actor moves.
LEMMA SetOutStep ==
    ASSUME IInv, NEW a \in Actors, actor[a].pc = "idle",
           UNCHANGED <<created, rev, canc, queue, ledger, wire, faults>>,
           actor' \in [Actors -> ActorStates],
           \A b \in Actors : b # a => actor'[b] = actor[b],
           \/ actor'[a].pc = "idle"
           \/ actor'[a].pc \in {"claim", "drop"} /\ actor'[a].rev \in 1..created
    PROVE  IInv'
<1>0. Facts  BY Basics
<1> USE <1>0 DEF IInv, Facts
<1>1. TypeOK'  BY DEF TypeOK
<1>2. Knowledge'
  <2>1. \A b \in Actors : actor'[b].pc # "idle" => actor'[b].rev \in 1..created'
    BY DEF Knowledge
  <2>2. \A b \in Actors : actor'[b].pc \in {"acked", "dropping", "dropped", "refused"}
                             => actor'[b] = actor[b]
    OBVIOUS
  <2>3. \A b \in Actors : actor'[b].pc \in {"dropping", "dropped", "refused"}
                             => canc'[actor'[b].rev] = "pending"
    BY <2>2 DEF Knowledge
  <2>. QED  BY <2>1, <2>2, <2>3, KnowledgeKept
<1>3. Agreement'  BY DEF Agreement, SettledIsDropped
<1>4. Claims'
  <2>1. \A b \in Actors : actor'[b].pc \in {"post", "acked", "errored"}
                             => actor'[b] = actor[b]
    OBVIOUS
  <2>. QED  BY <2>1, ClaimsKept
<1>5. Accounts'  BY AccountsKept
<1>6. Queued'  BY DEF Queued
<1>. QED  BY <1>1, <1>2, <1>3, <1>4, <1>5, <1>6

\* What happens to a row without its claim being taken or given up.
LEMMA ClockStep ==
    ASSUME IInv, NEW r \in Revisions, Clock(r)
    PROVE  IInv'
<1>0. Facts  BY Basics
<1> USE <1>0 DEF IInv, Facts
<1>1. CASE CancellationDue(r)
  <2>1. queue' = Append(queue, r) /\ \A i \in 1..Len(queue) : queue[i] # r
    BY <1>1 DEF CancellationDue, Places
  <2>2. UNCHANGED <<created, rev, canc, ledger, wire, actor, faults>> /\ canc[r] = "pending"
    BY <1>1 DEF CancellationDue
  <2>3. TypeOK'  BY <2>1, <2>2, AppendIsQueue DEF TypeOK
  <2>4. Knowledge' /\ Claims' /\ Accounts'
    BY <2>2 DEF Knowledge, OneDropper, Claims, Accounts, AttemptsPaidFor, Delivering, Holds
  <2>5. Queued'
    <3> HIDE DEF Facts
    <3>. QED  BY <2>1, <2>2, AppendIsQueue DEF Queued, TypeOK
  <2>6. Agreement'  BY <2>2 DEF Agreement, SettledIsDropped
  <2>. QED  BY <2>3, <2>4, <2>5, <2>6
<1>2. CASE ~CancellationDue(r)
  <2>1. UNCHANGED <<created, canc, queue, ledger, wire, actor>>
    BY <1>2 DEF Clock, TakesEffect, LeaseLapses, HolderStalls, RevisionDue
  <2>2. r <= created
    <3>1. CASE TakesEffect(r)  BY <3>1 DEF TakesEffect, Saved
    <3>2. CASE rev[r] # BlankRow  BY <3>2 DEF Agreement
    <3>. QED
      BY <1>2, <3>1, <3>2
      DEF Clock, LeaseLapses, HolderStalls, RevisionDue, Abandoned, BlankRow
  <2> DEFINE Kept(q) == /\ q # r => rev'[q] = rev[q]
                        /\ rev'[q].cancelled = rev[q].cancelled
                        /\ rev'[q].status = rev[q].status
                        /\ rev'[q].attempts = rev[q].attempts
                        /\ rev'[q].claim = rev[q].claim
                        /\ rev'[q].lease = "live" => rev[q].lease = "live"
             Lapsed(q) == rev'[q].lease # rev[q].lease => faults' > faults \/ Abandoned(q)
  <2>3. rev' \in [Revisions -> Rows]
    <3>1. CASE TakesEffect(r)   BY <3>1, RowsTyped DEF TakesEffect, TypeOK
    <3>2. CASE LeaseLapses(r)   BY <3>2, RowsTyped DEF LeaseLapses, TypeOK
    <3>3. CASE HolderStalls(r)  BY <3>3, RowsTyped DEF HolderStalls, TypeOK
    <3>4. CASE RevisionDue(r)   BY <3>4, RowsTyped DEF RevisionDue, TypeOK
    <3>. QED  BY <1>2, <3>1, <3>2, <3>3, <3>4 DEF Clock
  <2>4. faults' \in 0..MaxFaults /\ faults <= faults'
    BY <1>2 DEF Clock, TakesEffect, LeaseLapses, HolderStalls, RevisionDue, Fault, TypeOK
  <2>10. ASSUME NEW q \in Revisions PROVE Kept(q) /\ Lapsed(q)
    <3>0. rev \in [Revisions -> Rows]  BY DEF TypeOK
    <3>1. CASE TakesEffect(r)   BY <3>0, <3>1 DEF TakesEffect, Rows
    <3>2. CASE LeaseLapses(r)   BY <3>0, <3>2 DEF LeaseLapses, Rows
    <3>3. CASE HolderStalls(r)  BY <3>0, <3>3 DEF HolderStalls, Fault, Rows
    <3>4. CASE RevisionDue(r)   BY <3>0, <3>4 DEF RevisionDue, Rows
    <3>. QED  BY <1>2, <3>1, <3>2, <3>3, <3>4 DEF Clock
  <2>5. TypeOK'  BY <2>1, <2>3, <2>4 DEF TypeOK
  <2>6. Knowledge'  BY <2>1 DEF Knowledge, OneDropper
  <2>7. Agreement'
    <3>1. \A q \in Revisions : /\ q > created => rev'[q] = rev[q]
                               /\ rev[q].cancelled => rev'[q].cancelled
      BY <2>2, <2>10
    <3>2. \A q \in Revisions : rev'[q].status = "synced" => ledger[q] # "unknown"
      BY <2>10 DEF Agreement
    <3> HIDE DEF Facts
    <3>. QED  BY <2>1, <3>1, <3>2, AgreementKept
  <2>8. Claims'  BY <2>1, <2>10, ClaimsKept
  <2>9. Accounts'
    <3>1. AttemptsPaidFor'  BY <2>4, <2>10 DEF Accounts, AttemptsPaidFor
    <3>2. ASSUME NEW q \in Revisions, rev'[q].attempts = faults' + 1,
                 rev'[q].status = "pending"
          PROVE  Delivering(q)'
      <4>1. faults' = faults  BY <2>4, <2>10, <3>2 DEF Accounts, AttemptsPaidFor
      <4>2. Delivering(q)  BY <2>10, <3>2, <4>1 DEF Accounts
      <4>3. ~Abandoned(q)  BY <4>2 DEF Delivering, Abandoned
      <4>4. rev'[q].lease = "live"  BY <2>10, <4>1, <4>2, <4>3 DEF Delivering
      <4>. QED  BY <2>1, <2>10, <4>2, <4>4 DEF Delivering, Holds
    <3>. QED  BY <3>1, <3>2 DEF Accounts
  <2>11. Queued'  BY <2>1 DEF Queued
  <2>. QED  BY <2>5, <2>6, <2>7, <2>8, <2>9, <2>11
<1>. QED  BY <1>1, <1>2

\* A claim, by id or by a timer: the row was not under a live lease.
LEMMA ClaimStep ==
    ASSUME IInv, NEW a \in Actors, NEW r \in Revisions, Claimable(r),
           rev' = Claimed(r),
           UNCHANGED <<created, canc, queue, ledger, wire, faults>>,
           actor' \in [Actors -> ActorStates],
           actor[a].pc \in {"idle", "claim"},
           \A b \in Actors : b # a => actor'[b] = actor[b],
           actor'[a].pc = "post", actor'[a].rev = r,
           actor'[a].token = rev[r].attempts + 1
    PROVE  IInv'
<1>0. Facts  BY Basics
<1> USE <1>0 DEF IInv, Facts
<1>1. TypeOK'  BY RowsTyped DEF TypeOK
<1>2. /\ \A q \in Revisions : /\ q # r => rev'[q] = rev[q]
                              /\ rev'[q].cancelled = rev[q].cancelled
                              /\ rev'[q].status = rev[q].status
      /\ rev'[r].attempts = rev[r].attempts + 1
      /\ rev'[r].claim = rev[r].attempts + 1
      /\ rev'[r].lease = "live"
  BY DEF Claimed, TypeOK, Rows
<1>3. r <= created /\ rev[r].status = "pending" /\ rev[r].lease # "live"
  BY DEF Claimable, Saved
<1>4. Knowledge'
  <2>1. \A b \in Actors : actor'[b].pc # "idle" => actor'[b].rev \in 1..created'
    BY <1>3 DEF Knowledge
  <2>2. \A b \in Actors : actor'[b].pc \in {"acked", "dropping", "dropped", "refused"}
                             => actor'[b] = actor[b]
    OBVIOUS
  <2>. QED  BY <2>1, <2>2 DEF Knowledge, OneDropper
<1>5. Agreement'
  <2>1. \A q \in Revisions : /\ q > created => rev'[q] = rev[q]
                             /\ rev[q].cancelled => rev'[q].cancelled
    BY <1>2, <1>3
  <2>2. \A q \in Revisions : rev[q].status = "synced" => ledger[q] # "unknown"
    BY DEF Agreement
  <2>3. \A q \in Revisions : rev'[q].status = "synced" => ledger[q] # "unknown"
    BY <1>2, <2>2
  <2> HIDE DEF Facts
  <2>. QED  BY <2>1, <2>3, AgreementKept
<1>6. Claims'
  <2>1. \A b \in Actors : b # a /\ actor[b].pc \in {"post", "acked", "errored"}
                             => actor[b].token \in 1..rev[actor[b].rev].attempts
    BY DEF Claims
  <2>2. \A b \in Actors : actor'[b].pc \in {"post", "acked", "errored"}
                             => actor'[b].token \in 1..rev'[actor'[b].rev].attempts
    <3>1. \A q \in Revisions : rev[q].attempts <= rev'[q].attempts  BY <1>2
    <3>2. \A b \in Actors : b # a /\ actor'[b].pc \in {"post", "acked", "errored"}
                               => actor'[b].token \in 1..rev'[actor'[b].rev].attempts
      <4>1. ASSUME NEW b \in Actors, b # a, actor'[b].pc \in {"post", "acked", "errored"}
            PROVE  actor'[b].token \in 1..rev'[actor'[b].rev].attempts
        <5>1. actor'[b] = actor[b] /\ actor[b].rev \in Revisions  BY <4>1
        <5>2. actor[b].token \in 1..rev[actor[b].rev].attempts  BY <2>1, <4>1, <5>1
        <5>3. rev[actor[b].rev].attempts <= rev'[actor[b].rev].attempts  BY <3>1, <5>1
        <5>4. rev'[actor[b].rev].attempts \in Nat  BY <1>2, <5>1
        <5>. QED  BY <5>1, <5>2, <5>3, <5>4
      <4>. QED  BY <4>1
    <3>3. actor'[a].token \in 1..rev'[actor'[a].rev].attempts  BY <1>2
    <3>. QED  BY <3>2, <3>3
  <2>3. \A b, c \in Actors :
           /\ actor'[b].pc \in {"post", "acked", "errored"}
           /\ actor'[c].pc \in {"post", "acked", "errored"}
           /\ actor'[b].rev = actor'[c].rev /\ actor'[b].token = actor'[c].token
           => b = c
    <3>1. ASSUME NEW b \in Actors, b # a, actor'[b].pc \in {"post", "acked", "errored"},
                 actor'[b].rev = r
          PROVE  actor'[b].token # actor'[a].token
      <4>1. actor'[b] = actor[b]  BY <3>1
      <4>2. actor[b].token \in 1..rev[r].attempts /\ rev[r].attempts \in Nat
        BY <2>1, <3>1, <4>1
      <4> HIDE DEF Facts, IInv
      <4>. QED  BY <4>1, <4>2
    <3>. QED  BY <3>1 DEF Claims
  <2>4. \A q \in Revisions : /\ rev'[q].claim <= rev'[q].attempts
                             /\ rev'[q].lease = "live" => rev'[q].claim > 0
    BY <1>2 DEF Claims
  <2>. QED  BY <2>2, <2>3, <2>4 DEF Claims
<1>7. Accounts'
  <2>1. rev[r].attempts <= faults
    BY <1>3 DEF Accounts, AttemptsPaidFor, Delivering
  <2>2. AttemptsPaidFor'
    <3>1. \A q \in Revisions : rev'[q].attempts <= faults + 1
      BY <1>2, <2>1 DEF Accounts, AttemptsPaidFor
    <3>. QED  BY <3>1 DEF AttemptsPaidFor
  <2>3. ASSUME NEW q \in Revisions, rev'[q].attempts = faults' + 1,
               rev'[q].status = "pending"
        PROVE  Delivering(q)'
    <3>1. CASE q = r  BY <1>2, <3>1 DEF Delivering, Holds
    <3>2. CASE q # r
      <4>1. Delivering(q)  BY <1>2, <2>3, <3>2 DEF Accounts
      <4>2. PICK b \in Actors : Holds(b, q) /\ actor[b].pc \in {"post", "acked"}
        BY <4>1 DEF Delivering
      <4>3. b # a  BY <4>2
      <4>. QED  BY <1>2, <3>2, <4>1, <4>2, <4>3 DEF Delivering, Holds
    <3>. QED  BY <3>1, <3>2
  <2>. QED  BY <2>2, <2>3 DEF Accounts
<1>8. Queued'  BY DEF Queued
<1>. QED  BY <1>1, <1>4, <1>5, <1>6, <1>7, <1>8

\* An actor stops delivering a revision (complete, fail) or never had it (a
\* claim by id that found nothing); what it wrote is in `row`.
LEMMA ReleaseStep ==
    ASSUME IInv, NEW a \in Actors, Finish(a), NEW r \in Revisions, actor[a].rev = r,
           UNCHANGED <<created, canc, queue, ledger, wire, faults>>,
           rev' \in [Revisions -> Rows],
           \A q \in Revisions : q # r => rev'[q] = rev[q],
           rev'[r].attempts = rev[r].attempts,
           rev'[r].cancelled = rev[r].cancelled,
           rev'[r] # rev[r] => rev'[r].claim = 0 /\ rev'[r].lease = "none"
                               /\ r <= created,
           \/ rev'[r].status = rev[r].status
           \/ rev'[r].status = "synced" /\ ledger[r] # "unknown",
           rev'[r].status = "pending" => \/ rev'[r] = rev[r] /\ ~Holds(a, r)
                                         \/ Holds(a, r) /\ actor[a].pc = "errored"
                                         \/ actor[a].pc = "claim" /\ rev'[r] = rev[r]
    PROVE  IInv'
<1>0. Facts  BY Basics
<1> USE <1>0 DEF IInv, Facts
<1>1. actor' \in [Actors -> ActorStates]
  BY MovesTyped, OutboxAssumption DEF TypeOK
<1>2. \A b \in Actors : IF b = a THEN actor'[b].pc = "idle" ELSE actor'[b] = actor[b]
  BY MovePoints
<1>3. TypeOK'  BY <1>1 DEF TypeOK
<1>4. Knowledge'
  <2>1. \A b \in Actors : actor'[b].pc # "idle" => actor'[b] = actor[b]  BY <1>2
  <2>2. \A b \in Actors : actor'[b].pc # "idle" => actor'[b].rev \in 1..created'
    BY <2>1 DEF Knowledge
  <2>3. \A b \in Actors : actor'[b].pc \in {"acked", "dropping", "dropped", "refused"}
                             => actor'[b] = actor[b]
    BY <2>1
  <2>4. \A b \in Actors : actor'[b].pc \in {"dropping", "dropped", "refused"}
                             => canc'[actor'[b].rev] = "pending"
    BY <2>3 DEF Knowledge
  <2>. QED  BY <2>2, <2>3, <2>4, KnowledgeKept
<1>5. Agreement'
  <2>1. \A q \in Revisions : /\ q > created => rev'[q] = rev[q]
                             /\ rev[q].cancelled => rev'[q].cancelled
    OBVIOUS
  <2>2. \A q \in Revisions : rev'[q].status = "synced" => ledger[q] # "unknown"
    BY DEF Agreement
  <2> HIDE DEF Facts
  <2>. QED  BY <2>1, <2>2, AgreementKept
<1>6. Claims'
  <2>1. \A q \in Revisions : /\ rev'[q].claim <= rev'[q].attempts
                             /\ rev'[q].lease = "live" => rev'[q].claim > 0
    BY DEF Claims
  <2>2. \A q \in Revisions : rev'[q].attempts = rev[q].attempts  OBVIOUS
  <2>3. \A b \in Actors : actor'[b].pc # "idle" =>
           actor'[b] = actor[b] /\ rev'[actor[b].rev].attempts = rev[actor[b].rev].attempts
    BY <1>2, <2>2
  <2>4. \A b \in Actors : actor'[b].pc \in {"post", "acked", "errored"} =>
           actor'[b] = actor[b] /\ actor'[b].token \in 1..rev'[actor'[b].rev].attempts
    BY <2>3 DEF Claims
  <2>. QED  BY <2>1, <2>4 DEF Claims
<1>7. Accounts'
  <2>1. AttemptsPaidFor'  BY DEF Accounts, AttemptsPaidFor
  <2>2. ASSUME NEW q \in Revisions, rev'[q].attempts = faults' + 1,
               rev'[q].status = "pending"
        PROVE  Delivering(q)'
    <3>1. rev[q].status = "pending" /\ rev[q].attempts = faults + 1  BY <2>2
    <3>2. Delivering(q)  BY <3>1 DEF Accounts
    <3>3. PICK b \in Actors : Holds(b, q) /\ actor[b].pc \in {"post", "acked"}
      BY <3>2 DEF Delivering
    <3>4. b # a
      <4> SUFFICES ASSUME b = a PROVE FALSE  OBVIOUS
      <4>1. q = r  BY <3>3 DEF Holds
      <4>. QED  BY <2>2, <3>3, <4>1 DEF Holds
    <3>5. rev'[q] = rev[q]
      <4>1. CASE q # r  BY <4>1
      <4>2. CASE q = r
        <5>1. ~(Holds(a, r) /\ actor[a].pc = "errored")
          BY <3>3, <3>4, <4>2 DEF Holds, Claims
        <5>. QED  BY <2>2, <4>2, <5>1
      <4>. QED  BY <4>1, <4>2
    <3>. QED  BY <1>2, <3>2, <3>3, <3>4, <3>5 DEF Delivering, Holds
  <2>. QED  BY <2>1, <2>2 DEF Accounts
<1>8. Queued'  BY DEF Queued
<1>. QED  BY <1>3, <1>4, <1>5, <1>6, <1>7, <1>8

\* What Billing does of a request for r never loses what it held, and makes it
\* hold only what Control saved and drop only what Control cancelled.
LEMMA LedgerPoints ==
    ASSUME IInv, NEW request \in Requests, ledger' = LedgerAfter(request),
           request[2] <= created,
           request[1] = "cancel" => canc[request[2]] # "none"
    PROVE  /\ ledger' \in [Revisions -> {"unknown", "open", "cancelled"}]
           /\ \A q \in Revisions :
                /\ ledger[q] # "unknown" => ledger'[q] # "unknown"
                /\ ledger[q] = "cancelled" => ledger'[q] = "cancelled"
                /\ ledger'[q] # "unknown" => q <= created
                /\ ledger'[q] = "cancelled" => canc[q] # "none"
           /\ request[1] = "terms" => ledger'[request[2]] # "unknown"
           /\ request[1] = "cancel" /\ ledger[request[2]] # "unknown"
                => ledger'[request[2]] = "cancelled"
<1> DEFINE r == request[2]
<1>1. /\ ledger \in [Revisions -> {"unknown", "open", "cancelled"}]
      /\ \A q \in Revisions : /\ ledger[q] # "unknown" => q <= created
                              /\ ledger[q] = "cancelled" => canc[q] # "none"
  BY DEF IInv, TypeOK, Agreement
<1>2. r \in Revisions /\ request[1] \in {"terms", "cancel"}  BY DEF Requests
<1>3. CASE request[1] = "terms" /\ ledger[r] = "unknown"
  <2>1. ledger' = [ledger EXCEPT ![r] = "open"]  BY <1>3 DEF LedgerAfter
  <2>. QED  BY <1>1, <1>2, <1>3, <2>1
<1>4. CASE request[1] = "cancel" /\ ledger[r] # "unknown"
  <2>1. ledger' = [ledger EXCEPT ![r] = "cancelled"]  BY <1>4 DEF LedgerAfter
  <2>. QED  BY <1>1, <1>2, <1>4, <2>1
<1>5. CASE /\ ~(request[1] = "terms" /\ ledger[r] = "unknown")
           /\ ~(request[1] = "cancel" /\ ledger[r] # "unknown")
  <2>1. ledger' = ledger  BY <1>5 DEF LedgerAfter
  <2>. QED  BY <1>1, <1>2, <1>5, <2>1
<1>. QED  BY <1>3, <1>4, <1>5

\* A call is answered, fails, or is cut off by a crash; or an abandoned request
\* arrives.  Rows, cancellations and the queue do not change, and actors move
\* only as far as what they have seen allows.
LEMMA CallStep ==
    ASSUME IInv, UNCHANGED <<created, rev, canc, queue>>,
           actor' \in [Actors -> ActorStates],
           ledger' \in [Revisions -> {"unknown", "open", "cancelled"}],
           \A q \in Revisions :
                /\ ledger[q] # "unknown" => ledger'[q] # "unknown"
                /\ ledger[q] = "cancelled" => ledger'[q] = "cancelled"
                /\ ledger'[q] # "unknown" => q <= created
                /\ ledger'[q] = "cancelled" => canc[q] # "none",
           wire' \subseteq Requests,
           \A request \in wire' : /\ request[2] <= created
                                  /\ request[1] = "cancel" => canc[request[2]] # "none",
           faults' \in 0..MaxFaults, faults <= faults',
           \A b \in Actors :
                \/ actor'[b].pc = "idle" /\ faults < faults'
                \/ /\ actor'[b].rev = actor[b].rev /\ actor'[b].token = actor[b].token
                   /\ \/ actor'[b].pc = actor[b].pc
                      \/ /\ actor[b].pc = "post" /\ actor'[b].pc = "acked"
                         /\ ledger'[actor[b].rev] # "unknown"
                      \/ /\ actor[b].pc \in {"post", "acked"} /\ actor'[b].pc = "errored"
                         /\ faults < faults'
                      \/ /\ actor[b].pc = "dropping" /\ actor'[b].pc = "refused"
                      \/ /\ actor[b].pc = "dropping" /\ actor'[b].pc = "dropped"
                         /\ ledger'[actor[b].rev] = "cancelled"
    PROVE  IInv'
<1>0. Facts  BY Basics
<1> USE <1>0 DEF IInv, Facts
<1>1. TypeOK'  BY DEF TypeOK
<1>2. Knowledge'
  <2>1. ASSUME NEW b \in Actors
        PROVE  /\ actor'[b].pc # "idle" => actor'[b].rev \in 1..created
               /\ actor'[b].pc = "acked" => ledger'[actor'[b].rev] # "unknown"
               /\ actor'[b].pc = "dropped" => ledger'[actor'[b].rev] = "cancelled"
               /\ actor'[b].pc \in {"dropping", "dropped", "refused"} =>
                     /\ actor[b].pc \in {"dropping", "dropped", "refused"}
                     /\ actor'[b].rev = actor[b].rev
                     /\ canc[actor'[b].rev] = "pending"
    BY DEF Knowledge
  <2>. QED  BY <2>1 DEF Knowledge, OneDropper
<1>3. Agreement'  BY DEF Agreement, SettledIsDropped
<1>4. Claims'
  <2>1. ASSUME NEW b \in Actors, actor'[b].pc \in {"post", "acked", "errored"}
        PROVE  /\ actor[b].pc \in {"post", "acked", "errored"}
               /\ actor'[b].rev = actor[b].rev /\ actor'[b].token = actor[b].token
    BY <2>1
  <2>. QED  BY <2>1 DEF Claims
<1>5. Accounts'
  <2>1. AttemptsPaidFor'
    <3>1. \A q \in Revisions : rev[q].attempts <= faults' + 1
      BY DEF Accounts, AttemptsPaidFor
    <3>. QED  BY <3>1 DEF AttemptsPaidFor
  <2>2. ASSUME NEW q \in Revisions, rev'[q].attempts = faults' + 1,
               rev'[q].status = "pending"
        PROVE  Delivering(q)'
    <3>1. faults' = faults  BY <2>2 DEF Accounts, AttemptsPaidFor
    <3>2. Delivering(q)  BY <2>2, <3>1 DEF Accounts
    <3>3. PICK b \in Actors : Holds(b, q) /\ actor[b].pc \in {"post", "acked"}
      BY <3>2 DEF Delivering
    <3>4. /\ actor'[b].pc \in {"post", "acked"}
          /\ actor'[b].rev = actor[b].rev /\ actor'[b].token = actor[b].token
      BY <3>1, <3>3
    <3>. QED  BY <3>2, <3>3, <3>4 DEF Delivering, Holds
  <2>. QED  BY <2>1, <2>2 DEF Accounts
<1>6. Queued'  BY DEF Queued
<1>. QED  BY <1>1, <1>2, <1>3, <1>4, <1>5, <1>6

\* The transaction of cancel().
LEMMA CancelStep ==
    ASSUME IInv, NEW c \in Callers, NEW r \in Revisions, Cancel(c, r)
    PROVE  IInv'
<1>0. Facts  BY Basics
<1> USE <1>0 DEF IInv, Facts
<1>1. c \in Actors /\ c \notin Workers  BY OutboxAssumption DEF Actors
<1>2. /\ r <= created /\ actor[c].pc = "idle" /\ canc[r] = "none"
      /\ UNCHANGED <<created, ledger, wire, faults>>
  BY DEF Cancel, Saved
<1>3. queue' = Append(queue, r)  BY DEF Cancel
<1>4. /\ canc' \in [Revisions -> {"none", "pending", "synced"}]
      /\ canc'[r] = "pending" /\ \A q \in Revisions : q # r => canc'[q] = canc[q]
  BY DEF Cancel, TypeOK
<1>5. /\ rev' \in [Revisions -> Rows]
      /\ rev'[r].cancelled
      /\ \A q \in Revisions : /\ q # r => rev'[q] = rev[q]
                              /\ rev'[q].status = rev[q].status
                              /\ rev'[q].attempts = rev[q].attempts
                              /\ rev'[q].claim = rev[q].claim
                              /\ rev'[q].lease = rev[q].lease
  <2>1. rev' = [rev EXCEPT ![r].cancelled = TRUE]  BY DEF Cancel
  <2>2. rev' \in [Revisions -> Rows]  BY <2>1, RowsTyped DEF TypeOK
  <2>. QED  BY <2>1, <2>2 DEF TypeOK, Rows
<1>6. actor' \in [Actors -> ActorStates]
  BY <1>1, MovesTyped, OutboxAssumption DEF Cancel, Steps, TypeOK
<1>7. \A b \in Actors : IF b = c THEN actor'[b].pc = "drop" /\ actor'[b].rev = r
                                 ELSE actor'[b] = actor[b]
  BY <1>1, MovePoints DEF Cancel
<1>8. TypeOK'  BY <1>2, <1>3, <1>4, <1>5, <1>6, AppendIsQueue DEF TypeOK
<1>9. Knowledge'
  <2>1. \A b \in Actors : actor'[b].pc # "idle" => actor'[b].rev \in 1..created'
    BY <1>2, <1>7 DEF Knowledge
  <2>2. \A b \in Actors : actor'[b].pc \in {"acked", "dropping", "dropped", "refused"} =>
           actor'[b] = actor[b]
    BY <1>7
  <2>3. \A b \in Actors : actor'[b].pc \in {"dropping", "dropped", "refused"} =>
           canc'[actor'[b].rev] = "pending"
    BY <1>2, <1>4, <2>2 DEF Knowledge
  <2>. QED  BY <1>2, <2>1, <2>2, <2>3 DEF Knowledge, OneDropper
<1>10. Agreement'
  <2>2. \A q \in Revisions : q > created' => rev'[q] = BlankRow /\ canc'[q] = "none"
    BY <1>2, <1>4, <1>5 DEF Agreement
  <2>3. \A q \in Revisions : /\ canc[q] # "none" => canc'[q] # "none"
                             /\ canc'[q] # "none" => rev'[q].cancelled
                             /\ canc'[q] = "synced" => canc[q] = "synced"
    BY <1>4, <1>5 DEF Agreement
  <2>. QED  BY <1>2, <1>5, <2>2, <2>3 DEF Agreement, SettledIsDropped
<1>11. Claims'
  <2>1. \A b \in Actors : actor'[b].pc \in {"post", "acked", "errored"} =>
           actor'[b] = actor[b]
    BY <1>7
  <2>. QED  BY <1>5, <2>1, ClaimsKept
<1>12. Accounts'  BY <1>2, <1>5, <1>7, AccountsKept
<1>13. Queued'
  <2>1. \A i \in 1..Len(queue) : queue[i] # r  BY <1>2 DEF Queued
  <2>6. queue \in Seq(Revisions) /\ \A i, j \in 1..Len(queue) : queue[i] = queue[j] => i = j
    BY DEF TypeOK, Queued
  <2> HIDE DEF Facts, IInv
  <2>2. \A i, j \in 1..Len(queue') : queue'[i] = queue'[j] => i = j
    <3> DEFINE w == Append(queue, r)
    <3>1. (\A i, j \in 1..Len(queue) : queue[i] = queue[j] => i = j)
          /\ (\A i \in 1..Len(queue) : queue[i] # r) =>
             \A i, j \in 1..Len(w) : w[i] = w[j] => i = j
      BY <2>6, AppendIsQueue
    <3>2. queue' = w  BY <1>3
    <3> HIDE DEF w
    <3>. QED  BY <2>1, <2>6, <3>1, <3>2
  <2>3. \A i \in 1..Len(queue') : queue'[i] = r \/ \E j \in 1..Len(queue) : queue'[i] = queue[j]
    BY <1>3, <2>6, AppendIsQueue
  <2>4. \A j \in 1..Len(queue) : canc'[queue[j]] = "pending"
    BY <1>0, <1>4, <2>1 DEF Queued, Facts, IInv
  <2>5. \A i \in 1..Len(queue') : canc'[queue'[i]] = "pending"
    BY <1>4, <2>3, <2>4
  <2>. QED  BY <2>2, <2>5 DEF Queued
<1>. QED  BY <1>8, <1>9, <1>10, <1>11, <1>12, <1>13

\* The row of a pending cancellation is locked for delivery.
LEMMA LockStep ==
    ASSUME IInv, NEW a \in Actors, actor[a].pc \in {"idle", "drop"},
           UNCHANGED <<created, rev, canc, queue, ledger, wire, faults>>,
           actor' \in [Actors -> ActorStates],
           \A b \in Actors : b # a => actor'[b] = actor[b],
           actor'[a].pc = "dropping", actor'[a].rev \in Revisions,
           canc[actor'[a].rev] = "pending", ~Locked(actor'[a].rev)
    PROVE  IInv'
<1>0. Facts  BY Basics
<1> USE <1>0 DEF IInv, Facts
<1>1. TypeOK'  BY DEF TypeOK
<1>2. Knowledge'
  <2>1. actor'[a].rev <= created  BY DEF Agreement
  <2>2. \A b \in Actors : actor'[b].pc # "idle" => actor'[b].rev \in 1..created'
    BY <2>1 DEF Knowledge
  <2>3. \A b \in Actors : b # a /\ actor'[b].pc \in {"dropping", "dropped", "refused"} =>
           actor'[b].rev # actor'[a].rev
    BY DEF Locked
  <2>4. \A b \in Actors : actor'[b].pc \in {"acked", "dropped"} => actor'[b] = actor[b]
    OBVIOUS
  <2>5. OneDropper'  BY <2>3 DEF OneDropper, Knowledge
  <2>6. \A b \in Actors : actor'[b].pc \in {"dropping", "dropped", "refused"} =>
           canc'[actor'[b].rev] = "pending"
    BY DEF Knowledge
  <2>. QED  BY <2>2, <2>4, <2>5, <2>6 DEF Knowledge
<1>3. Agreement'  BY DEF Agreement, SettledIsDropped
<1>4. Claims'
  <2>1. \A b \in Actors : actor'[b].pc \in {"post", "acked", "errored"} =>
           actor'[b] = actor[b]
    OBVIOUS
  <2>. QED  BY <2>1, ClaimsKept
<1>5. Accounts'  BY DEF Accounts, AttemptsPaidFor, Delivering, Holds
<1>6. Queued'  BY DEF Queued
<1>. QED  BY <1>1, <1>2, <1>3, <1>4, <1>5, <1>6

\* The transaction that delivered a cancellation commits: settled or put off.
LEMMA UnlockStep ==
    ASSUME IInv, NEW a \in Actors, DropDone(a) \/ DropPutOff(a)
    PROVE  IInv'
<1>0. Facts  BY Basics
<1> USE <1>0 DEF IInv, Facts
<1> DEFINE r == actor[a].rev
<1>1. /\ r \in Revisions /\ canc[r] = "pending"
      /\ actor[a].pc \in {"dropped", "refused"}
      /\ UNCHANGED <<created, rev, ledger, wire, faults>>
      /\ Finish(a) /\ queue' = Without(queue, r)
  BY DEF DropDone, DropPutOff, Knowledge
<1>2. /\ canc' \in [Revisions -> {"none", "pending", "synced"}]
      /\ \A q \in Revisions : q # r => canc'[q] = canc[q]
      /\ canc'[r] = "pending" \/ (canc'[r] = "synced" /\ ledger[r] = "cancelled")
  BY <1>1 DEF DropDone, DropPutOff, Knowledge, TypeOK
<1>3. /\ queue' \in Seq(Revisions)
      /\ \A i \in 1..Len(queue') :
            queue'[i] # r /\ \E j \in 1..Len(queue) : queue'[i] = queue[j]
      /\ \A i, j \in 1..Len(queue') : queue'[i] = queue'[j] => i = j
  <2> HIDE DEF Facts, r
  <2>1. queue \in Seq(Revisions) /\ \A i, j \in 1..Len(queue) : queue[i] = queue[j] => i = j
    BY DEF TypeOK, Queued
  <2>2. queue' = Without(queue, r)  BY <1>1
  <2>3. queue' \in Seq(Revisions)  BY <2>1, <2>2, WithoutIsQueue
  <2> DEFINE w == Without(queue, r)
  <2>4. /\ \A i \in 1..Len(w) : \E j \in 1..Len(queue) : w[i] = queue[j]
        /\ (\A i, j \in 1..Len(queue) : queue[i] = queue[j] => i = j) =>
              /\ \A i \in 1..Len(w) : w[i] # r
              /\ \A i, j \in 1..Len(w) : w[i] = w[j] => i = j
    BY <2>1, WithoutIsQueue
  <2>5. queue' = w  BY <2>2
  <2> HIDE DEF w
  <2>6. /\ \A i \in 1..Len(w) : w[i] # r
        /\ \A i, j \in 1..Len(w) : w[i] = w[j] => i = j
    BY <2>1, <2>4
  <2>. QED  BY <2>3, <2>4, <2>5, <2>6
<1>4. actor' \in [Actors -> ActorStates]
  BY <1>1, MovesTyped, OutboxAssumption DEF TypeOK
<1>5. \A b \in Actors : IF b = a THEN actor'[b].pc = "idle" ELSE actor'[b] = actor[b]
  BY <1>1, MovePoints
<1>6. TypeOK'  BY <1>1, <1>2, <1>3, <1>4 DEF TypeOK
<1> HIDE DEF r
<1>7. Knowledge'
  <2>1. \A b \in Actors : actor'[b].pc # "idle" => actor'[b].rev \in 1..created'
    BY <1>1, <1>5 DEF Knowledge
  <2>2. \A b \in Actors : actor'[b].pc \in {"acked", "dropping", "dropped", "refused"} =>
           b # a /\ actor'[b] = actor[b]
    BY <1>5
  <2>3. \A b \in Actors : b # a /\ actor[b].pc \in {"dropping", "dropped", "refused"} =>
           actor[b].rev # r
    BY <1>1 DEF Knowledge, OneDropper, r
  <2>4. \A b \in Actors : actor'[b].pc \in {"dropping", "dropped", "refused"} =>
           canc'[actor'[b].rev] = "pending"
    BY <1>2, <2>2, <2>3 DEF Knowledge
  <2>. QED  BY <1>1, <2>1, <2>2, <2>4 DEF Knowledge, OneDropper
<1>8. Agreement'
  <2>1. r <= created  BY <1>1 DEF Agreement
  <2>2. \A q \in Revisions : /\ canc'[q] # "none" <=> canc[q] # "none"
                             /\ canc'[q] = "synced" => ledger[q] = "cancelled"
    BY <1>1, <1>2 DEF Agreement, SettledIsDropped
  <2>3. \A q \in Revisions : canc'[q] = "none" <=> canc[q] = "none"
    BY <2>2
  <2>. QED  BY <1>1, <2>1, <2>2, <2>3 DEF Agreement, SettledIsDropped
<1>9. Queued'
  <2>1. \A i \in 1..Len(queue') : canc'[queue'[i]] = "pending"
    <3>1. ASSUME NEW i \in 1..Len(queue') PROVE canc'[queue'[i]] = "pending"
      <4>1. queue'[i] \in Revisions /\ queue'[i] # r  BY <1>3
      <4>2. PICK j \in 1..Len(queue) : queue'[i] = queue[j]  BY <1>3
      <4>3. canc[queue'[i]] = "pending"  BY <4>2 DEF Queued
      <4>. QED  BY <1>2, <4>1, <4>3
    <3>. QED  BY <3>1
  <2>. QED  BY <1>3, <2>1 DEF Queued
<1>10. Claims'
  <2>1. \A b \in Actors : actor'[b].pc \in {"post", "acked", "errored"} =>
           actor'[b] = actor[b]
    BY <1>5
  <2>. QED  BY <1>1, <2>1, ClaimsKept
<1>11. Accounts'
  <2>1. AttemptsPaidFor'  BY <1>1 DEF Accounts, AttemptsPaidFor
  <2>2. ASSUME NEW q \in Revisions, Delivering(q) PROVE Delivering(q)'
    BY <1>1, <1>5, <2>2 DEF Delivering, Holds
  <2>. QED  BY <1>1, <2>1, <2>2 DEF Accounts
<1>. QED  BY <1>6, <1>7, <1>8, <1>9, <1>10, <1>11

-------------------------------------------------------------------------------
\* IInv holds initially.
LEMMA InitIInv == Init => IInv
<1> SUFFICES ASSUME Init PROVE IInv  OBVIOUS
<1>1. TypeOK  BY InitTypeOK
<1>2. \A a \in Actors : actor[a].pc = "idle"  BY DEF Init, Resting
<1>3. Knowledge  BY <1>2 DEF Knowledge, OneDropper
<1>4. Agreement
  BY OutboxAssumption DEF Init, Agreement, SettledIsDropped, BlankRow, Revisions
<1>5. Queued  BY DEF Init, Queued
<1>6. Claims  BY <1>2 DEF Init, Claims, BlankRow
<1>7. Accounts
  BY <1>1, OutboxAssumption DEF Init, Accounts, AttemptsPaidFor, BlankRow
<1>. QED  BY <1>1, <1>3, <1>4, <1>5, <1>6, <1>7 DEF IInv

\* Every step preserves IInv.
LEMMA NextIInv == IInv /\ [Next]_vars => IInv'
<1> SUFFICES ASSUME IInv, [Next]_vars PROVE IInv'  OBVIOUS
<1>0. Facts  BY Basics
<1> USE <1>0
<1>20. TypeOK /\ actor \in [Actors -> ActorStates] /\ rev \in [Revisions -> Rows] /\ Batch \in Nat
  BY OutboxAssumption DEF IInv, TypeOK
<1>21. \A w \in Workers : w \in Actors  BY DEF Actors
<1>22. \A c \in Callers : c \in Actors /\ c \notin Workers  BY OutboxAssumption DEF Actors
<1>1. ASSUME NEW a \in Actors, Publish(a) PROVE IInv'
  BY <1>1, PublishStep
<1>2. ASSUME NEW a \in Actors, NEW r \in Revisions, Republish(a, r) PROVE IInv'
  <2>1. actor[a].pc = "idle" /\ r \in 1..created /\ Start(a, "claim", r, 0)
        /\ UNCHANGED <<created, rev, canc, queue, ledger, wire, faults>>
    BY <1>2 DEF Republish, FreeToCall, Saved, Facts
  <2>2. actor' \in [Actors -> ActorStates]
    BY <1>20, <1>2, <2>1, MovesTyped DEF Republish, FreeToCall, Steps
  <2>. QED  BY <1>20, <2>1, <2>2, SetOutStep, MovePoints
<1>3. ASSUME NEW c \in Callers, NEW r \in Revisions, Sync(c, r) PROVE IInv'
  <2>1. actor[c].pc = "idle" /\ r \in 1..created /\ Start(c, "claim", r, 0)
        /\ UNCHANGED <<created, rev, canc, queue, ledger, wire, faults>>
    BY <1>3 DEF Sync, Saved, Facts
  <2>2. actor' \in [Actors -> ActorStates]
    BY <1>20, <1>22, <2>1, MovesTyped DEF Steps
  <2>. QED  BY <1>20, <1>22, <2>1, <2>2, SetOutStep, MovePoints
<1>4. ASSUME NEW c \in Callers, NEW r \in Revisions, Cancel(c, r) PROVE IInv'
  BY <1>4, CancelStep
<1>5. ASSUME NEW c \in Callers, NEW r \in Revisions, CancelAgain(c, r) PROVE IInv'
  <2>1. actor[c].pc = "idle" /\ canc[r] # "none" /\ Start(c, "drop", r, 0)
        /\ UNCHANGED <<created, rev, canc, queue, ledger, wire, faults>>
    BY <1>5 DEF CancelAgain
  <2>2. r \in 1..created  BY <2>1 DEF IInv, Agreement, Facts
  <2>3. actor' \in [Actors -> ActorStates]
    BY <1>20, <1>22, <2>1, MovesTyped DEF Steps
  <2>. QED  BY <1>20, <1>22, <2>1, <2>2, <2>3, SetOutStep, MovePoints
<1>6. ASSUME NEW w \in Workers, Tick(w) \/ NextPhase(w) PROVE IInv'
  <2>1. /\ actor[w].pc = "idle"
        /\ UNCHANGED <<created, rev, canc, queue, ledger, wire, faults>>
        /\ \E phase \in Phases, n \in 0..Batch : EnterPhase(w, phase, n)
    BY <1>6, <1>20 DEF Tick, NextPhase, Phases
  <2>2. PICK phase \in Phases, n \in 0..Batch : EnterPhase(w, phase, n)  BY <2>1
  <2>3. actor' \in [Actors -> ActorStates]  BY <1>20, <1>21, <2>2, MovesTyped
  <2>4. /\ \A b \in Actors : b # w => actor'[b] = actor[b]
        /\ actor'[w].pc = "idle"
    BY <1>20, <1>21, <2>1, <2>2, MovePoints DEF EnterPhase
  <2>. QED  BY <1>21, <2>1, <2>3, <2>4, SetOutStep
<1>7. ASSUME NEW r \in Revisions, Clock(r) PROVE IInv'
  BY <1>7, ClockStep
<1>8. ASSUME NEW a \in Actors, ClaimById(a) PROVE IInv'
  <2> DEFINE r == actor[a].rev
  <2>0. /\ r \in Revisions /\ actor[a].pc = "claim"
        /\ UNCHANGED <<created, canc, queue, ledger, wire, faults>>
    BY <1>8 DEF ClaimById, Facts
  <2>1. CASE Claimable(r)
    <3>1. /\ rev' = Claimed(r)
          /\ actor' = [actor EXCEPT ![a] = [@ EXCEPT !.pc = "post",
                                                     !.token = rev[r].attempts + 1]]
      BY <1>8, <2>1 DEF ClaimById
    <3>2. [actor[a] EXCEPT !.pc = "post", !.token = rev[r].attempts + 1] \in ActorStates
      <4> DEFINE n == rev[r].attempts + 1
      <4>1. n \in Nat /\ actor[a] \in ActorStates  BY <2>0 DEF Facts
      <4> HIDE DEF n
      <4>2. [actor[a] EXCEPT !.pc = "post", !.token = n] \in ActorStates
        BY <4>1 DEF ActorStates, Steps
      <4>. QED  BY <4>2 DEF n
    <3>3. actor' \in [Actors -> ActorStates]  BY <1>20, <3>1, <3>2
    <3>4. /\ \A b \in Actors : b # a => actor'[b] = actor[b]
          /\ actor'[a].pc = "post" /\ actor'[a].rev = r
          /\ actor'[a].token = rev[r].attempts + 1
      BY <1>20, <3>1 DEF ActorStates
    <3>. QED  BY <2>0, <2>1, <3>1, <3>3, <3>4, ClaimStep
  <2>2. CASE ~Claimable(r)
    <3>1. Finish(a) /\ rev' = rev  BY <1>8, <2>2 DEF ClaimById
    <3>. QED  BY <1>20, <2>0, <3>1, ReleaseStep
  <2>. QED  BY <2>1, <2>2
<1>9. ASSUME NEW w \in Workers, ClaimNext(w) PROVE IInv'
  <2>1. PICK r \in Revisions : /\ r \in DueRevisions /\ rev' = Claimed(r)
                               /\ Start(w, "post", r, rev[r].attempts + 1)
    BY <1>9 DEF ClaimNext, First
  <2>2. /\ actor[w].pc = "idle" /\ actor[w].left > 0 /\ Claimable(r)
        /\ UNCHANGED <<created, canc, queue, ledger, wire, faults>>
    BY <1>9, <2>1 DEF ClaimNext, DueRevisions
  <2>3. rev[r].attempts + 1 \in Nat  BY DEF Facts
  <2>4. actor' \in [Actors -> ActorStates]
    BY <1>20, <1>21, <2>1, <2>2, <2>3, MovesTyped DEF Steps
  <2>5. /\ \A b \in Actors : b # w => actor'[b] = actor[b]
        /\ actor'[w].pc = "post" /\ actor'[w].rev = r
        /\ actor'[w].token = rev[r].attempts + 1
    BY <1>20, <1>21, <2>1, MovePoints
  <2>. QED  BY <1>21, <2>1, <2>2, <2>4, <2>5, ClaimStep
<1>10. ASSUME NEW a \in Actors, PostAnswered(a) \/ DropAnswered(a) PROVE IInv'
  <2> DEFINE r == actor[a].rev
             pc == actor'[a].pc
  <2>1. /\ actor[a].pc \in {"post", "dropping"} /\ r \in Revisions /\ r <= created
        /\ UNCHANGED <<created, rev, canc, queue, wire, faults>>
    BY <1>10 DEF PostAnswered, DropAnswered, Facts
  <2>2. /\ \A b \in Actors : b # a => actor'[b] = actor[b]
        /\ pc \in {"acked", "refused", "dropped"}
        /\ actor' \in [Actors -> ActorStates]
        /\ actor'[a].rev = r /\ actor'[a].token = actor[a].token
    <3>1. PICK q \in {"acked", "refused", "dropped"} : Goto(a, q)
      BY <1>10 DEF PostAnswered, DropAnswered
    <3>2. actor' \in [Actors -> ActorStates]  BY <1>20, <3>1, MovesTyped DEF Steps
    <3>. QED  BY <1>20, <3>1, <3>2 DEF Goto, ActorStates
  <2>3. PICK request \in Requests :
            /\ ledger' = LedgerAfter(request) /\ request[2] = r
            /\ request[1] = "cancel" => canc[r] # "none"
            /\ actor[a].pc = "post" => request[1] = "terms" /\ pc = "acked"
            /\ actor[a].pc = "dropping" =>
                  /\ request[1] = "cancel"
                  /\ \/ pc = "refused"
                     \/ pc = "dropped" /\ ledger[r] # "unknown"
    <3>1. CASE PostAnswered(a)
      <4>1. pc = "acked" /\ actor[a].pc = "post" /\ ledger' = LedgerAfter(<<"terms", r>>)
        BY <1>20, <3>1 DEF PostAnswered, Goto, ActorStates
      <4>2. <<"terms", r>> \in Requests  BY <2>1 DEF Requests
      <4>. QED  BY <4>1, <4>2
    <3>2. CASE DropAnswered(a)
      <4>1. /\ pc = IF ledger[r] = "unknown" THEN "refused" ELSE "dropped"
            /\ actor[a].pc = "dropping" /\ ledger' = LedgerAfter(<<"cancel", r>>)
        BY <1>20, <3>2 DEF DropAnswered, Goto, ActorStates
      <4>2. canc[r] # "none"  BY <4>1 DEF IInv, Knowledge
      <4>3. <<"cancel", r>> \in Requests  BY <2>1 DEF Requests
      <4>. QED  BY <4>1, <4>2, <4>3
    <3>. QED  BY <1>10, <3>1, <3>2
  <2>4. /\ ledger' \in [Revisions -> {"unknown", "open", "cancelled"}]
        /\ \A q \in Revisions :
              /\ ledger[q] # "unknown" => ledger'[q] # "unknown"
              /\ ledger[q] = "cancelled" => ledger'[q] = "cancelled"
              /\ ledger'[q] # "unknown" => q <= created
              /\ ledger'[q] = "cancelled" => canc[q] # "none"
        /\ request[1] = "terms" => ledger'[r] # "unknown"
        /\ request[1] = "cancel" /\ ledger[r] # "unknown" => ledger'[r] = "cancelled"
    BY <2>1, <2>3, LedgerPoints
  <2>5. \/ actor[a].pc = "post" /\ pc = "acked" /\ ledger'[r] # "unknown"
        \/ actor[a].pc = "dropping" /\ pc = "refused"
        \/ actor[a].pc = "dropping" /\ pc = "dropped" /\ ledger'[r] = "cancelled"
    BY <2>1, <2>2, <2>3, <2>4
  <2>6. /\ wire' \subseteq Requests /\ faults' \in 0..MaxFaults /\ faults <= faults'
        /\ \A q \in wire' : q[2] <= created /\ (q[1] = "cancel" => canc[q[2]] # "none")
    BY <2>1, <1>20 DEF TypeOK, IInv, Agreement, Facts
  <2>. QED  BY <2>1, <2>2, <2>4, <2>5, <2>6, CallStep
<1>11. ASSUME NEW a \in Actors, Misfortune(a) PROVE IInv'
  <2> DEFINE r == actor[a].rev
  <2>1. /\ UNCHANGED <<created, rev, canc, queue, ledger>>
        /\ faults' \in 0..MaxFaults /\ faults < faults'
        /\ actor[a].pc # "idle"
    <3>1. UNCHANGED <<created, rev, canc, queue, ledger>> /\ Fault /\ actor[a].pc # "idle"
      BY <1>11 DEF Misfortune, PostFails, AckNotRecorded, DropFails, Crash
    <3>2. faults \in 0..MaxFaults /\ MaxFaults \in Nat  BY <1>20, OutboxAssumption DEF TypeOK
    <3>3. faults' \in 0..MaxFaults /\ faults < faults'
      <4> HIDE <1>0
      <4>1. faults < MaxFaults /\ faults' = faults + 1  BY <3>1 DEF Fault
      <4>. QED  BY <3>2, <4>1
    <3>. QED  BY <3>1, <3>3
  <2>2. r \in Revisions /\ r <= created /\ (actor[a].pc = "dropping" => canc[r] # "none")
    BY <2>1 DEF Facts, IInv, Knowledge
  <2>3. wire' \subseteq wire \cup (IF actor[a].pc = "dropping" THEN {<<"cancel", r>>}
                                                             ELSE {<<"terms", r>>})
    BY <1>11 DEF Misfortune, PostFails, AckNotRecorded, DropFails, Crash, InFlight
  <2>4. /\ wire' \subseteq Requests
        /\ \A q \in wire' : q[2] <= created /\ (q[1] = "cancel" => canc[q[2]] # "none")
    <3>1. /\ wire \subseteq Requests
          /\ \A q \in wire : q[2] <= created /\ (q[1] = "cancel" => canc[q[2]] # "none")
      BY <1>20 DEF TypeOK, IInv, Agreement
    <3>2. <<"terms", r>> \in Requests /\ <<"cancel", r>> \in Requests
      BY <2>2 DEF Requests
    <3>. QED  BY <2>2, <2>3, <3>1, <3>2
  <2>5. /\ actor' \in [Actors -> ActorStates]
        /\ \A b \in Actors : b # a => actor'[b] = actor[b]
        /\ \/ actor'[a].pc = "idle"
           \/ /\ actor'[a].rev = r /\ actor'[a].token = actor[a].token
              /\ \/ actor[a].pc \in {"post", "acked"} /\ actor'[a].pc = "errored"
                 \/ actor[a].pc = "dropping" /\ actor'[a].pc = "refused"
    <3>1. CASE Crash(a)
      <4>1. actor' = [actor EXCEPT ![a] = Resting]  BY <3>1 DEF Crash
      <4>2. Resting \in ActorStates /\ Resting.pc = "idle"
        BY OutboxAssumption DEF Resting, ActorStates, Steps, Phases
      <4>. QED  BY <1>20, <4>1, <4>2
    <3>2. CASE PostFails(a) \/ AckNotRecorded(a)
      <4>1. actor[a].pc \in {"post", "acked"} /\ Goto(a, "errored")
        BY <3>2 DEF PostFails, AckNotRecorded
      <4>2. actor' \in [Actors -> ActorStates]  BY <1>20, <4>1, MovesTyped DEF Steps
      <4>. QED  BY <1>20, <4>1, <4>2 DEF Goto, ActorStates
    <3>3. CASE DropFails(a)
      <4>1. actor[a].pc = "dropping" /\ Goto(a, "refused")  BY <3>3 DEF DropFails
      <4>2. actor' \in [Actors -> ActorStates]  BY <1>20, <4>1, MovesTyped DEF Steps
      <4>. QED  BY <1>20, <4>1, <4>2 DEF Goto, ActorStates
    <3>. QED  BY <1>11, <3>1, <3>2, <3>3 DEF Misfortune
  <2>6. /\ ledger' \in [Revisions -> {"unknown", "open", "cancelled"}]
        /\ \A q \in Revisions : /\ ledger[q] # "unknown" => q <= created
                                /\ ledger[q] = "cancelled" => canc[q] # "none"
    BY <1>20, <2>1 DEF TypeOK, IInv, Agreement
  <2>. QED  BY <2>1, <2>4, <2>5, <2>6, CallStep DEF Facts
<1>12. ASSUME NEW request \in wire, Arrives(request) PROVE IInv'
  <2>1. /\ UNCHANGED <<created, rev, canc, queue, actor, faults>>
        /\ ledger' = LedgerAfter(request) /\ wire' \subseteq wire /\ request \in Requests
    BY <1>12 DEF Arrives, Facts
  <2>2. /\ wire \subseteq Requests /\ faults \in 0..MaxFaults
        /\ \A q \in wire : q[2] <= created /\ (q[1] = "cancel" => canc[q[2]] # "none")
    BY <1>20 DEF TypeOK, IInv, Agreement
  <2>3. /\ ledger' \in [Revisions -> {"unknown", "open", "cancelled"}]
        /\ \A q \in Revisions :
              /\ ledger[q] # "unknown" => ledger'[q] # "unknown"
              /\ ledger[q] = "cancelled" => ledger'[q] = "cancelled"
              /\ ledger'[q] # "unknown" => q <= created
              /\ ledger'[q] = "cancelled" => canc[q] # "none"
    BY <2>1, <2>2, LedgerPoints
  <2>. QED  BY <1>20, <2>1, <2>2, <2>3, CallStep DEF Facts
<1>13. ASSUME NEW a \in Actors, Complete(a) \/ Fail(a) PROVE IInv'
  <2> DEFINE r == actor[a].rev
  <2>1. /\ r \in Revisions /\ r <= created /\ Finish(a)
        /\ UNCHANGED <<created, canc, queue, ledger, wire, faults>>
    BY <1>13 DEF Complete, Fail, Facts
  <2>2. Holds(a, r) <=> StillClaimed(a)
    BY <1>13 DEF Complete, Fail, Holds, StillClaimed
  <2>3. CASE ~StillClaimed(a)
    <3>1. rev' = rev  BY <1>13, <2>3 DEF Complete, Fail
    <3>. QED  BY <1>20, <2>1, <2>2, <2>3, <3>1, ReleaseStep
  <2>4. CASE StillClaimed(a) /\ Complete(a)
    <3>1. rev' = [rev EXCEPT ![r] = [@ EXCEPT !.status = "synced", !.claim = 0,
                                              !.lease = "none"]]
      BY <2>4 DEF Complete
    <3>2. rev' \in [Revisions -> Rows]  BY <1>20, <2>1, <3>1, RowsTyped
    <3>3. /\ \A q \in Revisions : q # r => rev'[q] = rev[q]
          /\ rev'[r].attempts = rev[r].attempts /\ rev'[r].cancelled = rev[r].cancelled
          /\ rev'[r].claim = 0 /\ rev'[r].lease = "none" /\ rev'[r].status = "synced"
      BY <1>20, <2>1, <3>1 DEF Rows
    <3>4. ledger[r] # "unknown"  BY <2>4 DEF Complete, IInv, Knowledge
    <3>. QED  BY <2>1, <3>2, <3>3, <3>4, ReleaseStep
  <2>5. CASE StillClaimed(a) /\ Fail(a)
    <3>1. /\ actor[a].pc = "errored"
          /\ rev' = [rev EXCEPT ![r] = [@ EXCEPT !.due = FALSE, !.claim = 0,
                                                 !.lease = "none"]]
      BY <2>5 DEF Fail
    <3>2. rev' \in [Revisions -> Rows]  BY <1>20, <2>1, <3>1, RowsTyped
    <3>3. /\ \A q \in Revisions : q # r => rev'[q] = rev[q]
          /\ rev'[r].attempts = rev[r].attempts /\ rev'[r].cancelled = rev[r].cancelled
          /\ rev'[r].claim = 0 /\ rev'[r].lease = "none" /\ rev'[r].status = rev[r].status
      BY <1>20, <2>1, <3>1 DEF Rows
    <3>. QED  BY <2>1, <2>2, <2>5, <3>1, <3>2, <3>3, ReleaseStep
  <2>. QED  BY <1>13, <2>3, <2>4, <2>5
<1>14. ASSUME NEW c \in Actors, DropById(c) PROVE IInv'
  <2> DEFINE r == actor[c].rev
  <2>1. /\ actor[c].pc = "drop" /\ r \in Revisions
        /\ UNCHANGED <<created, rev, canc, queue, ledger, wire, faults>>
    BY <1>14 DEF DropById, Facts
  <2>2. CASE canc[r] = "pending" /\ ~Locked(r)
    <3>1. Goto(c, "dropping")  BY <1>14, <2>2 DEF DropById
    <3>2. actor' \in [Actors -> ActorStates]  BY <1>20, <3>1, MovesTyped DEF Steps
    <3>3. /\ \A b \in Actors : b # c => actor'[b] = actor[b]
          /\ actor'[c].pc = "dropping" /\ actor'[c].rev = r
      BY <1>20, <3>1 DEF Goto, ActorStates
    <3>. QED  BY <2>1, <2>2, <3>2, <3>3, LockStep
  <2>3. CASE ~(canc[r] = "pending" /\ ~Locked(r))
    <3>1. Finish(c)  BY <1>14, <2>3 DEF DropById
    <3>. QED  BY <1>20, <2>1, <3>1, ReleaseStep DEF Holds
  <2>. QED  BY <2>2, <2>3
<1>15. ASSUME NEW w \in Workers, DropNext(w) PROVE IInv'
  <2>1. PICK i \in 1..Len(queue) : ~Locked(queue[i]) /\ Start(w, "dropping", queue[i], 0)
    BY <1>15 DEF DropNext, First, FreeInQueue
  <2>2. /\ actor[w].pc = "idle" /\ actor[w].left > 0
        /\ UNCHANGED <<created, rev, canc, queue, ledger, wire, faults>>
    BY <1>15 DEF DropNext
  <2>3. queue[i] \in Revisions /\ canc[queue[i]] = "pending"
    BY DEF Facts, IInv, Queued
  <2>4. actor' \in [Actors -> ActorStates]
    BY <1>20, <1>21, <2>1, <2>2, <2>3, MovesTyped DEF Steps
  <2>5. /\ \A b \in Actors : b # w => actor'[b] = actor[b]
        /\ actor'[w].pc = "dropping" /\ actor'[w].rev = queue[i]
    BY <1>20, <1>21, <2>1, MovePoints
  <2>. QED  BY <1>21, <2>1, <2>2, <2>3, <2>4, <2>5, LockStep
<1>16. ASSUME NEW a \in Actors, DropDone(a) \/ DropPutOff(a) PROVE IInv'
  BY <1>16, UnlockStep
<1>17. CASE UNCHANGED vars
  BY <1>17
  DEF vars, IInv, TypeOK, Knowledge, OneDropper, Agreement, SettledIsDropped, Queued,
      Claims, Accounts, AttemptsPaidFor, Delivering, Holds
<1>. QED
  BY <1>1, <1>2, <1>3, <1>4, <1>5, <1>6, <1>7, <1>8, <1>9, <1>10, <1>11, <1>12, <1>13,
     <1>14, <1>15, <1>16, <1>17
  DEF Next, Proceeds, Run, Request

\* The invariant, for every value of the constants.
THEOREM Invariance == Spec => []IInv
  BY InitIInv, NextIInv, PTL DEF Spec

\* The variables keep their types.
THEOREM TypeCorrect == Spec => []TypeOK
  BY Invariance, PTL DEF IInv

\* What Control records of a delivery is what Billing and Control agree on.
THEOREM SyncedHeld == Spec => []SyncedIsHeld
<1>1. IInv => SyncedIsHeld  BY DEF IInv, Agreement, SyncedIsHeld
<1>. QED  BY <1>1, Invariance, PTL

\* A cancellation settled in Control is settled in Billing, for good.
THEOREM SettledDropped == Spec => []SettledIsDropped
<1>1. IInv => SettledIsDropped  BY DEF IInv, Agreement
<1>. QED  BY <1>1, Invariance, PTL

\* The row lock of a cancellation excludes: by id, by timers, and mixed.
THEOREM DropperAlone == Spec => []OneDropper
<1>1. IInv => OneDropper  BY DEF IInv, Knowledge
<1>. QED  BY <1>1, Invariance, PTL

\* Attempts are used up by faults only, with any number of timers.
THEOREM AttemptsBounded == Spec => []AttemptsPaidFor
<1>1. IInv => AttemptsPaidFor  BY DEF IInv, Accounts
<1>. QED  BY <1>1, Invariance, PTL

-------------------------------------------------------------------------------
\* A claim that is withdrawn or replaced under a live lease was held by the
\* actor that finishes in the same step.
LEMMA LeaseStep ==
    ASSUME IInv, [Next]_vars, NEW r \in Revisions,
           rev[r].lease = "live", rev'[r].claim # rev[r].claim
    PROVE  \E a \in Actors : Holds(a, r) /\ actor'[a].pc = "idle"
<1>0. Facts  BY Basics
<1>20. TypeOK /\ rev \in [Revisions -> Rows]  BY DEF IInv, TypeOK
<1>1. rev' # rev  OBVIOUS
<1>2. CASE \E a \in Actors : Publish(a)
  <2>1. rev'[r].claim = rev[r].claim  BY <1>2, <1>20 DEF Publish, Rows
  <2>. QED  BY <2>1
<1>3. CASE \E q \in Revisions : TakesEffect(q) \/ LeaseLapses(q) \/ HolderStalls(q)
                                \/ RevisionDue(q)
  <2>1. rev'[r].claim = rev[r].claim
    BY <1>3, <1>20 DEF TakesEffect, LeaseLapses, HolderStalls, RevisionDue, Rows
  <2>. QED  BY <2>1
<1>4. CASE \E c \in Callers, q \in Revisions : Cancel(c, q)
  <2>1. rev'[r].claim = rev[r].claim  BY <1>4, <1>20 DEF Cancel, Rows
  <2>. QED  BY <2>1
<1>5. ASSUME NEW q \in Revisions, Claimable(q), rev' = Claimed(q) PROVE FALSE
  <2>1. q # r  BY <1>5 DEF Claimable
  <2>2. rev'[r] = rev[r]  BY <1>5, <2>1, <1>20 DEF Claimed
  <2>. QED  BY <2>2
<1>6. CASE \E a \in Actors : ClaimById(a)
  BY <1>0, <1>1, <1>5, <1>6 DEF ClaimById, Facts
<1>7. CASE \E w \in Workers : ClaimNext(w)
  BY <1>5, <1>7 DEF ClaimNext, First, DueRevisions
<1>8. ASSUME NEW a \in Actors, Complete(a) \/ Fail(a)
      PROVE  Holds(a, r) /\ actor'[a].pc = "idle"
  <2>1. actor'[a].pc = "idle"  BY <1>8, <1>20, MovePoints DEF Complete, Fail
  <2>2. StillClaimed(a) /\ actor[a].pc \in {"acked", "errored"}
    BY <1>8, <1>1 DEF Complete, Fail
  <2>3. actor[a].rev = r
    <3>1. ASSUME actor[a].rev # r PROVE rev'[r] = rev[r]
      BY <1>8, <1>20, <3>1 DEF Complete, Fail
    <3>. QED  BY <3>1
  <2>. QED  BY <2>1, <2>2, <2>3 DEF Holds, StillClaimed
<1>9. CASE UNCHANGED vars  BY <1>1, <1>9 DEF vars
<1>10. CASE Next
  <2>1. \/ \E a \in Actors : Publish(a) \/ ClaimById(a) \/ Complete(a) \/ Fail(a)
        \/ \E q \in Revisions : TakesEffect(q) \/ LeaseLapses(q) \/ HolderStalls(q)
                                \/ RevisionDue(q)
        \/ \E c \in Callers, q \in Revisions : Cancel(c, q)
        \/ \E w \in Workers : ClaimNext(w)
    <3>1. ASSUME NEW a \in Actors, Misfortune(a) PROVE rev' = rev
      BY <3>1 DEF Misfortune, PostFails, AckNotRecorded, DropFails, Crash
    <3>2. ASSUME NEW a \in Actors, Proceeds(a)
          PROVE  ClaimById(a) \/ Complete(a) \/ Fail(a) \/ rev' = rev
      BY <3>2 DEF Proceeds, PostAnswered, DropById, DropAnswered, DropDone, DropPutOff
    <3>3. ASSUME NEW a \in Actors, NEW q \in Revisions, Republish(a, q) PROVE rev' = rev
      BY <3>3 DEF Republish
    <3>4. ASSUME NEW w \in Workers, Run(w) PROVE ClaimNext(w) \/ rev' = rev
      BY <3>4 DEF Run, Tick, DropNext, NextPhase
    <3>5. ASSUME NEW c \in Callers, Request(c)
          PROVE  rev' = rev \/ \E q \in Revisions : Cancel(c, q)
      BY <3>5 DEF Request, Sync, CancelAgain
    <3>6. ASSUME NEW q \in Revisions, Clock(q)
          PROVE  \/ TakesEffect(q) \/ LeaseLapses(q) \/ HolderStalls(q)
                 \/ RevisionDue(q) \/ rev' = rev
      BY <3>6 DEF Clock, CancellationDue
    <3>7. ASSUME NEW request \in wire, Arrives(request) PROVE rev' = rev
      BY <3>7 DEF Arrives
    <3>. QED  BY <1>1, <1>10, <3>1, <3>2, <3>3, <3>4, <3>5, <3>6, <3>7 DEF Next
  <2>. QED  BY <2>1, <1>2, <1>3, <1>4, <1>6, <1>7, <1>8
<1>. QED  BY <1>9, <1>10

\* Nobody frees or takes over a row under a live lease but its holder.
THEOREM LeaseHeld == Spec => LeaseRespected
<1>1. IInv /\ [Next]_vars =>
        [\A r \in Revisions :
            rev[r].lease = "live" /\ rev'[r].claim # rev[r].claim =>
                \E a \in Actors : Holds(a, r) /\ actor'[a].pc = "idle"]_vars
  BY LeaseStep
<1>. QED  BY <1>1, Invariance, PTL DEF Spec, LeaseRespected

-------------------------------------------------------------------------------
\* The refinement of TermsLedger: the mapped variables, and the three kinds of
\* step that change them.
Control   == [r \in Revisions |-> IF Saved(r) THEN rev[r].status ELSE "absent"]
Effective == [r \in Revisions |-> rev[r].effective]

\* Rows that keep what the mapping shows.
LEMMA MappingKept ==
    ASSUME created' = created,
           \A q \in Revisions : /\ rev'[q].status = rev[q].status
                                /\ rev'[q].effective = rev[q].effective
    PROVE  Control' = Control /\ Effective' = Effective
  BY DEF Control, Effective, Saved

\* What a request does in Billing is a step of the ledger.
LEMMA RequestMaps ==
    ASSUME IInv, NEW request \in Requests, request[2] <= created,
           request[1] = "cancel" => canc[request[2]] # "none",
           ledger' = LedgerAfter(request), UNCHANGED <<created, rev, canc>>
    PROVE  [Ledger!Next]_(Ledger!vars)
<1> DEFINE r == request[2]
<1>0. r \in Revisions /\ request[1] \in {"terms", "cancel"}  BY DEF Requests
<1>1. Control' = Control /\ Effective' = Effective /\ canc' = canc
  BY MappingKept
<1>2. Saved(r) /\ rev[r].status # "absent"
  <2>1. rev[r] \in Rows  BY <1>0 DEF IInv, TypeOK
  <2>. QED  BY <2>1 DEF Saved, Rows
<1>3. CASE request[1] = "terms" /\ ledger[r] = "unknown"
  <2>1. ledger' = [ledger EXCEPT ![r] = "open"]  BY <1>3 DEF LedgerAfter
  <2>2. Ledger!BillingLearns(r)
    BY <1>0, <1>1, <1>2, <1>3, <2>1 DEF Ledger!BillingLearns, Control, Effective
  <2>. QED  BY <1>0, <2>2 DEF Ledger!Next
<1>4. CASE request[1] = "cancel" /\ ledger[r] = "open"
  <2>1. ledger' = [ledger EXCEPT ![r] = "cancelled"]  BY <1>4 DEF LedgerAfter
  <2>2. Ledger!BillingDrops(r)
    BY <1>0, <1>1, <1>4, <2>1 DEF Ledger!BillingDrops, Control, Effective
  <2>. QED  BY <1>0, <2>2 DEF Ledger!Next
<1>5. CASE ~(request[1] = "terms" /\ ledger[r] = "unknown") /\
           ~(request[1] = "cancel" /\ ledger[r] = "open")
  <2>1. ledger \in [Revisions -> {"unknown", "open", "cancelled"}]  BY DEF IInv, TypeOK
  <2>2. request[1] = "cancel" /\ ledger[r] # "unknown" => ledger[r] = "cancelled"
    BY <1>0, <1>5, <2>1
  <2>3. ledger' = ledger  BY <1>0, <1>5, <2>1, <2>2 DEF LedgerAfter
  <2>. QED  BY <1>1, <2>3 DEF Ledger!vars, Control, Effective
<1>. QED  BY <1>3, <1>4, <1>5

\* Initial states map to initial states.
LEMMA InitMaps == Init => Ledger!Init
<1> SUFFICES ASSUME Init PROVE Ledger!Init  OBVIOUS
<1>1. \A r \in Revisions : ~Saved(r) /\ ~rev[r].effective
  BY OutboxAssumption DEF Init, Saved, Revisions, BlankRow
<1>2. \A r \in Revisions : rev[r].effective = FALSE  BY DEF Init, BlankRow
<1>. QED  BY <1>1, <1>2 DEF Init, Ledger!Init

\* Every step maps to a step of the ledger or to a stutter.
LEMMA StepMaps == IInv /\ [Next]_vars => [Ledger!Next]_(Ledger!vars)
<1> SUFFICES ASSUME IInv, [Next]_vars PROVE [Ledger!Next]_(Ledger!vars)  OBVIOUS
<1>0. Facts  BY Basics
<1>20. TypeOK /\ rev \in [Revisions -> Rows]  BY DEF IInv, TypeOK
<1>1. CASE \E a \in Actors : Publish(a)
  <2>0. created + 1 \in Revisions  BY <1>0, <1>1 DEF Publish, Revisions, Facts
  <2>. PICK n \in Revisions : n = created + 1  BY <2>0
  <2>1. PICK now \in BOOLEAN : rev' = [rev EXCEPT ![n].effective = now]
    BY <1>1 DEF Publish
  <2>2. created' = n /\ canc' = canc /\ ledger' = ledger
    BY <1>1 DEF Publish
  <2>3. ~Saved(n) /\ Saved(n)' /\ \A q \in Revisions : q # n => (Saved(q)' <=> Saved(q))
    <3>1. \A q \in Revisions : q \in Nat  BY <1>0 DEF Facts
    <3>2. created \in Nat  BY <1>0 DEF Facts
    <3>. QED  BY <2>2, <3>1, <3>2 DEF Saved
  <2>4. /\ rev'[n].status = "pending" /\ rev'[n].effective = now
        /\ \A q \in Revisions : q # n => rev'[q] = rev[q]
    <3>1. rev[n] = BlankRow  BY <1>0, <2>2, <2>3 DEF IInv, Agreement, Saved, Facts
    <3>. QED  BY <1>20, <2>1, <2>2, <3>1 DEF Rows, BlankRow
  <2>5. Control[n] = "absent" /\ Control' = [Control EXCEPT ![n] = "pending"]
    BY <2>2, <2>3, <2>4 DEF Control
  <2>6. Effective' = [Effective EXCEPT ![n] = now]
    BY <2>2, <2>4 DEF Effective
  <2>7. Ledger!Record(n)
    BY <2>2, <2>5, <2>6 DEF Ledger!Record, Control, Effective
  <2>. QED  BY <2>2, <2>7 DEF Ledger!Next
<1>2. CASE UNCHANGED <<created, rev, canc, ledger>>
  BY <1>2, MappingKept DEF Ledger!vars, Control, Effective
<1>3. CASE /\ UNCHANGED <<created, canc, ledger>>
           /\ \A q \in Revisions : /\ rev'[q].status = rev[q].status
                                   /\ rev'[q].effective = rev[q].effective
  BY <1>3, MappingKept DEF Ledger!vars, Control, Effective
<1>4. ASSUME NEW r \in Revisions, TakesEffect(r) PROVE Ledger!TakesEffect(r)
  <2>1. Saved(r) /\ UNCHANGED <<created, canc, ledger>>
        /\ rev' = [rev EXCEPT ![r].effective = TRUE] /\ rev[r].status # "absent"
    BY <1>4, <1>20 DEF TakesEffect, Rows
  <2>2. /\ rev'[r].effective = TRUE
        /\ \A q \in Revisions : rev'[q].status = rev[q].status
        /\ \A q \in Revisions : q # r => rev'[q] = rev[q]
    BY <1>20, <2>1 DEF Rows
  <2>3. Control' = Control  BY <2>1, <2>2 DEF Control, Saved
  <2>4. Effective' = [Effective EXCEPT ![r] = TRUE]  BY <2>2 DEF Effective
  <2>. QED  BY <2>1, <2>3, <2>4 DEF Ledger!TakesEffect, Control, Effective
<1>5. ASSUME NEW a \in Actors, PostAnswered(a) \/ DropAnswered(a)
      PROVE  [Ledger!Next]_(Ledger!vars)
  <2> DEFINE r == actor[a].rev
  <2>1. r \in Revisions /\ r <= created /\ UNCHANGED <<created, rev, canc>>
    BY <1>0, <1>5 DEF PostAnswered, DropAnswered, Facts
  <2>2. <<"terms", r>> \in Requests /\ <<"cancel", r>> \in Requests
    BY <2>1 DEF Requests
  <2>3. CASE PostAnswered(a)
    <3>1. ledger' = LedgerAfter(<<"terms", r>>)  BY <2>3 DEF PostAnswered
    <3>. QED  BY <2>1, <2>2, <3>1, RequestMaps
  <2>4. CASE DropAnswered(a)
    <3>1. ledger' = LedgerAfter(<<"cancel", r>>) /\ actor[a].pc = "dropping"
      BY <2>4 DEF DropAnswered
    <3>2. canc[r] # "none"  BY <3>1 DEF IInv, Knowledge
    <3>. QED  BY <2>1, <2>2, <3>1, <3>2, RequestMaps
  <2>. QED  BY <1>5, <2>3, <2>4
<1>6. ASSUME NEW request \in wire, Arrives(request) PROVE [Ledger!Next]_(Ledger!vars)
  <2>1. /\ request \in Requests /\ request[2] <= created
        /\ request[1] = "cancel" => canc[request[2]] # "none"
    BY <1>0 DEF Facts, IInv, Agreement
  <2>2. ledger' = LedgerAfter(request) /\ UNCHANGED <<created, rev, canc>>
    BY <1>6 DEF Arrives
  <2>. QED  BY <2>1, <2>2, RequestMaps
<1>7. ASSUME NEW a \in Actors, Complete(a) PROVE [Ledger!Next]_(Ledger!vars)
  <2>0. actor[a].rev \in Revisions /\ actor[a].rev <= created
    BY <1>0, <1>7 DEF Complete, Facts
  <2>. PICK r \in Revisions : r = actor[a].rev  BY <2>0
  <2>1. Saved(r) /\ UNCHANGED <<created, canc, ledger>>
    BY <1>7, <2>0 DEF Complete, Saved
  <2>2. ledger[r] # "unknown"  BY <1>7 DEF Complete, IInv, Knowledge
  <2>3. CASE ~StillClaimed(a)  BY <1>2, <1>7, <2>1, <2>3 DEF Complete
  <2>4. CASE StillClaimed(a)
    <3>1. rev' = [rev EXCEPT ![r] = [@ EXCEPT !.status = "synced", !.claim = 0,
                                              !.lease = "none"]]
      BY <1>7, <2>4 DEF Complete
    <3>2. /\ rev'[r].status = "synced" /\ \A q \in Revisions : q # r => rev'[q] = rev[q]
          /\ \A q \in Revisions : rev'[q].effective = rev[q].effective
      BY <1>20, <2>1, <3>1 DEF Rows
    <3>3. CASE rev[r].status = "synced"  BY <1>3, <2>1, <3>2, <3>3
    <3>4. CASE rev[r].status = "pending"
      <4>1. Control[r] = "pending" /\ Control' = [Control EXCEPT ![r] = "synced"]
        BY <2>1, <3>2, <3>4 DEF Control, Saved
      <4>2. Effective' = Effective  BY <3>2 DEF Effective
      <4>3. Ledger!ControlLearns(r)
        BY <2>1, <2>2, <4>1, <4>2 DEF Ledger!ControlLearns, Control, Effective
      <4>. QED  BY <2>1, <4>3 DEF Ledger!Next
    <3>5. rev[r].status \in {"pending", "synced"}  BY <1>20, <2>1 DEF Rows
    <3>. QED  BY <3>3, <3>4, <3>5
  <2>. QED  BY <2>3, <2>4
<1>8. ASSUME NEW c \in Callers, NEW r \in Revisions, Cancel(c, r) PROVE Ledger!Withdraw(r)
  <2>1. /\ Saved(r) /\ canc[r] = "none" /\ ~rev[r].effective
        /\ rev' = [rev EXCEPT ![r].cancelled = TRUE] /\ rev[r].status # "absent"
        /\ canc' = [canc EXCEPT ![r] = "pending"] /\ UNCHANGED <<created, ledger>>
    BY <1>8, <1>20 DEF Cancel, Rows
  <2>2. \A q \in Revisions : /\ rev'[q].status = rev[q].status
                             /\ rev'[q].effective = rev[q].effective
    BY <1>20, <2>1 DEF Rows
  <2>3. Control' = Control /\ Effective' = Effective  BY <2>1, <2>2, MappingKept
  <2>. QED  BY <2>1, <2>3 DEF Ledger!Withdraw, Control, Effective
<1>9. ASSUME NEW a \in Actors, DropDone(a) PROVE [Ledger!Next]_(Ledger!vars)
  <2> DEFINE r == actor[a].rev
  <2>1. /\ r \in Revisions /\ canc[r] = "pending" /\ ledger[r] = "cancelled"
        /\ canc' = [canc EXCEPT ![r] = "synced"] /\ UNCHANGED <<created, rev, ledger>>
    BY <1>0, <1>9 DEF DropDone, Facts, IInv, Knowledge
  <2>2. Control' = Control /\ Effective' = Effective  BY <2>1, MappingKept
  <2>3. Ledger!WithdrawalSettles(r)
    BY <2>1, <2>2 DEF Ledger!WithdrawalSettles, Control, Effective
  <2>. QED  BY <2>1, <2>3 DEF Ledger!Next
<1>10. ASSUME NEW q \in Revisions, LeaseLapses(q) \/ HolderStalls(q) \/ RevisionDue(q)
       PROVE  [Ledger!Next]_(Ledger!vars)
  <2>1. UNCHANGED <<created, canc, ledger>>
    BY <1>10 DEF LeaseLapses, HolderStalls, RevisionDue
  <2>2. \A p \in Revisions : /\ rev'[p].status = rev[p].status
                             /\ rev'[p].effective = rev[p].effective
    BY <1>10, <1>20 DEF LeaseLapses, HolderStalls, RevisionDue, Rows
  <2>. QED  BY <1>3, <2>1, <2>2
<1>11. ASSUME NEW q \in Revisions, rev' = Claimed(q), UNCHANGED <<created, canc, ledger>>
       PROVE  [Ledger!Next]_(Ledger!vars)
  <2>1. \A p \in Revisions : /\ rev'[p].status = rev[p].status
                             /\ rev'[p].effective = rev[p].effective
    BY <1>11, <1>20 DEF Claimed, Rows
  <2>. QED  BY <1>3, <1>11, <2>1
<1>12. ASSUME NEW a \in Actors, Fail(a) PROVE [Ledger!Next]_(Ledger!vars)
  <2>1. UNCHANGED <<created, canc, ledger>>  BY <1>12 DEF Fail
  <2>2. \A p \in Revisions : /\ rev'[p].status = rev[p].status
                             /\ rev'[p].effective = rev[p].effective
    BY <1>12, <1>20 DEF Fail, Rows
  <2>. QED  BY <1>3, <2>1, <2>2
<1>13. ASSUME NEW a \in Actors, Proceeds(a) PROVE [Ledger!Next]_(Ledger!vars)
  <2>1. CASE ClaimById(a)
    <3>1. actor[a].rev \in Revisions  BY <1>0, <2>1 DEF ClaimById, Facts
    <3>. QED  BY <1>2, <1>11, <2>1, <3>1 DEF ClaimById
  <2>2. CASE DropById(a) \/ DropPutOff(a)  BY <1>2, <2>2 DEF DropById, DropPutOff
  <2>. QED  BY <1>13, <1>5, <1>7, <1>9, <1>12, <2>1, <2>2 DEF Proceeds
<1>14. ASSUME NEW a \in Actors, Misfortune(a) PROVE [Ledger!Next]_(Ledger!vars)
  BY <1>2, <1>14 DEF Misfortune, PostFails, AckNotRecorded, DropFails, Crash
<1>15. ASSUME NEW a \in Actors, NEW r \in Revisions, Republish(a, r)
       PROVE  [Ledger!Next]_(Ledger!vars)
  BY <1>2, <1>15 DEF Republish
<1>16. ASSUME NEW w \in Workers, Run(w) PROVE [Ledger!Next]_(Ledger!vars)
  <2>1. CASE ClaimNext(w)  BY <1>11, <2>1 DEF ClaimNext
  <2>2. CASE Tick(w) \/ DropNext(w) \/ NextPhase(w)
    BY <1>2, <2>2 DEF Tick, DropNext, NextPhase
  <2>. QED  BY <1>16, <2>1, <2>2 DEF Run
<1>17. ASSUME NEW c \in Callers, Request(c) PROVE [Ledger!Next]_(Ledger!vars)
  <2>1. PICK r \in Revisions : Sync(c, r) \/ Cancel(c, r) \/ CancelAgain(c, r)
    BY <1>17 DEF Request
  <2>2. CASE Cancel(c, r)  BY <1>8, <2>2 DEF Ledger!Next
  <2>3. CASE Sync(c, r) \/ CancelAgain(c, r)  BY <1>2, <2>3 DEF Sync, CancelAgain
  <2>. QED  BY <2>1, <2>2, <2>3
<1>18. ASSUME NEW r \in Revisions, Clock(r) PROVE [Ledger!Next]_(Ledger!vars)
  <2>1. CASE TakesEffect(r)  BY <1>4, <2>1 DEF Ledger!Next
  <2>2. CASE CancellationDue(r)  BY <1>2, <2>2 DEF CancellationDue
  <2>. QED  BY <1>10, <1>18, <2>1, <2>2 DEF Clock
<1>19. CASE UNCHANGED vars  BY <1>2, <1>19 DEF vars
<1>. QED
  BY <1>1, <1>6, <1>13, <1>14, <1>15, <1>16, <1>17, <1>18, <1>19 DEF Next

\* The outbox implements what TermsLedger promises.
THEOREM Implementation == Spec => ImplementsLedger
  BY InitMaps, StepMaps, Invariance, PTL DEF Spec, ImplementsLedger, Ledger!Spec
===============================================================================
