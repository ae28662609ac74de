---------------------------- MODULE MailQueuesProofs ----------------------------
(***************************************************************************)
(* Theorems about MailQueues for any number of timers, attempts, faults,   *)
(* changes and retries, with their proofs.                                 *)
(*                                                                         *)
(* A copy is accounted for by a weight that only a fault can raise: the    *)
(* copies that went out, the workers that may yet send one, and whether    *)
(* the mail is open to be claimed, together, exceed one by no more than    *)
(* the faults.  A claim turns the open mail into a worker, a sending turns *)
(* the worker into a copy.  That the weight is inductive needs Lease: the  *)
(* claim of a request stands only while the request is being sent.         *)
(***************************************************************************)
EXTENDS MailQueues, FiniteSetTheorems, TLAPS

\* The workers that may yet send the mail, or give it back.
Engaged == {w \in Workers : worker[w].pc \notin {"idle", "finishing"}}

\* Nobody but a process that died stands between the mail and another claim.
Free == row.status \notin Final /\ (row.leased => ~Held)

Open == IF Free THEN 1 ELSE 0

\* A request is leased only while it is being sent.
Lease == queue = "requests" /\ row.leased => row.status = "sending"

\* Copies, those that may become copies, and an open mail are paid for.
Weight == copies + Cardinality(Engaged) + Open <= 1 + faults

\* Who is about to send what is no longer true had looked before it changed.
Truth == queue = "notices" /\ ~stands => \A w \in Workers : At(w, "sending") => w \in late

\* Only a notice is looked into, and only a notice is dropped.
Path == queue # "notices" => \A w \in Workers :
    /\ worker[w].pc \notin {"checking", "asking", "rechecking"}
    /\ worker[w].pc = "finishing" => worker[w].outcome = "sent"

IInv == TypeOK /\ Lease /\ Weight /\ Path /\ Truth

-------------------------------------------------------------------------------
\* Only one worker moves: the number of engaged ones follows it.
LEMMA OneMoves ==
    ASSUME TypeOK, NEW w \in Workers, NEW s, worker' = [worker EXCEPT ![w] = s]
    PROVE  /\ worker'[w] = s
           /\ \A v \in Workers : v # w => worker'[v] = worker[v]
           /\ Cardinality(Engaged) \in Nat
           /\ Cardinality(Engaged') =
                IF s.pc \notin {"idle", "finishing"}
                THEN IF w \in Engaged THEN Cardinality(Engaged) ELSE Cardinality(Engaged) + 1
                ELSE IF w \in Engaged THEN Cardinality(Engaged) - 1 ELSE Cardinality(Engaged)
<1>1. worker'[w] = s /\ \A v \in Workers : v # w => worker'[v] = worker[v]
  BY DEF TypeOK
<1>2. IsFiniteSet(Engaged) /\ Cardinality(Engaged) \in Nat
  BY MailAssumption, FS_Subset, FS_CardinalityType DEF Engaged
<1>3. CASE s.pc \notin {"idle", "finishing"}
  <2>1. Engaged' = Engaged \cup {w}  BY <1>1, <1>3 DEF Engaged
  <2>. QED  BY <1>1, <1>2, <1>3, <2>1, FS_AddElement
<1>4. CASE s.pc \in {"idle", "finishing"}
  <2>1. Engaged' = Engaged \ {w}  BY <1>1, <1>4 DEF Engaged
  <2>. QED  BY <1>1, <1>2, <1>4, <2>1, FS_RemoveElement
<1>. QED  BY <1>3, <1>4

\* Nobody moves.
LEMMA NobodyMoves ==
    ASSUME TypeOK, UNCHANGED worker
    PROVE  Engaged' = Engaged /\ Cardinality(Engaged) \in Nat
BY MailAssumption, FS_Subset, FS_CardinalityType DEF Engaged

\* Every fault is counted within its bound.
LEMMA Counted == ASSUME TypeOK, Fault PROVE faults' \in 0..MaxFaults /\ faults' = faults + 1
BY MailAssumption DEF TypeOK, Fault

\* What a worker at a step is known to be.
LEMMA WorkerTypes ==
    ASSUME TypeOK, NEW w \in Workers
    PROVE  /\ worker[w].pc \in {"checking", "asking", "rechecking", "sending", "failing"}
                => worker[w] # Idle /\ worker[w].attempt \in Nat
           /\ worker[w].pc = "finishing"
                => worker[w] # Idle /\ worker[w].attempt \in Nat /\ worker[w].outcome \in Final
           /\ worker[w].pc = "idle" <=> worker[w] = Idle
BY DEF TypeOK, Idle, Busy, Done

\* The initial states satisfy the invariant.
LEMMA InitIInv == Init => IInv
<1>. SUFFICES ASSUME Init PROVE IInv  OBVIOUS
<1>1. TypeOK
  BY MailAssumption DEF Init, TypeOK, StatusesOf
<1>2. Engaged = {}  BY DEF Init, Engaged, Idle
<1>3. Weight
  BY <1>2, FS_EmptySet DEF Init, Weight, Open
<1>4. Lease /\ Path /\ Truth  BY DEF Init, Lease, Path, Truth, Idle
<1>. QED  BY <1>1, <1>3, <1>4 DEF IInv

-------------------------------------------------------------------------------
\* A worker goes on to another step, or to what became of the mail, under the
\* same attempt: the types of the others stand, and so does the claim.
LEMMA GoesOn ==
    ASSUME TypeOK, NEW w \in Workers, worker[w] # Idle, NEW s \in Busy \cup Done,
           s.attempt = worker[w].attempt, worker' = [worker EXCEPT ![w] = s], row' = row
    PROVE  worker' \in [Workers -> {Idle} \cup Busy \cup Done] /\ Held' = Held
<1>1. worker' \in [Workers -> {Idle} \cup Busy \cup Done]  BY DEF TypeOK
<1>2. s # Idle  BY DEF Idle, Busy, Done
<1>3. \A v \in Workers : /\ worker'[v] # Idle <=> worker[v] # Idle
                         /\ worker[v] # Idle => worker'[v].attempt = worker[v].attempt
  BY <1>2
<1>. QED  BY <1>1, <1>3 DEF Held

\* A worker claims the mail: it was open, and is now engaged.
LEMMA ClaimKeeps == ASSUME IInv, NEW w \in Workers, Claim(w) PROVE IInv'
<1>0. TypeOK  BY DEF IInv
<1> DEFINE s == [pc |-> IF queue = "notices" THEN "checking" ELSE "sending",
                 attempt |-> row.attempts + 1]
<1>1. /\ s \in Busy
      /\ s.pc \notin {"idle", "finishing"}
      /\ s.pc = IF queue = "notices" THEN "checking" ELSE "sending"
      /\ s.attempt = row.attempts + 1
  BY <1>0 DEF TypeOK, Busy
<1>2. worker' = [worker EXCEPT ![w] = s]  BY DEF Claim
<1> HIDE DEF s
<1>3. row.status \in {"pending", "sending"} /\ ~row.leased  BY DEF Claim, Claimable
<1>4. row' \in [status : StatusesOf(queue), attempts : Nat, leased : BOOLEAN, due : BOOLEAN]
      /\ row'.leased /\ row'.attempts = row.attempts + 1
  <2>1. row.attempts \in Nat /\ row.due \in BOOLEAN /\ queue \in {"notices", "terminations", "requests"}
    BY <1>0, MailAssumption DEF TypeOK
  <2>2. (IF queue = "requests" THEN "sending" ELSE row.status) \in StatusesOf(queue)
    BY <1>0 DEF TypeOK, StatusesOf
  <2>3. row' = [row EXCEPT !.status = IF queue = "requests" THEN "sending" ELSE @,
                           !.leased = TRUE, !.attempts = @ + 1]
    BY DEF Claim, Taken
  <2> DEFINE St == IF queue = "requests" THEN "sending" ELSE row.status
  <2>4. row' = [row EXCEPT !.status = St, !.leased = TRUE, !.attempts = row.attempts + 1]
    BY <2>3
  <2>5. row.attempts + 1 \in Nat  BY <2>1
  <2>. QED  BY <1>0, <2>2, <2>4, <2>5 DEF TypeOK
<1>5. TypeOK'
  BY <1>0, <1>1, <1>2, <1>4 DEF TypeOK, Claim
<1>6. Lease'  BY DEF Claim, Taken, Lease
<1>7. Open = 1  BY <1>3 DEF Open, Free, Final
<1>8. /\ worker'[w] = s /\ \A v \in Workers : v # w => worker'[v] = worker[v]
      /\ w \notin Engaged /\ worker'[w] # Idle
  <2>1. worker'[w] = s /\ \A v \in Workers : v # w => worker'[v] = worker[v]
    BY <1>0, <1>2, OneMoves
  <2>2. w \notin Engaged  BY DEF Claim, Engaged, Idle
  <2>3. s # Idle  BY <1>1 DEF Idle
  <2>. QED  BY <2>1, <2>2, <2>3
<1>9. Open' = 0  BY <1>1, <1>4, <1>8 DEF Open, Free, Held
<1>10. Cardinality(Engaged') = Cardinality(Engaged) + 1 /\ Cardinality(Engaged) \in Nat
  BY <1>0, <1>1, <1>2, <1>8, OneMoves
<1>11. Weight'
  BY <1>7, <1>9, <1>10 DEF IInv, TypeOK, Weight, Claim
<1>12. Truth'
  BY <1>8 DEF IInv, Truth, Claim, At
<1>13. Path'
  BY DEF IInv, Path, Claim
<1>. QED  BY <1>5, <1>6, <1>11, <1>12, <1>13 DEF IInv

\* A worker that goes on, to a step before the sending or to the end.
LEMMA StepKeeps ==
    ASSUME IInv, NEW w \in Workers, WorkerOnly, w \in Engaged,
           Goes(w, "asking") \/ Goes(w, "rechecking")
             \/ (Goes(w, "sending") /\ stands)
             \/ \E how \in Final : Ends(w, how),
           queue = "notices"
    PROVE  IInv'
<1>0. TypeOK  BY DEF IInv
<1>1. worker[w] # Idle /\ worker[w].attempt \in Nat
  BY <1>0, WorkerTypes DEF Engaged, TypeOK, Busy, Done
<1>2. PICK s \in Busy \cup Done : /\ worker' = [worker EXCEPT ![w] = s]
                                  /\ s.attempt = worker[w].attempt
                                  /\ s.pc = "sending" => stands
                                  /\ s.pc = "finishing" /\ s.outcome # "sent" => queue = "notices"
                                  /\ s.pc \in {"checking", "asking", "rechecking"} => queue = "notices"
  <2>1. CASE \E how \in Final : Ends(w, how)
    <3>1. PICK how \in Final : Ends(w, how)  BY <2>1
    <3> DEFINE d == [pc |-> "finishing", attempt |-> worker[w].attempt, outcome |-> how]
    <3>2. d \in Done /\ d.pc = "finishing" /\ d.attempt = worker[w].attempt
      BY <1>1 DEF Done
    <3>3. worker' = [worker EXCEPT ![w] = d]  BY <3>1 DEF Ends
    <3> HIDE DEF d
    <3>. QED  BY <3>2, <3>3
  <2>2. ASSUME NEW pc \in {"asking", "rechecking", "sending"}, Goes(w, pc), pc = "sending" => stands
        PROVE  \E s \in Busy \cup Done :
                  /\ worker' = [worker EXCEPT ![w] = s]
                  /\ s.attempt = worker[w].attempt
                  /\ s.pc = "sending" => stands
                  /\ s.pc = "finishing" /\ s.outcome # "sent" => queue = "notices"
                  /\ s.pc \in {"checking", "asking", "rechecking"} => queue = "notices"
    <3> DEFINE b == [pc |-> pc, attempt |-> worker[w].attempt]
    <3>1. b \in Busy /\ b.pc = pc /\ b.attempt = worker[w].attempt  BY <1>1 DEF Busy
    <3>2. worker' = [worker EXCEPT ![w] = b]  BY <2>2 DEF Goes
    <3> HIDE DEF b
    <3>. QED  BY <2>2, <3>1, <3>2
  <2>3. CASE Goes(w, "asking")
    <3>1. "asking" # "sending"  OBVIOUS
    <3>. QED  BY <2>2, <2>3
  <2>4. CASE Goes(w, "rechecking")
    <3>1. "rechecking" # "sending"  OBVIOUS
    <3>. QED  BY <2>2, <2>4
  <2>5. CASE Goes(w, "sending") /\ stands  BY <2>2, <2>5
  <2>. QED  BY <2>1, <2>3, <2>4, <2>5
<1>3. worker' \in [Workers -> {Idle} \cup Busy \cup Done] /\ Held' = Held
  BY <1>0, <1>1, <1>2, GoesOn DEF WorkerOnly
<1>4. TypeOK'  BY <1>0, <1>3 DEF TypeOK, WorkerOnly
<1>5. Lease'  BY DEF Lease, WorkerOnly
<1>6. Open' = Open  BY <1>3 DEF Open, Free, WorkerOnly
<1>7. Cardinality(Engaged') <= Cardinality(Engaged) /\ Cardinality(Engaged) \in Nat
      /\ Cardinality(Engaged') \in Int
  <2>1. Cardinality(Engaged) \in Nat  BY <1>0, <1>2, OneMoves
  <2>2. Cardinality(Engaged') \in {Cardinality(Engaged), Cardinality(Engaged) - 1}
    BY <1>0, <1>2, OneMoves
  <2>. QED  BY <2>1, <2>2
<1>8. Weight'
  BY <1>6, <1>7 DEF IInv, TypeOK, Weight, WorkerOnly, Open
<1>9. Truth'
  BY <1>2 DEF IInv, Truth, WorkerOnly, At
<1>10. Path'
  BY DEF Path, WorkerOnly
<1>. QED  BY <1>4, <1>5, <1>8, <1>9, <1>10 DEF IInv

LEMMA CheckKeeps == ASSUME IInv, NEW w \in Workers, Check(w) PROVE IInv'
BY StepKeeps DEF IInv, Path, Check, At, Engaged, Final

LEMMA AskKeeps == ASSUME IInv, NEW w \in Workers, Ask(w) PROVE IInv'
BY StepKeeps DEF IInv, Path, Ask, At, Engaged, Final

LEMMA RecheckKeeps == ASSUME IInv, NEW w \in Workers, Recheck(w) PROVE IInv'
BY StepKeeps DEF IInv, Path, Recheck, StillTrue, At, Engaged, Final

\* The mail goes out: an engaged worker became a copy.
LEMMA SendKeeps == ASSUME IInv, NEW w \in Workers, Send(w) PROVE IInv'
<1>0. TypeOK  BY DEF IInv
<1> DEFINE s == [pc |-> "finishing", attempt |-> worker[w].attempt, outcome |-> "sent"]
<1>1. worker[w] # Idle /\ worker[w].attempt \in Nat /\ w \in Engaged
  BY <1>0, WorkerTypes DEF Send, At, Engaged
<1>2. /\ s \in Done /\ s.pc = "finishing" /\ s.outcome = "sent"
      /\ s.attempt = worker[w].attempt /\ worker' = [worker EXCEPT ![w] = s]
  BY <1>1 DEF Send, Ends, Done, Final
<1> HIDE DEF s
<1>3. worker' \in [Workers -> {Idle} \cup Busy \cup Done] /\ Held' = Held
  BY <1>0, <1>1, <1>2, GoesOn DEF Send
<1>4. TypeOK'  BY <1>0, <1>3 DEF TypeOK, Send
<1>5. Lease'  BY DEF IInv, Lease, Send
<1>6. Open' = Open  BY <1>3 DEF Open, Free, Send
<1>7. Cardinality(Engaged') = Cardinality(Engaged) - 1 /\ Cardinality(Engaged) \in Nat
  BY <1>0, <1>1, <1>2, OneMoves
<1>8. Weight'
  BY <1>6, <1>7 DEF IInv, TypeOK, Weight, Send
<1>9. Truth'
  BY <1>2 DEF IInv, Truth, Send, At
<1>10. Path'
  <2>1. worker'[w] = s /\ \A v \in Workers : v # w => worker'[v] = worker[v]
    BY <1>0, <1>2, OneMoves
  <2>. QED  BY <1>2 DEF IInv, Path, Send
<1>. QED  BY <1>4, <1>5, <1>8, <1>9, <1>10 DEF IInv

\* What became of the mail is written, under the number of the attempt or not
\* at all; nobody was counted on.
LEMMA FinishKeeps == ASSUME IInv, NEW w \in Workers, Finish(w) PROVE IInv'
<1>0. TypeOK  BY DEF IInv
<1>1. /\ worker[w] # Idle /\ worker[w].attempt \in Nat /\ worker[w].outcome \in Final
      /\ w \notin Engaged
  BY <1>0, WorkerTypes DEF Finish, At, Engaged
<1>2. worker' = [worker EXCEPT ![w] = Idle]  BY DEF Finish
<1>3. /\ worker'[w] = Idle /\ \A v \in Workers : v # w => worker'[v] = worker[v]
      /\ Cardinality(Engaged') = Cardinality(Engaged) /\ Cardinality(Engaged) \in Nat
  BY <1>0, <1>1, <1>2, OneMoves DEF Idle
<1>4. /\ row' \in [status : StatusesOf(queue), attempts : Nat, leased : BOOLEAN, due : BOOLEAN]
      /\ row'.leased => row.leased /\ row'.status = row.status
      /\ Open' <= Open
  <2>1. CASE Fenced(w)
    <3>1. row' = [row EXCEPT !.status = worker[w].outcome, !.leased = FALSE]
      BY <2>1 DEF Finish
    <3>2. worker[w].outcome \in StatusesOf(queue)
      BY <1>1 DEF IInv, Path, StatusesOf, Finish, At
    <3>3. /\ row' \in [status : StatusesOf(queue), attempts : Nat, leased : BOOLEAN, due : BOOLEAN]
          /\ row'.status \in Final /\ ~row'.leased
      BY <1>0, <1>1, <3>1, <3>2 DEF TypeOK
    <3>4. Open' = 0  BY <3>3 DEF Open, Free
    <3>. QED  BY <3>3, <3>4 DEF Open
  <2>2. CASE ~Fenced(w)
    <3>1. row' = row  BY <2>2 DEF Finish
    <3>2. row.leased => row.attempts # worker[w].attempt  BY <2>2 DEF Fenced, IInv, Lease
    <3>3. row.leased => (Held' <=> Held)  BY <1>3, <3>1, <3>2 DEF Held
    <3>4. Open' = Open  BY <3>1, <3>3 DEF Open, Free
    <3>. QED  BY <1>0, <3>1, <3>4 DEF Open, TypeOK
  <2>. QED  BY <2>1, <2>2
<1>5. TypeOK'  BY <1>0, <1>4 DEF TypeOK, Finish
<1>6. Lease'  BY DEF IInv, Lease, Finish
<1>7. Weight'
  BY <1>3, <1>4 DEF IInv, TypeOK, Weight, Finish, Open
<1>8. Truth' /\ Path'
  BY DEF IInv, Truth, Path, Finish, At, Idle
<1>. QED  BY <1>5, <1>6, <1>7, <1>8 DEF IInv

\* The mail is given back for another try, or parked.
LEMMA FailKeeps == ASSUME IInv, NEW w \in Workers, Fail(w) PROVE IInv'
<1>0. TypeOK  BY DEF IInv
<1>1. worker[w] # Idle /\ w \in Engaged
  BY <1>0, WorkerTypes DEF Fail, At, Engaged
<1>2. worker' = [worker EXCEPT ![w] = Idle]  BY DEF Fail
<1>3. /\ worker'[w] = Idle /\ \A v \in Workers : v # w => worker'[v] = worker[v]
      /\ Cardinality(Engaged') = Cardinality(Engaged) - 1 /\ Cardinality(Engaged) \in Nat
  BY <1>0, <1>1, <1>2, OneMoves DEF Idle
<1>4. /\ row' \in [status : StatusesOf(queue), attempts : Nat, leased : BOOLEAN, due : BOOLEAN]
      /\ row'.leased => row.leased /\ row'.status = row.status
  <2>1. CASE Fenced(w)
    <3> DEFINE St == IF queue # "requests" THEN row.status
                     ELSE IF row.attempts >= Cap THEN "failed" ELSE "pending"
    <3>1. row' = [row EXCEPT !.leased = FALSE, !.due = FALSE, !.status = St]
      BY <2>1 DEF Fail, Failed
    <3>2. St \in StatusesOf(queue)  BY <1>0 DEF TypeOK, StatusesOf
    <3>. QED  BY <1>0, <3>1, <3>2 DEF TypeOK
  <2>2. CASE ~Fenced(w)  BY <1>0, <2>2 DEF TypeOK, Fail
  <2>. QED  BY <2>1, <2>2
<1>5. TypeOK'  BY <1>0, <1>4 DEF TypeOK, Fail
<1>6. Lease'  BY <1>4 DEF IInv, Lease, Fail
<1>7. Weight'
  BY <1>3 DEF IInv, TypeOK, Weight, Fail, Open
<1>8. Truth' /\ Path'
  BY DEF IInv, Truth, Path, Fail, At, Idle
<1>. QED  BY <1>5, <1>6, <1>7, <1>8 DEF IInv

\* A call fails: the fault pays for the copy that may be out, or for the worker
\* that does not know that the mail is.
LEMMA CallFailsKeeps == ASSUME IInv, NEW w \in Workers, CallFails(w) PROVE IInv'
<1>0. TypeOK  BY DEF IInv
<1> DEFINE s == [pc |-> "failing", attempt |-> worker[w].attempt]
<1>1. worker[w] # Idle /\ worker[w].attempt \in Nat
  BY <1>0, WorkerTypes DEF CallFails
<1>2. /\ s \in Busy /\ s.pc = "failing" /\ s.attempt = worker[w].attempt
      /\ worker' = [worker EXCEPT ![w] = s]
  BY <1>1 DEF CallFails, Goes, Busy
<1> HIDE DEF s
<1>3. worker' \in [Workers -> {Idle} \cup Busy \cup Done] /\ Held' = Held
  BY <1>0, <1>1, <1>2, GoesOn DEF CallFails
<1>4. faults' \in 0..MaxFaults /\ faults' = faults + 1  BY <1>0, Counted DEF CallFails
<1>5. TypeOK'  BY <1>0, <1>3, <1>4 DEF TypeOK, CallFails
<1>6. Lease'  BY DEF IInv, Lease, CallFails
<1>7. Open' = Open  BY <1>3 DEF Open, Free, CallFails
<1>8. copies' + Cardinality(Engaged') <= copies + Cardinality(Engaged) + 1
      /\ Cardinality(Engaged) \in Nat /\ Cardinality(Engaged') \in Int
  <2>1. CASE w \in Engaged
    <3>1. Cardinality(Engaged') = Cardinality(Engaged) /\ Cardinality(Engaged) \in Nat
      BY <1>0, <1>2, <2>1, OneMoves
    <3>. QED  BY <1>0, <3>1 DEF CallFails, TypeOK
  <2>2. CASE w \notin Engaged
    <3>1. Cardinality(Engaged') = Cardinality(Engaged) + 1 /\ Cardinality(Engaged) \in Nat
      BY <1>0, <1>2, <2>2, OneMoves
    <3>2. copies' = copies  BY <2>2 DEF CallFails, Engaged, At
    <3>. QED  BY <1>0, <3>1, <3>2 DEF TypeOK
  <2>. QED  BY <2>1, <2>2
<1>9. Weight'
  BY <1>4, <1>5, <1>7, <1>8 DEF IInv, TypeOK, Weight, Open
<1>10. Truth' /\ Path'
  BY <1>2 DEF IInv, Truth, Path, CallFails, At
<1>. QED  BY <1>5, <1>6, <1>9, <1>10 DEF IInv

\* A process dies: the fault pays for the claim it leaves behind.
LEMMA CrashKeeps == ASSUME IInv, NEW w \in Workers, Crash(w) PROVE IInv'
<1>0. TypeOK  BY DEF IInv
<1>1. worker' = [worker EXCEPT ![w] = Idle]  BY DEF Crash
<1>2. /\ worker'[w] = Idle /\ \A v \in Workers : v # w => worker'[v] = worker[v]
      /\ Cardinality(Engaged) \in Nat
      /\ Cardinality(Engaged') \in {Cardinality(Engaged), Cardinality(Engaged) - 1}
  BY <1>0, <1>1, OneMoves DEF Idle
<1>3. faults' \in 0..MaxFaults /\ faults' = faults + 1  BY <1>0, Counted DEF Crash
<1>4. TypeOK'  BY <1>0, <1>3 DEF TypeOK, Crash
<1>5. Weight'
  BY <1>2, <1>3 DEF IInv, TypeOK, Weight, Crash, Open
<1>6. Lease' /\ Truth' /\ Path'
  BY DEF IInv, Lease, Truth, Path, Crash, At, Idle
<1>. QED  BY <1>4, <1>5, <1>6 DEF IInv

-------------------------------------------------------------------------------
\* Two minutes are over: under a worker, that is a fault; else the mail was open.
LEMMA LapseKeeps == ASSUME IInv, Lapse PROVE IInv'
<1>0. TypeOK  BY DEF IInv
<1>1. row' = [row EXCEPT !.leased = FALSE]  BY DEF Lapse
<1>2. Engaged' = Engaged /\ Cardinality(Engaged) \in Nat
  BY <1>0, NobodyMoves DEF Lapse
<1>3. faults' \in 0..MaxFaults  BY <1>0, Counted DEF Lapse, TypeOK
<1>4. TypeOK'  BY <1>0, <1>3 DEF TypeOK, Lapse
<1>5. row'.status = row.status /\ ~row'.leased  BY <1>1
<1>6. Weight'
  <2>1. CASE Held
    <3>1. faults' = faults + 1  BY <1>0, <2>1, Counted DEF Lapse
    <3>. QED  BY <1>2, <3>1 DEF IInv, TypeOK, Weight, Lapse, Open
  <2>2. CASE ~Held
    <3>1. Open' = Open  BY <1>5, <2>2 DEF Open, Free
    <3>. QED  BY <1>2, <2>2, <3>1 DEF IInv, Weight, Lapse
  <2>. QED  BY <2>1, <2>2
<1>7. Lease' /\ Truth' /\ Path'
  BY DEF IInv, Lease, Truth, Path, Lapse, At
<1>. QED  BY <1>4, <1>6, <1>7 DEF IInv

\* The mail is put in its queue, or becomes due.
LEMMA RowKeeps == ASSUME IInv, Submit \/ Due PROVE IInv'
<1>0. TypeOK  BY DEF IInv
<1>1. queue \in {"notices", "terminations", "requests"}  BY <1>0, MailAssumption DEF TypeOK
<1>2. /\ row' \in [status : StatusesOf(queue), attempts : Nat, leased : BOOLEAN, due : BOOLEAN]
      /\ row'.leased = row.leased /\ row'.attempts = row.attempts
      /\ row'.status = row.status \/ (row.status = "none" /\ row'.status = "pending")
  BY <1>0 DEF TypeOK, Submit, Due, StatusesOf
<1>3. Engaged' = Engaged /\ Cardinality(Engaged) \in Nat
  BY <1>0, NobodyMoves DEF Submit, Due, RowOnly
<1>4. TypeOK'  BY <1>0, <1>2 DEF TypeOK, Submit, Due, RowOnly
<1>5. Held' = Held  BY <1>2 DEF Held, Submit, Due, RowOnly
<1>6. Open' = Open  BY <1>2, <1>5 DEF Open, Free, Final
<1>7. Weight'  BY <1>3, <1>6 DEF IInv, Weight, Submit, Due, RowOnly
<1>8. Lease'  BY <1>2 DEF IInv, Lease, Submit, Due, RowOnly
<1>9. Truth' /\ Path'  BY DEF IInv, Truth, Path, Submit, Due, RowOnly, At
<1>. QED  BY <1>4, <1>7, <1>8, <1>9 DEF IInv

\* A parked mail is open: nobody holds a lease of it.
LEMMA RetryKeeps == ASSUME IInv, Retry PROVE IInv'
<1>0. TypeOK  BY DEF IInv
<1>1. queue = "requests" /\ ~row.leased
  BY DEF IInv, TypeOK, Lease, Retry, StatusesOf, Final
<1>2. row' = [row EXCEPT !.status = "pending", !.attempts = 0, !.due = TRUE]  BY DEF Retry
<1>3. /\ row' \in [status : StatusesOf(queue), attempts : Nat, leased : BOOLEAN, due : BOOLEAN]
      /\ ~row'.leased
  BY <1>0, <1>1, <1>2 DEF TypeOK, StatusesOf
<1>4. retries' \in 0..MaxRetries  BY <1>0, MailAssumption DEF TypeOK, Retry
<1>5. TypeOK'  BY <1>0, <1>3, <1>4 DEF TypeOK, Retry
<1>6. Engaged' = Engaged /\ Cardinality(Engaged) \in Nat  BY <1>0, NobodyMoves DEF Retry
<1>7. Open = 1  BY <1>1 DEF Open, Free, Final, Retry
<1>8. Weight'  BY <1>6, <1>7 DEF IInv, TypeOK, Weight, Retry, Open
<1>9. Lease' /\ Truth' /\ Path'
  BY DEF IInv, Lease, Truth, Path, Retry, At
<1>. QED  BY <1>5, <1>8, <1>9 DEF IInv

\* The customer or the contract changes; the mail does not.
LEMMA OutsideKeeps == ASSUME IInv, StateChanges \/ Ended PROVE IInv'
<1>0. TypeOK  BY DEF IInv
<1>1. UNCHANGED <<queue, row, wants, worker, copies, retries, faults>>
  BY DEF StateChanges, Ended
<1>2. /\ stands' \in BOOLEAN /\ active' \in BOOLEAN /\ late' \in SUBSET Workers
      /\ changes' \in 0..MaxChanges
  <2>1. CASE StateChanges
    <3>1. late' \in SUBSET Workers /\ stands' \in BOOLEAN  BY <2>1 DEF StateChanges
    <3>2. changes' \in 0..MaxChanges
      BY <1>0, <2>1, MailAssumption DEF TypeOK, StateChanges
    <3>. QED  BY <1>0, <2>1, <3>2 DEF TypeOK, StateChanges
  <2>2. CASE Ended  BY <1>0, <2>2 DEF TypeOK, Ended
  <2>. QED  BY <2>1, <2>2
<1>3. TypeOK'  BY <1>0, <1>1, <1>2 DEF TypeOK
<1>4. Engaged' = Engaged /\ Open' = Open  BY <1>1 DEF Engaged, Open, Free, Held
<1>5. Lease' /\ Weight' /\ Path'
  BY <1>1, <1>4 DEF IInv, Lease, Weight, Path
<1>6. Truth'
  BY DEF IInv, Truth, StateChanges, Ended, At
<1>. QED  BY <1>3, <1>5, <1>6 DEF IInv

\* No step breaks the invariant.
LEMMA NextKeeps == ASSUME IInv, [Next]_vars PROVE IInv'
<1>1. ASSUME NEW w \in Workers, Claim(w) \/ Works(w) \/ CallFails(w) \/ Crash(w)
      PROVE  IInv'
  BY <1>1, ClaimKeeps, CheckKeeps, AskKeeps, RecheckKeeps, SendKeeps, FinishKeeps, FailKeeps,
     CallFailsKeeps, CrashKeeps
     DEF Works
<1>2. CASE Submit \/ Lapse \/ Due \/ Retry \/ StateChanges \/ Ended
  BY <1>2, RowKeeps, LapseKeeps, RetryKeeps, OutsideKeeps
<1>3. CASE UNCHANGED vars
  <2>1. TypeOK'  BY <1>3 DEF IInv, TypeOK, vars
  <2>2. Engaged' = Engaged /\ Open' = Open  BY <1>3 DEF vars, Engaged, Open, Free, Held
  <2>. QED  BY <1>3, <2>1, <2>2 DEF IInv, Lease, Weight, Path, Truth, vars, At
<1>. QED  BY <1>1, <1>2, <1>3 DEF Next

THEOREM Invariant == Spec => []IInv
BY InitIInv, NextKeeps, PTL DEF Spec

-------------------------------------------------------------------------------
\* In every reachable state the mail, its claim and the workers have their
\* types: a request is never in a state its column does not know.
THEOREM TypeCorrect == Spec => []TypeOK
<1>1. IInv => TypeOK  BY DEF IInv
<1>. QED  BY Invariant, <1>1, PTL

\* A mail goes out no more than once more than calls failed, processes died
\* and claims lapsed under their holders, whatever the attempts, the timers
\* that share the table and the manual retries.
THEOREM CopiesArePaidFor == Spec => []CopiesPaidFor
<1>1. IInv => CopiesPaidFor
  <2>. SUFFICES ASSUME IInv PROVE CopiesPaidFor  OBVIOUS
  <2>1. TypeOK /\ Weight  BY DEF IInv
  <2>2. Cardinality(Engaged) \in Nat
    BY MailAssumption, FS_Subset, FS_CardinalityType DEF Engaged
  <2>. QED  BY <2>1, <2>2 DEF TypeOK, Weight, CopiesPaidFor, Open
<1>. QED  BY Invariant, <1>1, PTL

\* A notice that is no longer true leaves only from a worker that was already
\* handing it to the mail server when that changed.
THEOREM NoticesStayTrue == Spec => NoticesAreTrue
<1>1. IInv /\ [Next]_vars =>
        [\A w \in Workers :
            queue = "notices" /\ ~stands /\ At(w, "sending") /\ copies' # copies
                /\ worker'[w] # worker[w]
            => w \in late]_vars
  BY DEF IInv, Truth
<1>. QED  BY Invariant, <1>1, PTL DEF Spec, NoticesAreTrue
================================================================================
