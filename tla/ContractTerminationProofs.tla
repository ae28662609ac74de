----------------------- MODULE ContractTerminationProofs -----------------------
(***************************************************************************)
(* Theorems about ContractTermination for any number of timers and         *)
(* handlers, any horizon and any number of faults, with their proofs.      *)
(*                                                                         *)
(* IInv is inductive.  The lock of the contract excludes (Exclusion), so   *)
(* that what an actor has read under it remains true until it commits      *)
(* (Knowledge); the rows then agree with each other and with Billing       *)
(* (Agreement).  What outlives its sender is accounted for as well: a late *)
(* request to revoke is never too early (LateRevoke), a late notice of the *)
(* end is about a recorded end (LateEnd), and without issuers              *)
(* nothing makes a license active again (Unissued).                        *)
(***************************************************************************)
EXTENDS ContractTermination, TLAPS

\* The lock of the contract excludes.
Exclusion == \A a, b \in Actors :
    actor[a] \in InTransaction /\ actor[b] \in InTransaction => a = b

\* What an actor knows at each of its steps, as long as no license issue has
\* written the contract back.
Knowledge == plan # "saved" => \A a \in Actors :
    /\ actor[a] = "asking" => term.status = "none" /\ status = "ativo"
    /\ actor[a] \in {"telling", "told", "revoking", "revoked"} => term.status = "scheduled"
    /\ actor[a] \in {"told", "revoking", "revoked"} => billing = "ended"
    /\ actor[a] \in {"revoking", "revoked"} => now >= term.effective
    /\ actor[a] = "closed" => status = "encerrado"

\* What the rows say of each other and of Billing.
Agreement == plan # "saved" =>
    /\ term.billed => billing = "ended"
    /\ term.status = "completed" => /\ status = "encerrado"
                                    /\ enrollment \in {"none", "ended"}
                                    /\ now >= term.effective
                                    /\ billing = "ended"
    /\ enrollment = "ended" => term.status = "completed"
    /\ status = "encerrado" /\ enrollment # "none" => term.status = "completed"
    /\ status \notin {"ativo", "encerrado"} => term.status = "none" /\ enrollment = "none"

\* An abandoned notice of the end is about an end that was recorded.
LateEnd == plan # "saved" /\ "end" \in wire => term.status # "none"

\* An abandoned request to revoke is no longer too early.
LateRevoke ==
    plan # "saved" /\ "revoke" \in wire =>
        \/ status = "encerrado"
        \/ term.status # "none" /\ now >= term.effective

\* Without issuers nothing makes the license active again.
Unissued ==
    Issuers = {} =>
        /\ plan # "saved"
        /\ "activate" \notin wire
        /\ \A a \in Actors : /\ actor[a] \notin {"looking", "saving", "issuing"}
                             /\ actor[a] = "revoked" => license # "active"
        /\ term.status = "completed" => license # "active"

IInv == /\ TypeOK /\ Exclusion /\ Knowledge /\ Agreement
        /\ LateRevoke /\ LateEnd /\ Unissued

-------------------------------------------------------------------------------
\* An actor moves, and no other one does.
LEMMA Moves ==
    ASSUME TypeOK, NEW a \in Actors, NEW step \in Steps, Goto(a, step)
    PROVE  /\ actor' \in [Actors -> Steps]
           /\ actor'[a] = step
           /\ \A b \in Actors : b # a => actor'[b] = actor[b]
BY DEF TypeOK, Goto

\* Every fault is counted within its bound.
LEMMA Counted == ASSUME TypeOK, Fault PROVE faults' \in 0..MaxFaults
BY TerminationAssumption DEF TypeOK, Fault

\* The initial states satisfy the invariant.
LEMMA InitIInv == Init => IInv
<1>. SUFFICES ASSUME Init PROVE IInv  OBVIOUS
<1>1. TypeOK
  BY TerminationAssumption DEF Init, TypeOK, Times, Statuses, Enrollments, Terms, NoTerm, Steps
<1>2. \A a \in Actors : actor[a] = "idle"  BY DEF Init
<1>3. Exclusion /\ Knowledge  BY <1>2 DEF Exclusion, Knowledge, InTransaction
<1>4. Agreement /\ LateRevoke /\ LateEnd /\ Unissued
  BY DEF Init, Agreement, LateRevoke, LateEnd, Unissued, NoTerm
<1>. QED  BY <1>1, <1>3, <1>4 DEF IInv

\* A request begins.
LEMMA RequestEndKeeps == ASSUME IInv, NEW a \in Callers, RequestEnd(a) PROVE IInv'
<1>0. TypeOK /\ a \in Actors  BY DEF IInv, Actors
<1>1. PICK step \in Steps : Goto(a, step)  BY DEF RequestEnd, Steps
<1>2. /\ actor' \in [Actors -> Steps]
      /\ actor'[a] = step
      /\ \A b \in Actors : b # a => actor'[b] = actor[b]
  BY <1>0, <1>1, Moves
<1>3. TypeOK'  BY <1>0, <1>2 DEF RequestEnd, TypeOK
<1>4. Exclusion'  BY <1>2 DEF RequestEnd, Exclusion, Locked
<1>5. Knowledge'  BY <1>1 DEF IInv, RequestEnd, Goto, Knowledge
<1>6. Agreement'  BY DEF IInv, RequestEnd, Agreement
<1>7. LateRevoke' /\ LateEnd'
  BY DEF IInv, RequestEnd, LateRevoke, LateEnd
<1>8. Unissued'  BY <1>1 DEF IInv, RequestEnd, Goto, Unissued
<1>. QED  BY <1>3, <1>4, <1>5, <1>6, <1>7, <1>8 DEF IInv

\* A termination is recorded.
LEMMA EndRecordedKeeps == ASSUME IInv, NEW a \in Actors, EndRecorded(a) PROVE IInv'
<1>0. TypeOK /\ a \in Actors  BY DEF IInv
<1>1. PICK step \in Steps : Goto(a, step)  BY DEF EndRecorded, Steps
<1>2. /\ actor' \in [Actors -> Steps]
      /\ actor'[a] = step
      /\ \A b \in Actors : b # a => actor'[b] = actor[b]
  BY <1>0, <1>1, Moves
<1>3. TypeOK'  BY <1>0, <1>2 DEF EndRecorded, EndDate, TypeOK, Terms
<1>4. Exclusion'  BY <1>2 DEF IInv, EndRecorded, Exclusion, InTransaction
<1>5. Knowledge'  BY <1>2 DEF IInv, EndRecorded, Goto, Knowledge, Exclusion, InTransaction
<1>6. Agreement'  BY DEF IInv, EndRecorded, Agreement, Knowledge
<1>7. LateRevoke' /\ LateEnd'
  BY DEF IInv, EndRecorded, LateRevoke, LateEnd, Knowledge
<1>8. Unissued'  BY DEF IInv, EndRecorded, Goto, Unissued
<1>. QED  BY <1>3, <1>4, <1>5, <1>6, <1>7, <1>8 DEF IInv

\* A request fails.
LEMMA AskingFailsKeeps == ASSUME IInv, NEW a \in Actors, AskingFails(a) PROVE IInv'
<1>0. TypeOK /\ a \in Actors  BY DEF IInv
<1>1. PICK step \in Steps : Goto(a, step)  BY DEF AskingFails, Steps
<1>2. /\ actor' \in [Actors -> Steps]
      /\ actor'[a] = step
      /\ \A b \in Actors : b # a => actor'[b] = actor[b]
  BY <1>0, <1>1, Moves
<1>3. TypeOK'  BY <1>0, <1>2, Counted DEF AskingFails, TypeOK
<1>4. Exclusion'  BY <1>2 DEF IInv, AskingFails, Exclusion, InTransaction
<1>5. Knowledge'  BY DEF IInv, AskingFails, Goto, Knowledge
<1>6. Agreement'  BY DEF IInv, AskingFails, Agreement
<1>7. LateRevoke' /\ LateEnd'
  BY DEF IInv, AskingFails, LateRevoke, LateEnd
<1>8. Unissued'  BY DEF IInv, AskingFails, Goto, Unissued
<1>. QED  BY <1>3, <1>4, <1>5, <1>6, <1>7, <1>8 DEF IInv

\* A timer picks the termination.
LEMMA TimerFindsKeeps == ASSUME IInv, NEW a \in Workers, TimerFinds(a) PROVE IInv'
<1>0. TypeOK /\ a \in Actors  BY DEF IInv, Actors
<1>1. PICK step \in Steps : Goto(a, step)  BY DEF TimerFinds, Steps
<1>2. /\ actor' \in [Actors -> Steps]
      /\ actor'[a] = step
      /\ \A b \in Actors : b # a => actor'[b] = actor[b]
  BY <1>0, <1>1, Moves
<1>3. TypeOK'  BY <1>0, <1>2 DEF TimerFinds, TypeOK
<1>4. Exclusion'  BY DEF IInv, TimerFinds, Goto, Exclusion, InTransaction
<1>5. Knowledge'  BY DEF IInv, TimerFinds, Goto, Knowledge
<1>6. Agreement'  BY DEF IInv, TimerFinds, Agreement
<1>7. LateRevoke' /\ LateEnd'
  BY DEF IInv, TimerFinds, LateRevoke, LateEnd
<1>8. Unissued'  BY DEF IInv, TimerFinds, Goto, Unissued
<1>. QED  BY <1>3, <1>4, <1>5, <1>6, <1>7, <1>8 DEF IInv

\* The transaction of process() begins.
LEMMA BeginKeeps == ASSUME IInv, NEW a \in Actors, Begin(a) PROVE IInv'
<1>0. TypeOK /\ a \in Actors  BY DEF IInv
<1>1. PICK step \in Steps : Goto(a, step)  BY DEF Begin, Steps
<1>2. /\ actor' \in [Actors -> Steps]
      /\ actor'[a] = step
      /\ \A b \in Actors : b # a => actor'[b] = actor[b]
  BY <1>0, <1>1, Moves
<1>3. TypeOK'  BY <1>0, <1>2 DEF Begin, TypeOK
<1>4. Exclusion'  BY <1>2 DEF Begin, Exclusion, Locked
<1>5. Knowledge'  BY <1>1 DEF IInv, Begin, Goto, Knowledge, Agreement
<1>6. Agreement'  BY DEF IInv, Begin, Agreement
<1>7. LateRevoke' /\ LateEnd'
  BY DEF IInv, Begin, LateRevoke, LateEnd
<1>8. Unissued'  BY <1>1 DEF IInv, Begin, Goto, Unissued
<1>. QED  BY <1>3, <1>4, <1>5, <1>6, <1>7, <1>8 DEF IInv

\* Billing answers.
LEMMA BillingAnswersKeeps == ASSUME IInv, NEW a \in Actors, BillingAnswers(a) PROVE IInv'
<1>0. TypeOK /\ a \in Actors  BY DEF IInv
<1>1. PICK step \in Steps : Goto(a, step)  BY DEF BillingAnswers, Steps
<1>2. /\ actor' \in [Actors -> Steps]
      /\ actor'[a] = step
      /\ \A b \in Actors : b # a => actor'[b] = actor[b]
  BY <1>0, <1>1, Moves
<1>3. TypeOK'  BY <1>0, <1>2 DEF BillingAnswers, TypeOK
<1>4. Exclusion'  BY <1>2 DEF IInv, BillingAnswers, Exclusion, InTransaction
<1>5. Knowledge'  BY DEF IInv, BillingAnswers, Goto, Knowledge
<1>6. Agreement'  BY DEF IInv, BillingAnswers, Agreement
<1>7. LateRevoke' /\ LateEnd'
  BY DEF IInv, BillingAnswers, LateRevoke, LateEnd
<1>8. Unissued'  BY DEF IInv, BillingAnswers, Goto, Unissued
<1>. QED  BY <1>3, <1>4, <1>5, <1>6, <1>7, <1>8 DEF IInv

\* The end is not reached.
LEMMA WaitsKeeps == ASSUME IInv, NEW a \in Actors, Waits(a) PROVE IInv'
<1>0. TypeOK /\ a \in Actors  BY DEF IInv
<1>1. PICK step \in Steps : Goto(a, step)  BY DEF Waits, Steps
<1>2. /\ actor' \in [Actors -> Steps]
      /\ actor'[a] = step
      /\ \A b \in Actors : b # a => actor'[b] = actor[b]
  BY <1>0, <1>1, Moves
<1>3. TypeOK'  BY <1>0, <1>2 DEF Waits, TypeOK, Terms
<1>4. Exclusion'  BY <1>2 DEF IInv, Waits, Exclusion, InTransaction
<1>5. Knowledge'  BY DEF IInv, Waits, Goto, Knowledge
<1>6. Agreement'  BY DEF IInv, Waits, Agreement, Knowledge
<1>7. LateRevoke' /\ LateEnd'
  BY DEF IInv, Waits, LateRevoke, LateEnd
<1>8. Unissued'  BY DEF IInv, Waits, Goto, Unissued
<1>. QED  BY <1>3, <1>4, <1>5, <1>6, <1>7, <1>8 DEF IInv

\* The end is reached.
LEMMA GoesOnKeeps == ASSUME IInv, NEW a \in Actors, GoesOn(a) PROVE IInv'
<1>0. TypeOK /\ a \in Actors  BY DEF IInv
<1>1. PICK step \in Steps : Goto(a, step)  BY DEF GoesOn, Steps
<1>2. /\ actor' \in [Actors -> Steps]
      /\ actor'[a] = step
      /\ \A b \in Actors : b # a => actor'[b] = actor[b]
  BY <1>0, <1>1, Moves
<1>3. TypeOK'  BY <1>0, <1>2 DEF GoesOn, TypeOK
<1>4. Exclusion'  BY <1>2 DEF IInv, GoesOn, Exclusion, InTransaction
<1>5. Knowledge'  BY DEF IInv, GoesOn, Goto, Knowledge
<1>6. Agreement'  BY DEF IInv, GoesOn, Agreement
<1>7. LateRevoke' /\ LateEnd'
  BY DEF IInv, GoesOn, LateRevoke, LateEnd
<1>8. Unissued'  BY DEF IInv, GoesOn, Goto, Unissued
<1>. QED  BY <1>3, <1>4, <1>5, <1>6, <1>7, <1>8 DEF IInv

\* Licensing answers.
LEMMA LicensingAnswersKeeps == ASSUME IInv, NEW a \in Actors, LicensingAnswers(a) PROVE IInv'
<1>0. TypeOK /\ a \in Actors  BY DEF IInv
<1>1. PICK step \in Steps : Goto(a, step)  BY DEF LicensingAnswers, Steps
<1>2. /\ actor' \in [Actors -> Steps]
      /\ actor'[a] = step
      /\ \A b \in Actors : b # a => actor'[b] = actor[b]
  BY <1>0, <1>1, Moves
<1>3. TypeOK'  BY <1>0, <1>2 DEF LicensingAnswers, AfterRevoke, TypeOK
<1>4. Exclusion'  BY <1>2 DEF IInv, LicensingAnswers, Exclusion, InTransaction
<1>5. Knowledge'  BY DEF IInv, LicensingAnswers, Goto, Knowledge
<1>6. Agreement'  BY DEF IInv, LicensingAnswers, Agreement
<1>7. LateRevoke' /\ LateEnd'
  BY DEF IInv, LicensingAnswers, LateRevoke, LateEnd
<1>8. Unissued'  BY DEF IInv, LicensingAnswers, Goto, Unissued, AfterRevoke
<1>. QED  BY <1>3, <1>4, <1>5, <1>6, <1>7, <1>8 DEF IInv

\* The termination completes.
LEMMA CompletesKeeps == ASSUME IInv, NEW a \in Actors, Completes(a) PROVE IInv'
<1>0. TypeOK /\ a \in Actors  BY DEF IInv
<1>1. PICK step \in Steps : Goto(a, step)  BY DEF Completes, Steps
<1>2. /\ actor' \in [Actors -> Steps]
      /\ actor'[a] = step
      /\ \A b \in Actors : b # a => actor'[b] = actor[b]
  BY <1>0, <1>1, Moves
<1>3. TypeOK'  BY <1>0, <1>2 DEF Completes, TypeOK, Statuses, Enrollments, Terms
<1>4. Exclusion'  BY <1>2 DEF IInv, Completes, Exclusion, InTransaction
<1>5. Knowledge'  BY <1>2 DEF IInv, Completes, Goto, Knowledge, Exclusion, InTransaction
<1>6. Agreement'  BY DEF IInv, Completes, Agreement, Knowledge
<1>7. LateRevoke' /\ LateEnd'
  BY DEF Completes, LateRevoke, LateEnd
<1>8. Unissued'  BY DEF IInv, Completes, Goto, Unissued
<1>. QED  BY <1>3, <1>4, <1>5, <1>6, <1>7, <1>8 DEF IInv

\* process() throws.
LEMMA ThrowsKeeps == ASSUME IInv, NEW a \in Actors, Throws(a) PROVE IInv'
<1>0. TypeOK /\ a \in Actors  BY DEF IInv
<1>1. PICK step \in Steps : Goto(a, step)  BY DEF Throws, Steps
<1>2. /\ actor' \in [Actors -> Steps]
      /\ actor'[a] = step
      /\ \A b \in Actors : b # a => actor'[b] = actor[b]
  BY <1>0, <1>1, Moves
<1>3. TypeOK'  BY <1>0, <1>2, Counted DEF Throws, RequestOf, TypeOK
<1>4. Exclusion'  BY <1>2 DEF IInv, Throws, Exclusion
<1>5. Knowledge'  BY DEF IInv, Throws, Goto, Knowledge
<1>6. Agreement'  BY DEF IInv, Throws, Agreement
<1>7. LateRevoke' /\ LateEnd'
  BY DEF IInv, Throws, LateRevoke, LateEnd, Knowledge, RequestOf
<1>8. Unissued'  BY DEF IInv, Throws, Goto, Unissued, RequestOf
<1>. QED  BY <1>3, <1>4, <1>5, <1>6, <1>7, <1>8 DEF IInv

\* The retry is recorded.
LEMMA RetryLaterKeeps == ASSUME IInv, NEW a \in Actors, RetryLater(a) PROVE IInv'
<1>0. TypeOK /\ a \in Actors  BY DEF IInv
<1>1. PICK step \in Steps : Goto(a, step)  BY DEF RetryLater, Steps
<1>2. /\ actor' \in [Actors -> Steps]
      /\ actor'[a] = step
      /\ \A b \in Actors : b # a => actor'[b] = actor[b]
  BY <1>0, <1>1, Moves
<1>3. TypeOK'  BY <1>0, <1>2 DEF RetryLater, TypeOK, Terms
<1>4. Exclusion'  BY DEF IInv, RetryLater, Goto, Exclusion, InTransaction
<1>5. Knowledge'  BY DEF IInv, RetryLater, Goto, Knowledge
<1>6. Agreement'  BY DEF IInv, RetryLater, Agreement
<1>7. LateRevoke' /\ LateEnd'
  BY DEF IInv, RetryLater, LateRevoke, LateEnd
<1>8. Unissued'  BY DEF IInv, RetryLater, Goto, Unissued
<1>. QED  BY <1>3, <1>4, <1>5, <1>6, <1>7, <1>8 DEF IInv

\* An operator changes the status.
LEMMA UpdateContractKeeps == ASSUME IInv, NEW a \in Callers, UpdateContract(a) PROVE IInv'
<1>0. TypeOK /\ a \in Actors  BY DEF IInv, Actors
<1>1. PICK step \in Steps : Goto(a, step)  BY DEF UpdateContract, Steps
<1>2. /\ actor' \in [Actors -> Steps]
      /\ actor'[a] = step
      /\ \A b \in Actors : b # a => actor'[b] = actor[b]
  BY <1>0, <1>1, Moves
<1>3. TypeOK'  BY <1>0, <1>2 DEF UpdateContract, TypeOK
<1>4. Exclusion'  BY DEF IInv, UpdateContract, Goto, Exclusion, InTransaction
<1>5. Knowledge'
  <2>1. \A b \in Actors : actor'[b] \notin InTransaction
    BY <1>0 DEF UpdateContract, Goto, Locked, InTransaction, TypeOK
  <2>2. ASSUME NEW b \in Actors, plan' # "saved", actor'[b] = "closed" PROVE status' = "encerrado"
    BY <1>0, <1>2, <2>2 DEF IInv, UpdateContract, Goto, Knowledge, AllowedStatuses, MayBecome
  <2>. QED  BY <2>1, <2>2 DEF Knowledge, InTransaction
<1>6. Agreement'  BY DEF IInv, UpdateContract, Agreement, MayBecome, AllowedStatuses
<1>7. LateRevoke' /\ LateEnd'
  BY DEF IInv, UpdateContract, LateRevoke, LateEnd, MayBecome, AllowedStatuses
<1>8. Unissued'  BY DEF IInv, UpdateContract, Goto, Unissued
<1>. QED  BY <1>3, <1>4, <1>5, <1>6, <1>7, <1>8 DEF IInv

\* Licensing answers an operator.
LEMMA ClosedRevokedKeeps == ASSUME IInv, NEW a \in Actors, ClosedRevoked(a) PROVE IInv'
<1>0. TypeOK /\ a \in Actors  BY DEF IInv
<1>1. PICK step \in Steps : Goto(a, step)  BY DEF ClosedRevoked, Steps
<1>2. /\ actor' \in [Actors -> Steps]
      /\ actor'[a] = step
      /\ \A b \in Actors : b # a => actor'[b] = actor[b]
  BY <1>0, <1>1, Moves
<1>3. TypeOK'  BY <1>0, <1>2 DEF ClosedRevoked, AfterRevoke, TypeOK
<1>4. Exclusion'  BY DEF IInv, ClosedRevoked, Goto, Exclusion, InTransaction
<1>5. Knowledge'  BY DEF IInv, ClosedRevoked, Goto, Knowledge
<1>6. Agreement'  BY DEF IInv, ClosedRevoked, Agreement
<1>7. LateRevoke' /\ LateEnd'
  BY DEF IInv, ClosedRevoked, LateRevoke, LateEnd
<1>8. Unissued'  BY DEF IInv, ClosedRevoked, Goto, Unissued, AfterRevoke
<1>. QED  BY <1>3, <1>4, <1>5, <1>6, <1>7, <1>8 DEF IInv

\* An issue begins.
LEMMA IssueLicenseKeeps == ASSUME IInv, NEW a \in Issuers, IssueLicense(a) PROVE IInv'
<1>0. TypeOK /\ a \in Actors  BY DEF IInv, Actors
<1>1. PICK step \in Steps : Goto(a, step)  BY DEF IssueLicense, Steps
<1>2. /\ actor' \in [Actors -> Steps]
      /\ actor'[a] = step
      /\ \A b \in Actors : b # a => actor'[b] = actor[b]
  BY <1>0, <1>1, Moves
<1>3. TypeOK'  BY <1>0, <1>2 DEF IssueLicense, TypeOK
<1>4. Exclusion'  BY DEF IInv, IssueLicense, Goto, Exclusion, InTransaction
<1>5. Knowledge'  BY DEF IInv, IssueLicense, Goto, Knowledge
<1>6. Agreement'  BY DEF IInv, IssueLicense, Agreement
<1>7. LateRevoke' /\ LateEnd'
  BY DEF IInv, IssueLicense, LateRevoke, LateEnd
<1>8. Unissued'  BY DEF Unissued
<1>. QED  BY <1>3, <1>4, <1>5, <1>6, <1>7, <1>8 DEF IInv

\* Licensing has been asked.
LEMMA LookedKeeps == ASSUME IInv, NEW a \in Actors, Looked(a) PROVE IInv'
<1>0. TypeOK /\ a \in Actors  BY DEF IInv
<1>1. PICK step \in Steps : Goto(a, step)  BY DEF Looked, Steps
<1>2. /\ actor' \in [Actors -> Steps]
      /\ actor'[a] = step
      /\ \A b \in Actors : b # a => actor'[b] = actor[b]
  BY <1>0, <1>1, Moves
<1>3. TypeOK'  BY <1>0, <1>2 DEF Looked, TypeOK
<1>4. Exclusion'  BY <1>1 DEF IInv, Looked, Goto, Exclusion, InTransaction
<1>5. Knowledge'  BY <1>1 DEF IInv, Looked, Goto, Knowledge
<1>6. Agreement'  BY DEF IInv, Looked, Agreement
<1>7. LateRevoke' /\ LateEnd'
  BY DEF IInv, Looked, LateRevoke, LateEnd
<1>8. Unissued'  BY DEF IInv, Looked, Unissued
<1>. QED  BY <1>3, <1>4, <1>5, <1>6, <1>7, <1>8 DEF IInv

\* The contract is written back.
LEMMA SavesKeeps == ASSUME IInv, NEW a \in Actors, Saves(a) PROVE IInv'
<1>0. TypeOK /\ a \in Actors  BY DEF IInv
<1>1. PICK step \in Steps : Goto(a, step)  BY DEF Saves, Steps
<1>2. /\ actor' \in [Actors -> Steps]
      /\ actor'[a] = step
      /\ \A b \in Actors : b # a => actor'[b] = actor[b]
  BY <1>0, <1>1, Moves
<1>3. TypeOK'  BY <1>0, <1>2 DEF Saves, TypeOK, Statuses
<1>4. Exclusion'  BY DEF IInv, Saves, Goto, Exclusion, InTransaction
<1>5. Knowledge' /\ Agreement' /\ LateRevoke' /\ LateEnd'
  BY DEF Saves, Knowledge, Agreement, LateRevoke, LateEnd
<1>6. Unissued'  BY DEF IInv, Saves, Unissued
<1>. QED  BY <1>3, <1>4, <1>5, <1>6 DEF IInv

\* The license is issued.
LEMMA IssuedKeeps == ASSUME IInv, NEW a \in Actors, Issued(a) PROVE IInv'
<1>0. TypeOK /\ a \in Actors  BY DEF IInv
<1>1. PICK step \in Steps : Goto(a, step)  BY DEF Issued, Steps
<1>2. /\ actor' \in [Actors -> Steps]
      /\ actor'[a] = step
      /\ \A b \in Actors : b # a => actor'[b] = actor[b]
  BY <1>0, <1>1, Moves
<1>3. TypeOK'  BY <1>0, <1>2 DEF Issued, TypeOK
<1>4. Exclusion'  BY DEF IInv, Issued, Goto, Exclusion, InTransaction
<1>5. Knowledge'  BY DEF IInv, Issued, Goto, Knowledge
<1>6. Agreement'  BY DEF IInv, Issued, Agreement
<1>7. LateRevoke' /\ LateEnd'
  BY DEF IInv, Issued, LateRevoke, LateEnd
<1>8. Unissued'  BY DEF IInv, Issued, Unissued
<1>. QED  BY <1>3, <1>4, <1>5, <1>6, <1>7, <1>8 DEF IInv

\* A handler fails.
LEMMA HandlerFailsKeeps == ASSUME IInv, NEW a \in Actors, HandlerFails(a) PROVE IInv'
<1>0. TypeOK /\ a \in Actors  BY DEF IInv
<1>1. PICK step \in Steps : Goto(a, step)  BY DEF HandlerFails, Steps
<1>2. /\ actor' \in [Actors -> Steps]
      /\ actor'[a] = step
      /\ \A b \in Actors : b # a => actor'[b] = actor[b]
  BY <1>0, <1>1, Moves
<1>3. TypeOK'  BY <1>0, <1>2, Counted DEF HandlerFails, RequestOf, TypeOK
<1>4. Exclusion'  BY DEF IInv, HandlerFails, Goto, Exclusion, InTransaction
<1>5. Knowledge'  BY DEF IInv, HandlerFails, Goto, Knowledge
<1>6. Agreement'  BY DEF IInv, HandlerFails, Agreement
<1>7. LateRevoke' /\ LateEnd'
  BY DEF IInv, HandlerFails, LateRevoke, LateEnd, Knowledge, RequestOf
<1>8. Unissued'  BY DEF IInv, HandlerFails, Goto, Unissued, RequestOf
<1>. QED  BY <1>3, <1>4, <1>5, <1>6, <1>7, <1>8 DEF IInv

\* A process stops.
LEMMA CrashKeeps == ASSUME IInv, NEW a \in Actors, Crash(a) PROVE IInv'
<1>0. TypeOK /\ a \in Actors  BY DEF IInv
<1>1. PICK step \in Steps : Goto(a, step)  BY DEF Crash, Steps
<1>2. /\ actor' \in [Actors -> Steps]
      /\ actor'[a] = step
      /\ \A b \in Actors : b # a => actor'[b] = actor[b]
  BY <1>0, <1>1, Moves
<1>3. TypeOK'  BY <1>0, <1>2, Counted DEF Crash, RequestOf, TypeOK
<1>4. Exclusion'  BY DEF IInv, Crash, Goto, Exclusion, InTransaction
<1>5. Knowledge'  BY DEF IInv, Crash, Goto, Knowledge
<1>6. Agreement'  BY DEF IInv, Crash, Agreement
<1>7. LateRevoke' /\ LateEnd'
  BY DEF IInv, Crash, LateRevoke, LateEnd, Knowledge, RequestOf
<1>8. Unissued'  BY DEF IInv, Crash, Goto, Unissued, RequestOf
<1>. QED  BY <1>3, <1>4, <1>5, <1>6, <1>7, <1>8 DEF IInv

\* The recurrence of the contract is enabled for the first time.
LEMMA EnrollKeeps == ASSUME IInv, NEW a \in Callers, Enroll(a) PROVE IInv'
<1>1. TypeOK'  BY DEF IInv, Enroll, TypeOK, Enrollments
<1>2. Exclusion'  BY DEF IInv, Enroll, Exclusion
<1>3. Knowledge'  BY DEF IInv, Enroll, Knowledge
<1>4. Agreement'  BY DEF IInv, Enroll, Agreement
<1>5. LateRevoke' /\ LateEnd'
  BY DEF IInv, Enroll, LateRevoke, LateEnd
<1>6. Unissued'  BY DEF IInv, Enroll, Unissued
<1>. QED  BY <1>1, <1>2, <1>3, <1>4, <1>5, <1>6 DEF IInv

\* An operator pauses it.
LEMMA PauseKeeps == ASSUME IInv, NEW a \in Callers, Pause(a) PROVE IInv'
<1>1. TypeOK'  BY DEF IInv, Pause, TypeOK, Enrollments
<1>2. Exclusion'  BY DEF IInv, Pause, Exclusion
<1>3. Knowledge'  BY DEF IInv, Pause, Knowledge
<1>4. Agreement'  BY DEF IInv, Pause, Agreement
<1>5. LateRevoke' /\ LateEnd'
  BY DEF IInv, Pause, LateRevoke, LateEnd
<1>6. Unissued'  BY DEF IInv, Pause, Unissued
<1>. QED  BY <1>1, <1>2, <1>3, <1>4, <1>5, <1>6 DEF IInv

\* An operator resumes it.
LEMMA ResumeKeeps == ASSUME IInv, NEW a \in Callers, Resume(a) PROVE IInv'
<1>1. TypeOK'  BY DEF IInv, Resume, TypeOK, Enrollments
<1>2. Exclusion'  BY DEF IInv, Resume, Exclusion
<1>3. Knowledge'  BY DEF IInv, Resume, Knowledge
<1>4. Agreement'  BY DEF IInv, Resume, Agreement
<1>5. LateRevoke' /\ LateEnd'
  BY DEF IInv, Resume, LateRevoke, LateEnd
<1>6. Unissued'  BY DEF IInv, Resume, Unissued
<1>. QED  BY <1>1, <1>2, <1>3, <1>4, <1>5, <1>6 DEF IInv

\* A request that its sender abandoned is received.
LEMMA ArrivesKeeps == ASSUME IInv, NEW a \in wire, Arrives(a) PROVE IInv'
<1>1. TypeOK'  BY DEF IInv, Arrives, AfterRevoke, TypeOK
<1>2. Exclusion'  BY DEF IInv, Arrives, Exclusion
<1>3. Knowledge'  BY DEF IInv, Arrives, Knowledge
<1>4. Agreement'  BY DEF IInv, Arrives, Agreement
<1>5. LateRevoke' /\ LateEnd'
  BY DEF IInv, Arrives, LateRevoke, LateEnd
<1>6. Unissued'  BY DEF IInv, Arrives, AfterRevoke, Unissued
<1>. QED  BY <1>1, <1>2, <1>3, <1>4, <1>5, <1>6 DEF IInv

\* Time passes.
LEMMA AdvanceKeeps == ASSUME IInv, Advance PROVE IInv'
<1>1. TypeOK'  BY TerminationAssumption DEF IInv, Advance, TypeOK, Times
<1>2. Exclusion'  BY DEF IInv, Advance, Exclusion
<1>3. Knowledge' /\ Agreement' /\ LateRevoke' /\ LateEnd'
  BY DEF IInv, Advance, Knowledge, Agreement, LateRevoke, LateEnd, TypeOK, Times, Terms
<1>4. Unissued'  BY DEF IInv, Advance, Unissued
<1>. QED  BY <1>1, <1>2, <1>3, <1>4 DEF IInv

\* The next attempt is due.
LEMMA DueKeeps == ASSUME IInv, Due PROVE IInv'
<1>1. TypeOK'  BY DEF IInv, Due, TypeOK, Terms
<1>2. Exclusion'  BY DEF IInv, Due, Exclusion
<1>3. Knowledge' /\ Agreement' /\ LateRevoke' /\ LateEnd'
  BY DEF IInv, Due, Knowledge, Agreement, LateRevoke, LateEnd
<1>4. Unissued'  BY DEF IInv, Due, Unissued
<1>. QED  BY <1>1, <1>2, <1>3, <1>4 DEF IInv

\* Nothing changes.
LEMMA StutterKeeps == ASSUME IInv, UNCHANGED vars PROVE IInv'
BY DEF IInv, vars, TypeOK, Exclusion, Knowledge, Agreement, LateRevoke, LateEnd, Unissued

\* The invariant is inductive.
LEMMA NextIInv == IInv /\ [Next]_vars => IInv'
<1>. SUFFICES ASSUME IInv, [Next]_vars PROVE IInv'  OBVIOUS
<1>1. ASSUME NEW a \in Actors, Proceeds(a) PROVE IInv'
  BY <1>1, EndRecordedKeeps, BeginKeeps, BillingAnswersKeeps, WaitsKeeps, GoesOnKeeps,
     LicensingAnswersKeeps, CompletesKeeps, RetryLaterKeeps, ClosedRevokedKeeps, LookedKeeps,
     SavesKeeps, IssuedKeeps
     DEF Proceeds
<1>2. ASSUME NEW a \in Actors, Misfortune(a) PROVE IInv'
  BY <1>2, AskingFailsKeeps, ThrowsKeeps, HandlerFailsKeeps, CrashKeeps DEF Misfortune
<1>3. ASSUME NEW c \in Callers, Change(c) PROVE IInv'
  BY <1>3, RequestEndKeeps, UpdateContractKeeps, EnrollKeeps, PauseKeeps, ResumeKeeps DEF Change
<1>. QED
  BY <1>1, <1>2, <1>3, TimerFindsKeeps, IssueLicenseKeeps, ArrivesKeeps, AdvanceKeeps, DueKeeps,
     StutterKeeps
     DEF Next

-------------------------------------------------------------------------------
\* The invariant holds of every reachable state.
THEOREM Invariance == Spec => []IInv
  BY InitIInv, NextIInv, PTL DEF Spec

\* The variables keep their types.
THEOREM TypeCorrect == Spec => []TypeOK
  BY Invariance, PTL DEF IInv

\* A contract with a recurrence ends by its termination, on time, with
\* Billing told and the recurrence ended.
THEOREM EndsByTermination == Spec => []EnrolledEndsByTermination
<1>1. IInv => EnrolledEndsByTermination
  BY DEF IInv, Agreement, EnrolledEndsByTermination
<1>. QED  BY <1>1, Invariance, PTL

\* A completed termination leaves no active license when nobody issues one.
THEOREM LeavesNoLicense ==
    ASSUME Issuers = {} PROVE Spec => []CompletedLeavesNoLicense
<1>1. IInv => CompletedLeavesNoLicense  BY DEF IInv, Unissued, CompletedLeavesNoLicense
<1>. QED  BY <1>1, Invariance, PTL

\* What is closed is never opened, nor billed, again.
THEOREM StaysClosed == Spec => ClosedForGood
<1>1. ASSUME IInv, Next, plan' # "saved"
      PROVE  /\ status = "encerrado" => status' = "encerrado"
             /\ term.status = "completed" => /\ term'.status = "completed"
                                             /\ status' = "encerrado"
                                             /\ enrollment' # "enabled"
  <2>1. IInv'  BY <1>1, NextIInv
  <2>2. status = "encerrado" => status' = "encerrado"
    BY <1>1
       DEF Next, Proceeds, Misfortune, Change, RequestEnd, EndRecorded, AskingFails,
           TimerFinds, Begin, BillingAnswers, Waits, GoesOn, LicensingAnswers, Completes,
           Throws, RetryLater, UpdateContract, ClosedRevoked, IssueLicense, Looked, Saves, Issued,
           HandlerFails, Crash, Enroll, Pause, Resume, Arrives, Advance, Due, MayBecome,
           AllowedStatuses
  <2>3. term.status = "completed" => term'.status = "completed"
    BY <1>1
       DEF Next, Proceeds, Misfortune, Change, RequestEnd, EndRecorded, AskingFails,
           TimerFinds, Begin, BillingAnswers, Waits, GoesOn, LicensingAnswers, Completes,
           Throws, RetryLater, UpdateContract, ClosedRevoked, IssueLicense, Looked, Saves, Issued,
           HandlerFails, Crash, Enroll, Pause, Resume, Arrives, Advance, Due, IInv, Knowledge
  <2>. QED  BY <1>1, <2>1, <2>2, <2>3 DEF IInv, Agreement
<1>. QED  BY <1>1, Invariance, PTL DEF Spec, ClosedForGood

\* Only the end of what is paid takes the license of an enrolled contract.
THEOREM PaidPeriodHeld == Spec => PaidPeriodKept
<1>1. ASSUME IInv, Next, plan # "saved", license = "active", license' = "revoked", enrollment # "none"
      PROVE  term.status # "none" /\ now >= term.effective
  <2>1. ASSUME NEW a \in Actors, LicensingAnswers(a)
        PROVE  term.status # "none" /\ now >= term.effective
    BY <2>1, <1>1 DEF LicensingAnswers, IInv, Knowledge
  <2>2. ASSUME NEW a \in Actors, ClosedRevoked(a)
        PROVE  term.status # "none" /\ now >= term.effective
    BY <2>2, <1>1 DEF ClosedRevoked, IInv, Knowledge, Agreement
  <2>3. ASSUME NEW request \in wire, Arrives(request)
        PROVE  term.status # "none" /\ now >= term.effective
    BY <2>3, <1>1 DEF Arrives, IInv, LateRevoke, Agreement
  <2>4. \/ \E a \in Actors : LicensingAnswers(a) \/ ClosedRevoked(a)
        \/ \E request \in wire : Arrives(request)
    BY <1>1
       DEF Next, Proceeds, Misfortune, Change, RequestEnd, EndRecorded, AskingFails,
           TimerFinds, Begin, BillingAnswers, Waits, GoesOn, Completes, Throws, RetryLater,
           UpdateContract, IssueLicense, Looked, Saves, Issued, HandlerFails, Crash, Enroll, Pause,
           Resume, Advance, Due
  <2>. QED  BY <2>1, <2>2, <2>3, <2>4
<1>. QED  BY <1>1, Invariance, PTL DEF Spec, PaidPeriodKept

-------------------------------------------------------------------------------
\* The refinement of ContractEnd, which is about contracts whose license
\* nobody issues: without issuers the contract is never written back, so that
\* every part of the invariant holds without its condition.
LEMMA Unsaved == ASSUME IInv, Issuers = {} PROVE plan # "saved"
BY DEF IInv, Unissued

\* What the mapping shows of a status and of a termination.
LEMMA StageOf ==
    /\ status = "ativo" <=> Stage = "open"
    /\ status = "encerrado" <=> Stage = "closed"
    /\ status \in {"rascunho", "em_assinatura"} <=> Stage = "draft"
    /\ status = "cancelado" => Stage = "cancelled"
BY DEF Stage

\* Initial states map to initial states.
LEMMA InitMaps == Init => End!Init
BY DEF Init, End!Init, Stage, Announced, NoTerm

\* A step that leaves the mapped rows alone is a stutter.
LEMMA StutterMaps ==
    ASSUME UNCHANGED <<now, status, enrollment, term, billing, license>>
    PROVE  UNCHANGED End!vars
BY DEF End!vars, Stage, Announced

\* A request to revoke reaches Licensing, in time or late.
LEMMA RevokeMaps ==
    ASSUME IInv, license' = AfterRevoke,
           status = "encerrado" \/ (term.status # "none" /\ now >= term.effective),
           UNCHANGED <<now, status, enrollment, term, billing>>
    PROVE  [End!Next]_(End!vars)
<1>1. CASE license = "active"
  <2>1. license' = "revoked"  BY <1>1 DEF AfterRevoke
  <2>2. Stage = "closed" \/ End!Come  BY StageOf DEF End!Come, Announced
  <2>3. Stage' = Stage /\ Announced' = Announced  BY DEF Stage, Announced
  <2>4. End!Revoke  BY <1>1, <2>1, <2>2, <2>3 DEF End!Revoke
  <2>. QED  BY <2>4 DEF End!Next
<1>2. CASE license # "active"
  BY <1>2, StutterMaps DEF AfterRevoke
<1>. QED  BY <1>1, <1>2

\* A termination is recorded: the end is announced, and not for the past.
LEMMA AnnounceMaps ==
    ASSUME IInv, Issuers = {}, NEW a \in Actors, EndRecorded(a) PROVE End!Announce
<1>1. term.status = "none" /\ status = "ativo"
  BY Unsaved DEF IInv, Knowledge, EndRecorded
<1>2. PICK paid \in Times :
        term' = [status |-> "scheduled", effective |-> EndDate(paid),
                 billed |-> FALSE, next |-> "due"]
  BY DEF EndRecorded
<1>3. EndDate(paid) \in Times /\ EndDate(paid) >= now
  BY TerminationAssumption DEF EndDate, IInv, TypeOK, Times
<1>4. Announced = {} /\ Announced' = {EndDate(paid)}
  BY <1>1, <1>2 DEF Announced
<1>5. Stage = "open" /\ Stage' = Stage  BY <1>1 DEF EndRecorded, Stage
<1>6. term.status # "completed" /\ term'.status # "completed"  BY <1>1, <1>2
<1>. QED  BY <1>3, <1>4, <1>5, <1>6 DEF EndRecorded, End!Announce

\* Billing learns of the end, in time or late.
LEMMA BillingMaps ==
    ASSUME IInv, billing' = "ended", term.status # "none",
           UNCHANGED <<now, status, enrollment, term, license>>
    PROVE  [End!Next]_(End!vars)
<1>1. Announced # {} /\ Announced' = Announced /\ Stage' = Stage
  BY DEF Announced, Stage
<1>2. End!BillingHears  BY <1>1 DEF End!BillingHears
<1>. QED  BY <1>2 DEF End!Next

\* What happens next in a recorded termination is no part of its promise.
LEMMA BookkeepingMaps ==
    ASSUME UNCHANGED <<now, status, enrollment, billing, license>>,
           term'.status = term.status, term'.effective = term.effective
    PROVE  UNCHANGED End!vars
BY DEF End!vars, Stage, Announced

\* The termination is completed: the end is settled.
LEMMA SettleMaps ==
    ASSUME IInv, Issuers = {}, NEW a \in Actors, Completes(a) PROVE End!Settle
<1>1. /\ term.status = "scheduled" /\ billing = "ended"
      /\ now >= term.effective /\ license # "active"
  BY Unsaved DEF IInv, Knowledge, Unissued, Completes
<1>2. status \in {"ativo", "encerrado"}  BY <1>1, Unsaved DEF IInv, Agreement
<1>3. Stage \in {"open", "closed"} /\ Stage' = "closed"
  BY <1>2 DEF Stage, Completes
<1>4. term'.status = "completed" /\ term'.effective = term.effective
  BY DEF Completes, IInv, TypeOK, Terms
<1>5. Announced = {term.effective} /\ Announced' = Announced
  BY <1>1, <1>4 DEF Announced
<1>6. End!Come  BY <1>1, <1>5 DEF End!Come
<1>. QED  BY <1>1, <1>3, <1>4, <1>5, <1>6 DEF Completes, End!Settle

\* An operator changes the status: the contract is signed or closed.
LEMMA UpdateMaps ==
    ASSUME IInv, Issuers = {}, NEW c \in Callers, UpdateContract(c)
    PROVE  [End!Next]_(End!vars)
<1>1. PICK s \in Statuses : MayBecome(s) /\ status' = s  BY DEF UpdateContract
<1>2. UNCHANGED <<now, enrollment, term, billing, license>>  BY DEF UpdateContract
<1>3. Announced' = Announced  BY <1>2 DEF Announced
<1>4. CASE Stage' = Stage  BY <1>2, <1>3, <1>4 DEF End!vars
<1>5. CASE Stage = "draft" /\ Stage' \in {"open", "cancelled"}
  BY <1>2, <1>3, <1>5 DEF End!Sign, End!Next
<1>6. CASE Stage = "open" /\ Stage' = "closed"
  <2>1. enrollment = "none"  BY <1>1, <1>6 DEF MayBecome, Stage
  <2>. QED  BY <1>2, <1>3, <1>6, <2>1 DEF End!Close, End!Next
<1>7. \/ Stage' = Stage
      \/ Stage = "draft" /\ Stage' \in {"open", "cancelled"}
      \/ Stage = "open" /\ Stage' = "closed"
  BY <1>1 DEF MayBecome, AllowedStatuses, Stage
<1>. QED  BY <1>4, <1>5, <1>6, <1>7

\* The recurrence is enabled, paused or resumed: the contract is open.
LEMMA RecurMaps ==
    ASSUME IInv, Issuers = {}, NEW c \in Callers, Enroll(c) \/ Pause(c) \/ Resume(c)
    PROVE  End!Recur
<1>1. /\ enrollment' \in {"enabled", "paused"}
      /\ UNCHANGED <<now, status, term, billing, license>>
  BY DEF Enroll, Pause, Resume
<1>2. status = "ativo"
  <2>1. CASE Pause(c)
    BY <2>1, Unsaved DEF Pause, IInv, Agreement, TypeOK, Statuses
  <2>. QED  BY <2>1 DEF Enroll, Resume
<1>. QED  BY <1>1, <1>2 DEF End!Recur, Stage, Announced

\* Every step maps to a step of ContractEnd or to a stutter.
LEMMA StepMaps ==
    ASSUME Issuers = {}, IInv, [Next]_vars PROVE [End!Next]_(End!vars)
<1>1. CASE UNCHANGED <<now, status, enrollment, term, billing, license>>
  BY <1>1, StutterMaps
<1>2. ASSUME NEW a \in Actors, Proceeds(a) PROVE [End!Next]_(End!vars)
  <2>1. CASE EndRecorded(a)  BY <2>1, AnnounceMaps DEF End!Next
  <2>2. CASE Begin(a) \/ GoesOn(a) \/ Looked(a)  BY <1>1, <2>2 DEF Begin, GoesOn, Looked
  <2>3. CASE BillingAnswers(a)
    <3>1. term.status # "none"  BY <2>3, Unsaved DEF IInv, Knowledge, BillingAnswers
    <3>. QED  BY <2>3, <3>1, BillingMaps DEF BillingAnswers
  <2>4. CASE Waits(a) \/ RetryLater(a)
    <3>1. term'.status = term.status /\ term'.effective = term.effective
      BY <2>4 DEF Waits, RetryLater, IInv, TypeOK, Terms
    <3>. QED  BY <2>4, <3>1, BookkeepingMaps DEF Waits, RetryLater
  <2>5. CASE LicensingAnswers(a)
    <3>1. term.status # "none" /\ now >= term.effective
      BY <2>5, Unsaved DEF IInv, Knowledge, LicensingAnswers
    <3>. QED  BY <2>5, <3>1, RevokeMaps DEF LicensingAnswers
  <2>6. CASE Completes(a)  BY <2>6, SettleMaps DEF End!Next
  <2>7. CASE ClosedRevoked(a)
    <3>1. status = "encerrado"  BY <2>7, Unsaved DEF IInv, Knowledge, ClosedRevoked
    <3>. QED  BY <2>7, <3>1, RevokeMaps DEF ClosedRevoked
  <2>8. CASE Saves(a) \/ Issued(a)  BY <2>8 DEF IInv, Unissued, Saves, Issued
  <2>. QED
    BY <1>2, <2>1, <2>2, <2>3, <2>4, <2>5, <2>6, <2>7, <2>8 DEF Proceeds
<1>3. ASSUME NEW a \in Actors, Misfortune(a) PROVE [End!Next]_(End!vars)
  BY <1>1, <1>3 DEF Misfortune, AskingFails, Throws, HandlerFails, Crash
<1>4. ASSUME NEW w \in Workers, TimerFinds(w) PROVE [End!Next]_(End!vars)
  BY <1>1, <1>4 DEF TimerFinds
<1>5. ASSUME NEW c \in Callers, Change(c) PROVE [End!Next]_(End!vars)
  <2>1. CASE RequestEnd(c)  BY <1>1, <2>1 DEF RequestEnd
  <2>. QED  BY <1>5, <2>1, UpdateMaps, RecurMaps DEF Change, End!Next
<1>6. ASSUME NEW request \in wire, Arrives(request) PROVE [End!Next]_(End!vars)
  <2>1. request \in {"end", "revoke"}  BY <1>6 DEF IInv, TypeOK, Unissued
  <2>2. CASE request = "end"
    <3>1. term.status # "none"  BY <2>2, Unsaved DEF IInv, LateEnd
    <3>. QED  BY <1>6, <2>2, <3>1, BillingMaps DEF Arrives
  <2>3. CASE request = "revoke"
    <3>1. status = "encerrado" \/ (term.status # "none" /\ now >= term.effective)
      BY <2>3, Unsaved DEF IInv, LateRevoke
    <3>. QED  BY <1>6, <2>3, <3>1, RevokeMaps DEF Arrives
  <2>. QED  BY <2>1, <2>2, <2>3
<1>7. CASE Advance
  BY <1>7 DEF Advance, End!Pass, End!Next, Stage, Announced
<1>8. CASE Due
  BY <1>8, BookkeepingMaps DEF Due, IInv, TypeOK, Terms
<1>9. CASE UNCHANGED vars  BY <1>1, <1>9 DEF vars
<1>10. ASSUME NEW i \in Issuers, IssueLicense(i) PROVE [End!Next]_(End!vars)
  BY <1>10
<1>. QED
  BY <1>2, <1>3, <1>4, <1>5, <1>6, <1>7, <1>8, <1>9, <1>10 DEF Next

\* Termination, retries, crashes and late requests implement the end that
\* ContractEnd promises, as long as nobody issues licenses.
THEOREM Implements == ASSUME Issuers = {} PROVE Spec => ImplementsEnd
BY InitMaps, StepMaps, Invariance, PTL DEF Spec, ImplementsEnd, End!Spec
===============================================================================
