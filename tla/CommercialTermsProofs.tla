------------------------ MODULE CommercialTermsProofs ------------------------
(***************************************************************************)
(* Theorems of CommercialTerms.  Whatever the contracts, the currencies,   *)
(* the handlers and the tolerances of the dates, the variables keep their  *)
(* types and the versions of a contract start in their order.  The         *)
(* invariant is inductive once what a handler is about to save is known to *)
(* be as well formed as what is saved.                                     *)
(***************************************************************************)
EXTENDS CommercialTerms, WellFoundedInduction, SequenceTheorems, TLAPS

WellFormed(t) == /\ t.from # t.currency
                 /\ t.kind # "courtesy" => t.expires = Never

Asked == \A a \in Actors : WellFormed(actor[a].request.terms)

IInv == TypeOK /\ Asked /\ VersionsInOrder

-------------------------------------------------------------------------------
\* The latest of some versions is one of them, and none is later.
LEMMA LatestIsLast ==
    ASSUME NEW n \in Nat, NEW I \in SUBSET (1..n), I # {}
    PROVE  Latest(I) \in I /\ \A j \in I : j <= Latest(I)
<1> DEFINE Less == {p \in Nat \X Nat : p[1] < p[2]}
           S    == {n - i : i \in I}
<1>1. IsWellFoundedOn(Less, Nat)
  <2>1. Less = OpToRel(<, Nat)
    BY DEF OpToRel
  <2>2. QED
    BY <2>1, NatLessThanWellFounded
<1>2. S \subseteq Nat /\ S # {}
  <2>1. \A i \in I : i \in 1..n
    OBVIOUS
  <2>2. \A i \in I : n - i \in Nat
    OBVIOUS
  <2>3. QED
    BY <2>2
<1>3. \E m \in S : \A k \in S : <<k, m>> \notin Less
  <2> HIDE DEF Less, S
  <2>1. QED
    BY <1>1, <1>2, WFMin
<1>4. PICK i \in I : \A j \in I : <<n - j, n - i>> \notin Less
  BY <1>3
<1>5. \A j \in I : j <= i
  <2>1. SUFFICES ASSUME NEW j \in I PROVE j <= i
    OBVIOUS
  <2>2. i \in 1..n /\ j \in 1..n /\ n - j \in Nat /\ n - i \in Nat
    OBVIOUS
  <2>3. ~(n - j < n - i)
    BY <1>4, <2>2
  <2>4. QED
    BY <2>3
<1>6. Latest(I) \in I /\ \A j \in I : j <= Latest(I)
  BY <1>5 DEF Latest
<1>7. QED
  BY <1>6

\* The versions the queries find are versions there are.
LEMMA Found ==
    ASSUME TypeOK, NEW k \in Contracts
    PROVE  /\ Kept(k) \in SUBSET (1..Len(rows))
           /\ Current(k) # 0 => /\ Current(k) \in Kept(k)
                                /\ Current(k) \in 1..Len(rows)
                                /\ rows[Current(k)] \in Rows
           /\ Current(k) \in Nat
           /\ LatestActive(k) = 0 => Kept(k) = {}
           /\ LatestActive(k) # 0 => /\ LatestActive(k) \in Kept(k)
                                     /\ \A i \in Kept(k) : i <= LatestActive(k)
<1>1. rows \in Seq(Rows) /\ Len(rows) \in Nat /\ DOMAIN rows = 1..Len(rows)
  BY DEF TypeOK
<1>2. Kept(k) \in SUBSET (1..Len(rows))
  BY DEF Kept
<1>3. \A i \in 1..Len(rows) : rows[i] \in Rows
  BY <1>1
<1>4. Kept(k) # {} => /\ LatestActive(k) \in Kept(k)
                      /\ \A i \in Kept(k) : i <= LatestActive(k)
  BY <1>1, <1>2, LatestIsLast DEF LatestActive
<1>5. Kept(k) = {} => LatestActive(k) = 0
  BY DEF LatestActive, Latest
<1> DEFINE I == {i \in Kept(k) : InEffect(i)}
<1>6. I # {} => Current(k) \in I
  BY <1>1, <1>2, LatestIsLast DEF Current
<1>7. I = {} => Current(k) = 0
  BY DEF Current, Latest
<1>8. QED
  BY <1>1, <1>2, <1>4, <1>5, <1>6, <1>7
-------------------------------------------------------------------------------
\* The initial state.
LEMMA BlankTyped ==
    /\ NoRequest \in Requests
    /\ WellFormed(NoRequest.terms)
    /\ Idle \in [pc : {"idle", "saving"}, request : Requests]
<1>1. Never \notin Times /\ 0 \in Times
  BY TermsAssumption DEF Never, Times
<1>2. NoRequest.terms \in Conditions
  BY <1>1, TermsAssumption DEF NoRequest, Conditions, Kinds
<1>3. (CHOOSE k \in Keys : TRUE) \in AllKeys
  BY TermsAssumption DEF AllKeys
<1>4. NoRequest \in Requests
  BY <1>2, <1>3, TermsAssumption DEF NoRequest, Requests
<1>5. WellFormed(NoRequest.terms)
  BY DEF WellFormed, NoRequest
<1>6. QED
  BY <1>4, <1>5 DEF Idle

LEMMA InitIInv == Init => IInv
<1> SUFFICES ASSUME Init PROVE IInv
  OBVIOUS
<1>1. FirstRow \in Rows /\ WellFormed(FirstRow.terms)
  BY BlankTyped, TermsAssumption DEF FirstRow, Rows, AllKeys, ExpiryKeys, Requests
<1>2. /\ rows \in Seq(Rows)
      /\ \A i \in DOMAIN rows : i = 1 /\ WellFormed(rows[i].terms)
  BY <1>1 DEF Init
<1>3. now \in 0..Horizon
  BY TermsAssumption DEF Init
<1>4. contract \in [Contracts -> ContractRows]
  <2>1. <<>> \in Seq(PlanChanges)  OBVIOUS
  <2>. QED  BY <2>1 DEF Init, ContractRows, Contracted
<1>5. /\ actor \in [Actors -> [pc : {"idle", "saving"},
                               request : Requests]]
      /\ Asked
  BY BlankTyped DEF Init, Asked, Idle
<1>6. TypeOK
  BY <1>2, <1>3, <1>4, <1>5 DEF TypeOK, WellFormed
<1>7. VersionsInOrder
  BY <1>2 DEF VersionsInOrder, Kept
<1>8. QED
  BY <1>5, <1>6, <1>7 DEF IInv

-------------------------------------------------------------------------------
\* Steps that save nothing.
LEMMA NothingSaved ==
    ASSUME IInv, rows' = rows, now' \in 0..Horizon,
           contract' \in [Contracts -> ContractRows],
           NEW a \in Actors, NEW pc \in {"idle", "saving"},
           NEW r \in Requests, WellFormed(r.terms),
           \/ actor' = actor
           \/ actor' = [actor EXCEPT ![a] = [pc |-> pc, request |-> r]]
    PROVE  IInv'
<1>1. actor' \in [Actors -> [pc : {"idle", "saving"},
                             request : Requests]]
  BY DEF IInv, TypeOK
<1>2. Asked'
  BY DEF IInv, TypeOK, Asked
<1>3. TypeOK'
  BY DEF IInv, TypeOK
<1>4. VersionsInOrder'
  BY DEF IInv, VersionsInOrder, Kept
<1>5. QED
  BY <1>2, <1>3, <1>4 DEF IInv

LEMMA AskKeeps ==
    ASSUME IInv, NEW a \in Actors, NEW r \in Requests, WellFormed(r.terms),
           Ask(a, r), UNCHANGED <<now, rows, contract>>
    PROVE  IInv'
BY NothingSaved DEF Ask, IInv, TypeOK

LEMMA SetKeeps ==
    ASSUME IInv, NEW k \in Contracts, NEW new \in ContractRows, Set(k, new)
    PROVE  IInv'
<1>1. contract' \in [Contracts -> ContractRows] /\ now' \in 0..Horizon /\ rows' = rows
  BY DEF Set, IInv, TypeOK
<1>2. TypeOK' /\ Asked' /\ VersionsInOrder'
  BY DEF Set, IInv, TypeOK, Asked, VersionsInOrder, Kept
<1>3. QED
  BY <1>2 DEF IInv

-------------------------------------------------------------------------------
\* What handlers and timers ask for is well formed, copies included.
LEMMA InUse ==
    ASSUME IInv, NEW k \in Contracts, Current(k) # 0
    PROVE  /\ rows[Current(k)].terms \in Conditions
           /\ WellFormed(rows[Current(k)].terms)
BY Found DEF IInv, TypeOK, Rows, WellFormed

LEMMA PublishKeeps == ASSUME IInv, NEW h \in Handlers, Publish(h) PROVE IInv'
<1>1. PICK k \in Contracts, key \in Keys, at \in Dates, currency \in Currencies, kind \in Offered :
        \E expires \in {Never} \cup {e \in {at + Period} : kind = "courtesy" /\ e < Horizon} :
          Ask(h, [contract |-> k, key |-> key, historical |-> FALSE,
                  terms |-> [at |-> at, currency |-> currency, from |-> "no",
                             kind |-> kind, expires |-> expires]])
  BY DEF Publish
<1>2. PICK expires \in {Never} \cup {e \in {at + Period} : kind = "courtesy" /\ e < Horizon} :
        Ask(h, [contract |-> k, key |-> key, historical |-> FALSE,
                terms |-> [at |-> at, currency |-> currency, from |-> "no",
                           kind |-> kind, expires |-> expires]])
  BY <1>1
<1> DEFINE t == [at |-> at, currency |-> currency, from |-> "no",
                 kind |-> kind, expires |-> expires]
           r == [contract |-> k, key |-> key, historical |-> FALSE, terms |-> t]
<1>3. at \in Times /\ expires \in Times \cup {Never}
  BY TermsAssumption DEF Dates, Times
<1>4. t \in Conditions
  BY <1>3, TermsAssumption DEF Conditions, Kinds
<1>5. r \in Requests
  BY <1>4 DEF Requests, AllKeys
<1>6. WellFormed(r.terms)
  BY TermsAssumption DEF WellFormed
<1>7. QED
  BY <1>2, <1>5, <1>6, AskKeeps DEF Publish, Actors

LEMMA EndCourtesyKeeps == ASSUME IInv, NEW h \in Handlers, EndCourtesy(h) PROVE IInv'
<1>1. PICK k \in Contracts, key \in Keys :
        /\ InCourtesy(Current(k))
        /\ Ask(h, [contract |-> k, key |-> key, historical |-> TRUE,
                   terms |-> [rows[Current(k)].terms EXCEPT !.at = now, !.expires = now]])
  BY DEF EndCourtesy
<1> DEFINE t == [rows[Current(k)].terms EXCEPT !.at = now, !.expires = now]
           r == [contract |-> k, key |-> key, historical |-> TRUE, terms |-> t]
<1>2. /\ rows[Current(k)].terms \in Conditions
      /\ WellFormed(rows[Current(k)].terms)
      /\ rows[Current(k)].terms.kind = "courtesy"
  BY <1>1, InUse DEF InCourtesy
<1>3. now \in Times
  BY TermsAssumption DEF IInv, TypeOK, Times
<1>4. t \in Conditions /\ WellFormed(t)
  BY <1>2, <1>3 DEF Conditions, WellFormed
<1>5. r \in Requests
  BY <1>4 DEF Requests, AllKeys
<1>6. QED
  BY <1>1, <1>4, <1>5, AskKeeps DEF EndCourtesy, Actors

LEMMA ScheduleCurrencyKeeps ==
    ASSUME IInv, NEW h \in Handlers, ScheduleCurrency(h) PROVE IInv'
<1>1. PICK k \in Contracts, key \in Keys :
        /\ contract[k].cycle # Never
        /\ Current(k) # 0 /\ ~InCourtesy(Current(k))
        /\ \E currency \in OtherCurrencies(k) :
             Ask(h, [contract |-> k, key |-> key, historical |-> TRUE,
                     terms |-> [rows[Current(k)].terms EXCEPT
                                  !.at = contract[k].cycle, !.currency = currency,
                                  !.from = rows[Current(k)].terms.currency,
                                  !.kind = "paid"]])
  BY DEF ScheduleCurrency
<1>2. PICK currency \in OtherCurrencies(k) :
        Ask(h, [contract |-> k, key |-> key, historical |-> TRUE,
                terms |-> [rows[Current(k)].terms EXCEPT
                             !.at = contract[k].cycle, !.currency = currency,
                             !.from = rows[Current(k)].terms.currency,
                             !.kind = "paid"]])
  BY <1>1
<1> DEFINE old == rows[Current(k)].terms
           t   == [old EXCEPT !.at = contract[k].cycle, !.currency = currency,
                              !.from = old.currency, !.kind = "paid"]
           r   == [contract |-> k, key |-> key, historical |-> TRUE, terms |-> t]
<1>3. old \in Conditions /\ WellFormed(old) /\ old.kind # "courtesy"
  BY <1>1, InUse DEF InCourtesy
<1>4. contract[k].cycle \in Times
  BY <1>1 DEF IInv, TypeOK, ContractRows, Contracted
<1>5. currency \in Currencies /\ currency # old.currency
  BY DEF OtherCurrencies
<1>6. t \in Conditions /\ WellFormed(t)
  BY <1>3, <1>4, <1>5 DEF Conditions, WellFormed, Kinds
<1>7. r \in Requests
  BY <1>6 DEF Requests, AllKeys
<1>8. QED
  BY <1>2, <1>6, <1>7, AskKeeps DEF ScheduleCurrency, Actors

LEMMA ExpireKeeps == ASSUME IInv, NEW a \in Timers, Expire(a) PROVE IInv'
<1>1. PICK k \in Cloud :
        /\ Expired(k)
        /\ Ask(a, [contract |-> k, key |-> ExpiryKey(k), historical |-> TRUE,
                   terms |-> [rows[Current(k)].terms EXCEPT
                                !.at = ReturnsAt(k), !.kind = "free", !.expires = Never]])
  BY DEF Expire
<1> DEFINE t == [rows[Current(k)].terms EXCEPT
                   !.at = ReturnsAt(k), !.kind = "free", !.expires = Never]
           r == [contract |-> k, key |-> ExpiryKey(k), historical |-> TRUE, terms |-> t]
<1>2. k \in Contracts
  BY TermsAssumption
<1>3. /\ rows[Current(k)].terms \in Conditions
      /\ WellFormed(rows[Current(k)].terms)
      /\ rows[Current(k)].terms.expires <= now
  BY <1>1, <1>2, InUse DEF Expired, InCourtesy
<1>4. ReturnsAt(k) \in Times
  <2> DEFINE e == rows[Current(k)].terms.expires
  <2>1. e \in Times \cup {Never} /\ e <= now
    BY <1>3 DEF Conditions
  <2>2. now \in 0..Horizon
    BY DEF IInv, TypeOK
  <2>3. e + 1 \in Times
    <3> HIDE DEF e
    <3>1. QED
      BY <2>1, <2>2, TermsAssumption DEF Times, Never
  <2>4. QED
    BY <2>3 DEF ReturnsAt
<1>5. t \in Conditions /\ WellFormed(t)
  BY <1>3, <1>4 DEF Conditions, WellFormed, Kinds
<1>6. ExpiryKey(k) \in AllKeys
  BY <1>2, Found DEF ExpiryKey, ExpiryKeys, AllKeys, IInv
<1>7. r \in Requests
  BY <1>2, <1>5, <1>6 DEF Requests
<1>8. QED
  BY <1>1, <1>5, <1>7, AskKeeps DEF Expire, Actors

-------------------------------------------------------------------------------
\* save() appends a version that starts after the latest one, so after all.
LEMMA AppendKeepsOrder ==
    ASSUME IInv, NEW r \in Requests, DateFits(r),
           rows' = Append(rows, Inserted(r))
    PROVE  VersionsInOrder'
<1> DEFINE n == Len(rows)
<1>1. rows \in Seq(Rows) /\ n \in Nat
  BY DEF IInv, TypeOK
<1>2. /\ DOMAIN rows' = 1..(n + 1)
      /\ \A i \in 1..n : rows'[i] = rows[i]
      /\ rows'[n + 1] = Inserted(r)
  OBVIOUS
<1>3. SUFFICES ASSUME NEW k \in Contracts, NEW i \in Kept(k)', NEW j \in Kept(k)', i < j
               PROVE  rows'[i].terms.at < rows'[j].terms.at
  BY DEF VersionsInOrder
<1>4. i \in 1..n /\ i \in Kept(k)
  BY <1>3 DEF Kept
<1>5. CASE j \in 1..n
  BY <1>3, <1>5 DEF IInv, VersionsInOrder, Kept
<1>6. CASE j = n + 1
  <2> DEFINE l == LatestActive(k)
  <2>1. k = r.contract /\ rows'[j].terms = r.terms
    BY <1>6 DEF Kept, Inserted
  <2>2. l \in Kept(k) /\ i <= l /\ l # 0 /\ l \in 1..n
    BY <1>4, Found DEF IInv
  <2>3. rows[l].terms.at < r.terms.at
    BY <2>1, <2>2 DEF DateFits
  <2>4. i = l \/ rows[i].terms.at < rows[l].terms.at
    BY <1>4, <2>2 DEF IInv, VersionsInOrder
  <2>5. /\ rows[i].terms.at \in Int /\ rows[l].terms.at \in Int
        /\ r.terms.at \in Int
    <3>1. rows[i] \in Rows /\ rows[l] \in Rows
      BY <1>1, <1>4, <2>2
    <3>2. /\ rows[i].terms.at \in Times /\ rows[l].terms.at \in Times
          /\ r.terms.at \in Times
      BY <3>1 DEF Rows, Requests, Conditions
    <3>3. QED
      BY <3>2 DEF Times
  <2>6. QED
    BY <1>4, <2>1, <2>3, <2>4, <2>5
<1>7. QED
  BY <1>5, <1>6 DEF Kept

LEMMA SaveKeeps == ASSUME IInv, NEW a \in Actors, Save(a) PROVE IInv'
<1> DEFINE r == actor[a].request
<1>1. r \in Requests /\ WellFormed(r.terms)
  BY DEF IInv, TypeOK, Asked
<1>2. CASE rows' = rows
  <2>1. actor' = [actor EXCEPT ![a] = [pc |-> "idle", request |-> NoRequest]]
    BY DEF Save, Idle
  <2>2. QED
    BY <1>2, <2>1, BlankTyped, NothingSaved DEF Save, IInv, TypeOK
<1>3. CASE Insertable(r) /\ rows' = Append(rows, Inserted(r))
           /\ actor' = [actor EXCEPT ![a] = Idle]
  <2>1. VersionsInOrder'
    BY <1>1, <1>3, AppendKeepsOrder DEF Insertable, Acceptable
  <2>2. Inserted(r) \in Rows
    BY <1>1 DEF Inserted, Rows, Requests
  <2>3. /\ rows' \in Seq(Rows)
        /\ \A i \in DOMAIN rows' : rows'[i] = Inserted(r) \/ (i \in DOMAIN rows /\ rows'[i] = rows[i])
    BY <1>3, <2>2 DEF IInv, TypeOK
  <2>4. \A i \in DOMAIN rows' : WellFormed(rows'[i].terms)
    BY <1>1, <2>3 DEF IInv, TypeOK, WellFormed, Inserted
  <2>5. actor' \in [Actors -> [pc : {"idle", "saving"},
                               request : Requests]]
    BY <1>3, BlankTyped DEF IInv, TypeOK
  <2>6. Asked'
    BY <1>3, BlankTyped DEF IInv, Asked, Idle
  <2>7. TypeOK'
    BY <2>3, <2>4, <2>5 DEF Save, IInv, TypeOK, WellFormed
  <2>8. QED
    BY <2>1, <2>6, <2>7 DEF IInv
<1>4. QED
  BY <1>2, <1>3 DEF Save

\* What a delivery or a cancellation writes leaves conditions and dates alone.
LEMMA MarkKeeps ==
    ASSUME IInv, NEW i \in DOMAIN rows,
           \/ rows' = [rows EXCEPT ![i].synced = TRUE]
           \/ rows' = [rows EXCEPT ![i].cancelled = TRUE],
           UNCHANGED <<now, contract, actor>>
    PROVE  IInv'
<1>1. rows \in Seq(Rows) /\ rows[i] \in Rows
  BY DEF IInv, TypeOK
<1>2. /\ DOMAIN rows' = DOMAIN rows
      /\ \A j \in DOMAIN rows : j # i => rows'[j] = rows[j]
      /\ \/ rows'[i] = [rows[i] EXCEPT !.synced = TRUE]
         \/ rows'[i] = [rows[i] EXCEPT !.cancelled = TRUE]
  OBVIOUS
<1>3. /\ rows'[i] \in Rows
      /\ rows'[i].terms = rows[i].terms
      /\ rows'[i].contract = rows[i].contract
      /\ rows[i].cancelled => rows'[i].cancelled
  BY <1>1, <1>2 DEF Rows
<1>4. \A j \in DOMAIN rows : /\ rows'[j] \in Rows
                             /\ rows'[j].terms = rows[j].terms
                             /\ rows'[j].contract = rows[j].contract
                             /\ rows[j].cancelled => rows'[j].cancelled
  BY <1>1, <1>3
<1>5. rows' \in Seq(Rows)
  BY <1>4
<1>6. TypeOK'
  BY <1>4 DEF IInv, TypeOK
<1>7. VersionsInOrder'
  BY <1>4 DEF IInv, VersionsInOrder, Kept
<1>8. QED
  BY <1>6, <1>7 DEF IInv, Asked

LEMMA SyncKeeps == ASSUME IInv, NEW i \in DOMAIN rows, Sync(i) PROVE IInv'
  BY MarkKeeps DEF Sync

LEMMA CancelKeeps == ASSUME IInv, NEW i \in DOMAIN rows, Cancel(i) PROVE IInv'
  BY MarkKeeps DEF Cancel

LEMMA ContractKeeps ==
    ASSUME IInv, NEW k \in Contracts,
           \/ Open(k) \/ Terminate(k) \/ Close(k) \/ Enroll(k) \/ CycleBilled(k) \/ ChangeOver(k)
    PROVE  IInv'
<1>1. /\ contract[k] \in ContractRows
      /\ contract[k].cycle \in Times \cup {Never}
      /\ now \in 0..Horizon
  BY DEF IInv, TypeOK, ContractRows, Contracted
<1>2. CASE Open(k)
  BY <1>1, <1>2, SetKeeps DEF Open, ContractRows, Contracted
<1>3. CASE Terminate(k)
  BY <1>1, <1>3, SetKeeps DEF Terminate, ContractRows, Contracted
<1>4. CASE Close(k)
  BY <1>1, <1>4, SetKeeps DEF Close, ContractRows, Contracted
<1>5. CASE Enroll(k)
  <2>1. PICK c \in now..(now + Period) : Set(k, [contract[k] EXCEPT !.cycle = c])
    BY <1>5 DEF Enroll
  <2>2. c \in Times
    BY <1>1, TermsAssumption DEF Times
  <2>3. QED
    BY <1>1, <2>1, <2>2, SetKeeps DEF ContractRows, Contracted
<1>6. CASE CycleBilled(k)
  <2>1. contract[k].cycle + Period \in Times
    BY <1>1, <1>6, TermsAssumption DEF CycleBilled, Times, Never
  <2>2. [contract[k] EXCEPT !.cycle = @ + Period] \in ContractRows
    BY <1>1, <2>1 DEF ContractRows, Contracted
  <2>3. QED
    BY <1>6, <2>2, SetKeeps DEF CycleBilled
<1>7. CASE ChangeOver(k)
  BY <1>1, <1>7, SetKeeps DEF ChangeOver, ContractRows, Contracted
<1>8. QED
  BY <1>2, <1>3, <1>4, <1>5, <1>6, <1>7

\* A plan change is requested for a target in the currency of what is in effect.
LEMMA Targeted ==
    ASSUME IInv, NEW k \in Contracts, NEW base \in Bases(k), NEW kind \in Kinds \ {"courtesy"},
           NEW at \in Times
    PROVE  Target(kind, base, at) \in Targets
<1>1. base \in DOMAIN rows  BY DEF Bases, Kept
<1>2. rows[base].terms \in Conditions
  <2>1. rows[base] \in Rows  BY <1>1 DEF IInv, TypeOK
  <2>. QED  BY <2>1 DEF Rows
<1>3. rows[base].terms.currency \in Currencies  BY <1>2 DEF Conditions
<1>4. Target(kind, base, at) \in Conditions  BY <1>3 DEF Target, Conditions, Kinds
<1>. QED  BY <1>4 DEF Target, Targets

LEMMA StartChangeKeeps == ASSUME IInv, NEW k \in Contracts, StartChange(k) PROVE IInv'
<1>1. PICK base \in Bases(k), kind \in Offered \ {"courtesy"} :
        \E plan \in {Downgrade(k, kind, base)} \cup {p \in {Upgrade(base)} : kind = "paid"} :
           Set(k, [contract[k] EXCEPT !.change = TRUE, !.plans = Append(@, plan)])
  BY DEF StartChange
<1>2. /\ contract[k] \in ContractRows /\ contract[k].cycle \in Times
      /\ contract[k].plans \in Seq(PlanChanges)
  BY DEF IInv, TypeOK, ContractRows, Contracted, StartChange
<1>3. kind \in Kinds \ {"courtesy"} /\ "paid" \in Kinds \ {"courtesy"} /\ 0 \in Times
      /\ base \in Nat
  <2>1. base \in 1..Len(rows) /\ Len(rows) \in Nat  BY DEF Bases, Kept, IInv, TypeOK
  <2>. QED  BY <2>1, TermsAssumption DEF Kinds, Times
<1>4. Upgrade(base) \in PlanChanges /\ Downgrade(k, kind, base) \in PlanChanges
  BY <1>2, <1>3, Targeted DEF Upgrade, Downgrade, PlanChanges
<1>5. PICK plan \in PlanChanges :
        Set(k, [contract[k] EXCEPT !.change = TRUE, !.plans = Append(@, plan)])
  BY <1>1, <1>4
<1> DEFINE new == [contract[k] EXCEPT !.change = TRUE, !.plans = Append(@, plan)]
<1>6. Append(contract[k].plans, plan) \in Seq(PlanChanges) /\ Append(contract[k].plans, plan) # <<>>
  BY <1>2
<1>7. new \in ContractRows  BY <1>2, <1>6 DEF ContractRows, Contracted
<1>8. Set(k, new)  BY <1>5
<1> HIDE DEF new
<1>. QED  BY <1>7, <1>8, SetKeeps

\* The plan change that is under way is one of those of the contract.
LEMMA LastTyped ==
    ASSUME IInv, NEW k \in Contracts, contract[k].change
    PROVE  /\ contract[k].plans \in Seq(PlanChanges)
           /\ Len(contract[k].plans) \in DOMAIN contract[k].plans
           /\ LastPlan(k) \in PlanChanges /\ LastPlan(k).target \in Targets
           /\ ChangeKey(k) \in ChangeKeys
<1>1. contract[k].plans \in Seq(PlanChanges) /\ contract[k].plans # <<>>
  BY DEF IInv, TypeOK, ContractRows, Contracted
<1>2. Len(contract[k].plans) \in 1..Len(contract[k].plans) /\ Len(contract[k].plans) \in Nat
  BY <1>1
<1>3. LastPlan(k) \in PlanChanges  BY <1>1, <1>2 DEF LastPlan
<1>. QED  BY <1>1, <1>2, <1>3 DEF PlanChanges, ChangeKey, ChangeKeys

LEMMA ChangePaidKeeps == ASSUME IInv, NEW k \in Contracts, ChangePaid(k) PROVE IInv'
<1> DEFINE n    == Len(contract[k].plans)
           paid == [LastPlan(k) EXCEPT !.target.at = now, !.due = TRUE]
           new  == [contract[k] EXCEPT !.plans[n] = paid]
<1>1. contract[k].change /\ Set(k, new)  BY DEF ChangePaid
<1>2. now \in Times  BY TermsAssumption DEF IInv, TypeOK, Times
<1>3. paid \in PlanChanges
  <2>1. LastPlan(k) \in PlanChanges /\ LastPlan(k).target \in Targets
    BY <1>1, LastTyped
  <2>2. [LastPlan(k).target EXCEPT !.at = now] \in Targets
    BY <1>2, <2>1 DEF Targets, Conditions
  <2>. QED  BY <2>1, <2>2 DEF PlanChanges
<1>4. contract[k].plans \in Seq(PlanChanges) /\ n \in DOMAIN contract[k].plans
  BY <1>1, LastTyped
<1> HIDE DEF paid
<1>5. /\ [contract[k].plans EXCEPT ![n] = paid] \in Seq(PlanChanges)
      /\ [contract[k].plans EXCEPT ![n] = paid] # <<>>
  BY <1>3, <1>4
<1>6. contract[k] \in ContractRows  BY DEF IInv, TypeOK
<1>7. new \in ContractRows  BY <1>5, <1>6 DEF ContractRows, Contracted
<1> HIDE DEF new
<1>. QED  BY <1>1, <1>7, SetKeeps

\* What is published for a plan change is its target.
LEMMA ChangePlanKeeps == ASSUME IInv, NEW h \in Handlers, ChangePlan(h) PROVE IInv'
<1>1. PICK k \in Cloud :
        /\ contract[k].change
        /\ Ask(h, [contract |-> k, key |-> ChangeKey(k), historical |-> TRUE,
                   terms |-> LastPlan(k).target])
  BY DEF ChangePlan, MayTakeEffect
<1> DEFINE r == [contract |-> k, key |-> ChangeKey(k), historical |-> TRUE,
                 terms |-> LastPlan(k).target]
<1>2. k \in Contracts  BY TermsAssumption
<1>3. LastPlan(k).target \in Targets /\ ChangeKey(k) \in ChangeKeys
  BY <1>1, <1>2, LastTyped
<1>4. r \in Requests  BY <1>2, <1>3 DEF Requests, AllKeys, Targets
<1>5. WellFormed(r.terms)
  <2>1. r.terms.from = "no" /\ r.terms.expires = Never /\ r.terms.currency \in Currencies
    BY <1>3 DEF Targets, Conditions
  <2>. QED  BY <2>1, TermsAssumption DEF WellFormed
<1>6. UNCHANGED <<now, rows, contract>> /\ h \in Actors  BY DEF ChangePlan, Actors
<1>7. Ask(h, r)  BY <1>1
<1> HIDE DEF r
<1>. QED  BY <1>4, <1>5, <1>6, <1>7, AskKeeps

LEMMA TickKeeps == ASSUME IInv, Tick PROVE IInv'
<1>1. now' \in 0..Horizon
  BY TermsAssumption DEF Tick, IInv, TypeOK
<1>2. QED
  BY <1>1 DEF Tick, IInv, TypeOK, Asked, VersionsInOrder, Kept

\* The invariant is inductive.
LEMMA NextIInv == IInv /\ [Next]_vars => IInv'
<1> SUFFICES ASSUME IInv, [Next]_vars PROVE IInv'
  OBVIOUS
<1>1. ASSUME NEW h \in Handlers, Ask1(h) PROVE IInv'
  BY <1>1, PublishKeeps, EndCourtesyKeeps, ScheduleCurrencyKeeps, ChangePlanKeeps DEF Ask1
<1>2. ASSUME NEW k \in Cloud, StartChange(k) \/ ChangePaid(k) \/ ChangeOver(k) PROVE IInv'
  <2>1. k \in Contracts  BY TermsAssumption
  <2>. QED  BY <1>2, <2>1, StartChangeKeeps, ChangePaidKeeps, ContractKeeps
<1>3. CASE UNCHANGED vars
  BY <1>3 DEF vars, IInv, TypeOK, Asked, VersionsInOrder, Kept
<1>4. QED
  BY <1>1, <1>2, <1>3, SaveKeeps, ExpireKeeps, SyncKeeps, CancelKeeps, ContractKeeps, TickKeeps
     DEF Next

-------------------------------------------------------------------------------
\* The invariant holds of every reachable state.
THEOREM Invariance == Spec => []IInv
  BY InitIInv, NextIInv, PTL DEF Spec

\* The variables keep their types, a change of currency changes it, and only
\* courtesies expire.
THEOREM TypeCorrect == Spec => []TypeOK
  BY Invariance, PTL DEF IInv

\* Versions of a contract that are not cancelled start in their order, through
\* backdated returns, copies of what was read before, and cancellations.
THEOREM VersionsOrdered == Spec => []VersionsInOrder
  BY Invariance, PTL DEF IInv
===============================================================================
