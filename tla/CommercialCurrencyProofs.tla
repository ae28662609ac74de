----------------------- MODULE CommercialCurrencyProofs -----------------------
(***************************************************************************)
(* Theorems of CommercialTerms about the currency of a customer that has   *)
(* conditions in effect from the beginning: its open contracts are in one, *)
(* and never is a change of it under way together with a change of plan.   *)
(*                                                                         *)
(* What a handler is about to save was read before the lock.  A change it  *)
(* asks for may then be out of date in two ways only, and is refused in    *)
(* both: the currency is still the one it starts from, or the contract has *)
(* a version that starts no earlier.  That a scheduled change stays the    *)
(* last version, and the only contract that is open stays the one it is    *)
(* for, makes the rest of it inductive.                                    *)
(*                                                                         *)
(* The past stands for like reasons: a date beyond the tolerance is asked  *)
(* for in four ways, and what is saved is the last of what has started.    *)
(***************************************************************************)
EXTENDS CommercialTermsProofs

Standing == {i \in DOMAIN rows : ~rows[i].cancelled}

Effective == {i \in Standing : InEffect(i)}

Scheduled == {i \in Standing : ~InEffect(i)}

Account == rows[Newest].terms.currency

Running(k) == contract[k].status = "ativo"

RunningFor(i) == Running(rows[i].contract)

\* A customer has conditions in effect, and versions of its contracts only.
Acquainted == /\ Effective # {}
              /\ \A i \in DOMAIN rows : contract[rows[i].contract].status # "absent"

\* A courtesy changes no currency.
CourtesiesKeep ==
    /\ \A i \in DOMAIN rows : rows[i].terms.kind = "courtesy" => rows[i].terms.from = "no"
    /\ \A a \in Actors : actor[a].request.terms.kind = "courtesy" =>
                         actor[a].request.terms.from = "no"

\* Until it is in effect, a change of currency is the last version, no other
\* contract is open, its date is that of the next cycle, and no plan changes.
ChangeStands == \A i \in Scheduled : IsChange(i) =>
    /\ i = Len(rows)
    /\ \A j \in DOMAIN rows : rows[j].contract # rows[i].contract => ~RunningFor(j)
    /\ RunningFor(i) => contract[rows[i].contract].cycle = rows[i].terms.at
    /\ \A k \in Contracts : ~contract[k].change

\* What is in effect, or will be without a change, is in the one currency.
SameAccount ==
    /\ \A k \in Contracts : Running(k) /\ Current(k) # 0 =>
           rows[Current(k)].terms.currency = Account
    /\ \A i \in Scheduled : ~IsChange(i) /\ (RunningFor(i) \/ i > Newest) =>
           rows[i].terms.currency = Account

Known(k) == \E i \in Effective : rows[i].contract = k

\* A request for a change is right about the currency, or comes too late.
Fits(r) ==
    LET k == r.contract IN
    r.terms.from # "no" =>
        /\ Known(k)
        /\ Running(k) =>
             /\ contract[k].cycle # Never
             /\ r.terms.at <= contract[k].cycle
             /\ \/ r.terms.from = Account
                \/ \E i \in Effective : rows[i].contract = k /\ r.terms.at <= rows[i].terms.at

AskedFits == \A a \in Actors : Fits(actor[a].request)

CInv == /\ IInv /\ Acquainted /\ CourtesiesKeep /\ ChangeStands /\ SameAccount
        /\ AskedFits

-------------------------------------------------------------------------------
\* What the queries find, by its place among the versions that stand.
Lookups ==
    /\ Standing \subseteq 1..Len(rows)
    /\ Effective # {} => Newest \in Effective
    /\ \A i \in Effective : i <= Newest
    /\ \A k \in Contracts : Current(k) # 0 =>
           Current(k) \in Effective /\ rows[Current(k)].contract = k
    /\ \A i \in Effective :
           Current(rows[i].contract) # 0 /\ i <= Current(rows[i].contract)

\* Types of a version, and of what is asked for.
LEMMA Typed ==
    TypeOK => /\ DOMAIN rows = 1..Len(rows) /\ Len(rows) \in Nat
              /\ \A i \in DOMAIN rows : /\ rows[i].contract \in Contracts
                                        /\ rows[i].terms \in Conditions
                                        /\ rows[i].terms.at \in Int
              /\ \A a \in Actors : /\ actor[a].request \in Requests
                                   /\ actor[a].request.contract \in Contracts
                                   /\ actor[a].request.terms.at \in Int
              /\ \A k \in Contracts : contract[k] \in ContractRows
              /\ now \in Int
<1> SUFFICES ASSUME TypeOK
             PROVE  /\ DOMAIN rows = 1..Len(rows) /\ Len(rows) \in Nat
                    /\ \A i \in DOMAIN rows : /\ rows[i].contract \in Contracts
                                              /\ rows[i].terms \in Conditions
                                              /\ rows[i].terms.at \in Int
                    /\ \A a \in Actors : /\ actor[a].request \in Requests
                                         /\ actor[a].request.contract \in Contracts
                                         /\ actor[a].request.terms.at \in Int
                    /\ \A k \in Contracts : contract[k] \in ContractRows
                    /\ now \in Int
  OBVIOUS
<1>1. rows \in Seq(Rows)  BY DEF TypeOK
<1>2. \A t \in Conditions : t.at \in Int  BY DEF Conditions, Times
<1>3. \A i \in DOMAIN rows : rows[i] \in Rows  BY <1>1
<1>4. \A i \in DOMAIN rows : rows[i].contract \in Contracts /\ rows[i].terms \in Conditions
  BY <1>3 DEF Rows
<1>5. \A a \in Actors : actor[a].request \in Requests  BY DEF TypeOK
<1>6. \A r \in Requests : r.contract \in Contracts /\ r.terms \in Conditions
  BY DEF Requests
<1>7. \A k \in Contracts : contract[k] \in ContractRows  BY DEF TypeOK
<1>8. now \in Int  BY DEF TypeOK
<1>. QED  BY <1>1, <1>2, <1>4, <1>5, <1>6, <1>7, <1>8

LEMMA Queries ==
    TypeOK => /\ Standing \subseteq 1..Len(rows)
              /\ AllKept = Standing
              /\ Newest = Latest(Effective)
              /\ \A k \in Contracts : Kept(k) = {i \in Standing : rows[i].contract = k}
              /\ \A k \in Contracts :
                    Current(k) = Latest({i \in Effective : rows[i].contract = k})
<1> SUFFICES ASSUME TypeOK
             PROVE  /\ Standing \subseteq 1..Len(rows)
                    /\ AllKept = Standing
                    /\ Newest = Latest(Effective)
                    /\ \A k \in Contracts : Kept(k) = {i \in Standing : rows[i].contract = k}
                    /\ \A k \in Contracts :
                          Current(k) = Latest({i \in Effective : rows[i].contract = k})
  OBVIOUS
<1>1. \A i \in DOMAIN rows : rows[i].contract \in Contracts
  BY Typed
<1>2. \A k \in Contracts : Kept(k) = {i \in Standing : rows[i].contract = k}
  BY DEF Kept, Standing
<1>3. AllKept = Standing
  BY <1>1, <1>2 DEF AllKept, Standing
<1>4. Newest = Latest(Effective)
  BY <1>3 DEF Newest, Effective
<1>5. ASSUME NEW k \in Contracts
      PROVE  Current(k) = Latest({i \in Effective : rows[i].contract = k})
  <2>1. {i \in Kept(k) : InEffect(i)} = {i \in Effective : rows[i].contract = k}
    BY <1>2 DEF Effective
  <2>2. QED
    BY <2>1 DEF Current
<1>6. Standing \subseteq 1..Len(rows)
  BY DEF Standing, TypeOK
<1>7. QED
  BY <1>2, <1>3, <1>4, <1>5, <1>6

LEMMA LookupsNow == TypeOK => Lookups
<1> SUFFICES ASSUME TypeOK PROVE Lookups
  OBVIOUS
<1>1. Len(rows) \in Nat /\ Effective \subseteq 1..Len(rows)
  BY Queries DEF TypeOK, Effective
<1>2. \A i \in Effective : rows[i].contract \in Contracts
  BY Typed DEF Effective, Standing
<1>3. Effective # {} => Newest \in Effective /\ \A i \in Effective : i <= Newest
  BY <1>1, LatestIsLast, Queries
<1>4. ASSUME NEW k \in Contracts, NEW I, I = {i \in Effective : rows[i].contract = k}
      PROVE  /\ Current(k) # 0 => Current(k) \in I
             /\ \A i \in I : Current(k) # 0 /\ i <= Current(k)
  <2>1. Current(k) = Latest(I) /\ I \subseteq 1..Len(rows)
    BY <1>1, <1>4, Queries
  <2>2. I = {} => Current(k) = 0
    BY <2>1 DEF Latest
  <2>3. I # {} => Current(k) \in I /\ \A i \in I : i <= Current(k)
    BY <1>1, <2>1, LatestIsLast
  <2>4. QED
    BY <2>1, <2>2, <2>3
<1>5. ASSUME NEW k \in Contracts, Current(k) # 0
      PROVE  Current(k) \in Effective /\ rows[Current(k)].contract = k
  BY <1>4, <1>5
<1>6. ASSUME NEW i \in Effective
      PROVE  Current(rows[i].contract) # 0 /\ i <= Current(rows[i].contract)
  BY <1>2, <1>4, <1>6
<1>7. Standing \subseteq 1..Len(rows)
  BY Queries
<1>8. QED
  BY <1>3, <1>5, <1>6, <1>7 DEF Lookups

LEMMA LookupsNext == TypeOK' => Lookups'
  BY LookupsNow, PTL

-------------------------------------------------------------------------------
\* The initial state.
LEMMA InitCInv == Established /\ Init => CInv
<1> SUFFICES ASSUME Established, Init PROVE CInv
  OBVIOUS
<1>1. IInv  BY InitIInv
<1>2. rows = <<FirstRow>> /\ now = 0  BY DEF Init
<1>3. FirstRow.terms = NoRequest.terms /\ FirstRow.contract = First /\ ~FirstRow.cancelled
  BY DEF FirstRow
<1>4. NoRequest.terms.from = "no" /\ NoRequest.terms.at = 0  BY DEF NoRequest
<1>5. Effective = {1} /\ Scheduled = {}
  BY <1>2, <1>3, <1>4 DEF Effective, Scheduled, Standing, InEffect
<1>6. Lookups  BY <1>1, LookupsNow DEF IInv
<1>7. Newest = 1  BY <1>5, <1>6 DEF Lookups
<1>8. \A k \in Contracts : Current(k) # 0 => Current(k) = 1
  BY <1>5, <1>6 DEF Lookups
<1>9. \A a \in Actors : actor[a] = Idle /\ actor[a].request.terms.from = "no"
  BY <1>4 DEF Init, Idle
<1>10. Acquainted
  <2>1. contract[First].status = "ativo"  BY TermsAssumption DEF Init
  <2>. QED  BY <1>2, <1>3, <1>5, <2>1 DEF Acquainted
<1>11. CourtesiesKeep  BY <1>2, <1>3, <1>4, <1>9 DEF CourtesiesKeep
<1>12. ChangeStands  BY <1>5 DEF ChangeStands
<1>13. SameAccount  BY <1>5, <1>7, <1>8 DEF SameAccount, Account
<1>14. AskedFits  BY <1>9 DEF AskedFits, Fits, Idle
<1>. QED  BY <1>1, <1>10, <1>11, <1>12, <1>13, <1>14 DEF CInv

-------------------------------------------------------------------------------
\* Steps of handlers and timers before save(), or that save nothing.
LEMMA SameRows ==
    ASSUME UNCHANGED <<now, rows>>
    PROVE  /\ Effective' = Effective /\ Scheduled' = Scheduled
           /\ Newest' = Newest /\ Account' = Account
           /\ \A k \in Contracts : Current(k)' = Current(k) /\ (Known(k)' <=> Known(k))
           /\ \A i \in DOMAIN rows : IsChange(i)' <=> IsChange(i)
BY DEF Effective, Scheduled, Standing, InEffect, Newest, AllKept, Kept, Account, Current, Known,
       IsChange

LEMMA ActorKeeps ==
    ASSUME CInv, IInv', UNCHANGED <<now, rows, contract>>,
           NEW a \in Actors, NEW pc, NEW r \in Requests,
           actor' = [actor EXCEPT ![a] = [pc |-> pc, request |-> r]],
           r.terms.kind = "courtesy" => r.terms.from = "no",
           Fits(r)
    PROVE  CInv'
<1>1. /\ Effective' = Effective /\ Scheduled' = Scheduled
      /\ Newest' = Newest /\ Account' = Account
      /\ \A k \in Contracts : Current(k)' = Current(k) /\ (Known(k)' <=> Known(k))
      /\ \A i \in DOMAIN rows : IsChange(i)' <=> IsChange(i)
  BY SameRows
<1>2. Acquainted'  BY <1>1 DEF CInv, Acquainted
<1>3. ChangeStands'
  BY <1>1 DEF CInv, ChangeStands, Scheduled, Standing, RunningFor, Running
<1>4. SameAccount'
  BY <1>1 DEF CInv, SameAccount, Scheduled, Standing, RunningFor, Running
<1>5. \A b \in Actors : actor'[b] = IF b = a THEN [pc |-> pc, request |-> r] ELSE actor[b]
  BY DEF CInv, IInv, TypeOK
<1>6. CourtesiesKeep'  BY <1>5 DEF CInv, CourtesiesKeep
<1>7. r.contract \in Contracts /\ \A b \in Actors : actor[b].request.contract \in Contracts
  BY Typed DEF CInv, IInv, Requests
<1>9. \A q : q.contract \in Contracts /\ Fits(q) => Fits(q)'
  BY <1>1 DEF Fits, Running
<1>10. AskedFits'  BY <1>5, <1>7, <1>9 DEF CInv, AskedFits
<1>. QED  BY <1>2, <1>3, <1>4, <1>6, <1>10 DEF CInv

LEMMA AskFits ==
    ASSUME CInv, IInv', NEW a \in Actors, NEW r \in Requests, Ask(a, r),
           UNCHANGED <<now, rows, contract>>,
           r.terms.kind = "courtesy" => r.terms.from = "no",
           Fits(r)
    PROVE  CInv'
<1>1. actor' = [actor EXCEPT ![a] = [pc |-> "saving", request |-> r]]  BY DEF Ask
<1>. QED  BY <1>1, ActorKeeps, Zenon

LEMMA AskedTyped ==
    ASSUME CInv, IInv', NEW a \in Actors, NEW r, Ask(a, r)
    PROVE  r \in Requests
<1>1. actor'[a].request = r  BY DEF Ask, CInv, IInv, TypeOK
<1>. QED  BY <1>1 DEF IInv, TypeOK

LEMMA CourtesyKept ==
    ASSUME CInv, NEW k \in Contracts, InCourtesy(Current(k))
    PROVE  rows[Current(k)].terms \in Conditions /\ rows[Current(k)].terms.from = "no"
<1>1. Current(k) \in DOMAIN rows
  BY LookupsNow DEF InCourtesy, Lookups, CInv, IInv, Effective, Standing
<1>. QED  BY <1>1, Typed DEF InCourtesy, CInv, IInv, CourtesiesKeep

\* What is asked for without a change of currency fits.
LEMMA PublishCurrency == ASSUME CInv, IInv', NEW h \in Handlers, Publish(h) PROVE CInv'
<1>1. PICK r \in Requests : Ask(h, r) /\ r.terms.from = "no"
  <2>1. PICK k \in Contracts, key \in Keys, at \in Dates, currency \in Currencies,
             kind \in Offered :
          \E expires \in {Never} \cup {e \in {at + Period} : kind = "courtesy" /\ e < Horizon} :
            Ask(h, [contract |-> k, key |-> key, historical |-> FALSE,
                    terms |-> [at |-> at, currency |-> currency, from |-> "no",
                               kind |-> kind, expires |-> expires]])
    BY DEF Publish
  <2>2. PICK expires \in {Never} \cup {e \in {at + Period} : kind = "courtesy" /\ e < Horizon} :
          Ask(h, [contract |-> k, key |-> key, historical |-> FALSE,
                  terms |-> [at |-> at, currency |-> currency, from |-> "no",
                             kind |-> kind, expires |-> expires]])
    BY <2>1
  <2> DEFINE r == [contract |-> k, key |-> key, historical |-> FALSE,
                   terms |-> [at |-> at, currency |-> currency, from |-> "no",
                              kind |-> kind, expires |-> expires]]
  <2>3. r \in Requests  BY <2>2, AskedTyped DEF Actors
  <2>. QED  BY <2>2, <2>3
<1>2. UNCHANGED <<now, rows, contract>> /\ h \in Actors  BY DEF Publish, Actors
<1>3. \A q \in Requests : q.terms.from = "no" => Fits(q)  BY DEF Fits
<1>. QED  BY <1>1, <1>2, <1>3, AskFits

LEMMA EndCourtesyCurrency ==
    ASSUME CInv, IInv', NEW h \in Handlers, EndCourtesy(h) PROVE CInv'
<1>1. PICK k \in Contracts, key \in Keys :
        /\ InCourtesy(Current(k))
        /\ Ask(h, [contract |-> k, key |-> key, historical |-> TRUE,
                   terms |-> [rows[Current(k)].terms EXCEPT !.at = now, !.expires = now]])
  BY DEF EndCourtesy
<1> DEFINE r == [contract |-> k, key |-> key, historical |-> TRUE,
                 terms |-> [rows[Current(k)].terms EXCEPT !.at = now, !.expires = now]]
<1>2. r \in Requests  BY <1>1, AskedTyped DEF EndCourtesy, Actors
<1>3. r.terms.from = "no"  BY <1>1, CourtesyKept DEF Conditions
<1>4. Fits(r)  BY <1>3 DEF Fits
<1>5. UNCHANGED <<now, rows, contract>> /\ h \in Actors  BY DEF EndCourtesy, Actors
<1>6. Ask(h, r)  BY <1>1
<1> HIDE DEF r
<1>. QED  BY <1>2, <1>3, <1>4, <1>5, <1>6, AskFits

LEMMA ExpireCurrency == ASSUME CInv, IInv', NEW t \in Timers, Expire(t) PROVE CInv'
<1>1. PICK k \in Cloud :
        /\ Expired(k)
        /\ Ask(t, [contract |-> k, key |-> ExpiryKey(k), historical |-> TRUE,
                   terms |-> [rows[Current(k)].terms EXCEPT
                                !.at = ReturnsAt(k), !.kind = "free", !.expires = Never]])
  BY DEF Expire
<1> DEFINE r == [contract |-> k, key |-> ExpiryKey(k), historical |-> TRUE,
                 terms |-> [rows[Current(k)].terms EXCEPT
                              !.at = ReturnsAt(k), !.kind = "free", !.expires = Never]]
<1>2. r \in Requests  BY <1>1, AskedTyped DEF Expire, Actors
<1>3. k \in Contracts  BY TermsAssumption
<1>4. r.terms.from = "no"  BY <1>1, <1>3, CourtesyKept DEF Expired, Conditions
<1>5. Fits(r)  BY <1>4 DEF Fits
<1>6. UNCHANGED <<now, rows, contract>> /\ t \in Actors  BY DEF Expire, Actors
<1>7. Ask(t, r)  BY <1>1
<1> HIDE DEF r
<1>. QED  BY <1>2, <1>4, <1>5, <1>6, <1>7, AskFits

\* A change of currency starts from the one currency, at the next cycle.
LEMMA ScheduleCurrencyFits ==
    ASSUME CInv, IInv', NEW h \in Handlers, ScheduleCurrency(h) PROVE CInv'
<1>1. PICK k \in Contracts, key \in Keys :
        /\ contract[k].status = "ativo"
        /\ contract[k].cycle # Never
        /\ Current(k) # 0
        /\ \E currency \in OtherCurrencies(k) :
             Ask(h, [contract |-> k, key |-> key, historical |-> TRUE,
                     terms |-> [rows[Current(k)].terms EXCEPT
                                  !.at = contract[k].cycle, !.currency = currency,
                                  !.from = rows[Current(k)].terms.currency,
                                  !.kind = "paid"]])
  BY DEF ScheduleCurrency
<1>2. PICK currency \in OtherCurrencies(k) :
        Ask(h, [contract |-> k, key |-> key, historical |-> TRUE,
                terms |-> [rows[Current(k)].terms EXCEPT
                             !.at = contract[k].cycle, !.currency = currency,
                             !.from = rows[Current(k)].terms.currency,
                             !.kind = "paid"]])
  BY <1>1
<1> DEFINE r == [contract |-> k, key |-> key, historical |-> TRUE,
                 terms |-> [rows[Current(k)].terms EXCEPT
                              !.at = contract[k].cycle, !.currency = currency,
                              !.from = rows[Current(k)].terms.currency,
                              !.kind = "paid"]]
<1>3. r \in Requests  BY <1>2, AskedTyped DEF ScheduleCurrency, Actors
<1>4. Current(k) \in Effective /\ rows[Current(k)].contract = k
  BY <1>1, LookupsNow DEF CInv, IInv, Lookups
<1>5. rows[Current(k)].terms \in Conditions
  BY <1>4, Typed DEF CInv, IInv, Effective, Standing
<1>6. /\ r.terms.from = Account /\ r.terms.kind = "paid"
      /\ r.terms.at = contract[k].cycle
  BY <1>1, <1>5 DEF CInv, SameAccount, Running, Conditions
<1>7. contract[k].cycle \in Int
  BY <1>1, Typed DEF CInv, IInv, ContractRows, Contracted, Times
<1>8. Fits(r)  BY <1>1, <1>4, <1>6, <1>7 DEF Fits, Known
<1>9. UNCHANGED <<now, rows, contract>> /\ h \in Actors  BY DEF ScheduleCurrency, Actors
<1>10. Ask(h, r)  BY <1>2
<1> HIDE DEF r
<1>. QED  BY <1>3, <1>6, <1>8, <1>9, <1>10, AskFits

LEMMA ChangePlanCurrency ==
    ASSUME CInv, IInv', NEW h \in Handlers, ChangePlan(h) PROVE CInv'
<1>1. PICK k \in Cloud :
        /\ contract[k].change
        /\ Ask(h, [contract |-> k, key |-> ChangeKey(k), historical |-> TRUE,
                   terms |-> LastPlan(k).target])
  BY DEF ChangePlan, MayTakeEffect
<1> DEFINE r == [contract |-> k, key |-> ChangeKey(k), historical |-> TRUE,
                 terms |-> LastPlan(k).target]
<1>2. r \in Requests  BY <1>1, AskedTyped DEF ChangePlan, Actors
<1>3. LastPlan(k).target \in Targets  BY <1>1, LastTyped, TermsAssumption DEF CInv
<1>4. r.terms.from = "no" /\ r.terms.kind # "courtesy"  BY <1>3 DEF Targets
<1>5. Fits(r)  BY <1>4 DEF Fits
<1>6. UNCHANGED <<now, rows, contract>> /\ h \in Actors  BY DEF ChangePlan, Actors
<1>7. Ask(h, r)  BY <1>1
<1> HIDE DEF r
<1>. QED  BY <1>2, <1>4, <1>5, <1>6, <1>7, AskFits

LEMMA BlankKeeps ==
    ASSUME CInv, IInv', NEW a \in Actors,
           actor' = [actor EXCEPT ![a] = [pc |-> "idle", request |-> NoRequest]],
           UNCHANGED <<now, rows, contract>>
    PROVE  CInv'
<1>1. NoRequest.terms.from = "no" /\ NoRequest.terms.kind = "paid"  BY DEF NoRequest
<1>. QED  BY <1>1, BlankTyped, ActorKeeps DEF Fits

-------------------------------------------------------------------------------
\* What becomes of the contracts.
LEMMA ContractKeepsRest ==
    ASSUME CInv, IInv', NEW k \in Contracts, NEW new, Set(k, new),
           new.status # "absent" \/ contract[k].status = "absent",
           ChangeStands', SameAccount',
           \A r \in Requests : r.contract = k /\ Fits(r) => Fits(r)'
    PROVE  CInv'
<1>1. /\ Effective' = Effective
      /\ \A l \in Contracts : Known(l)' <=> Known(l)
      /\ Account' = Account
  BY SameRows DEF Set
<1>2. /\ contract' = [contract EXCEPT ![k] = new] /\ actor' = actor /\ rows' = rows
      /\ contract \in [Contracts -> ContractRows]
  BY DEF Set, CInv, IInv, TypeOK
<1>3. \A i \in DOMAIN rows : rows[i].contract \in Contracts
  BY Typed DEF CInv, IInv
<1>4. Acquainted'  BY <1>1, <1>2, <1>3 DEF CInv, Acquainted
<1>5. CourtesiesKeep'  BY <1>2 DEF CInv, CourtesiesKeep
<1>6. \A a \in Actors : actor[a].request \in Requests /\ actor[a].request.contract \in Contracts
  BY Typed DEF CInv, IInv
<1>8. \A r \in Requests : r.contract \in Contracts  BY DEF Requests
<1>9. ASSUME NEW r \in Requests, r.contract # k, Fits(r) PROVE Fits(r)'
  BY <1>1, <1>2, <1>8, <1>9 DEF Fits, Running
<1>10. AskedFits'  BY <1>2, <1>6, <1>9 DEF CInv, AskedFits
<1>. QED  BY <1>4, <1>5, <1>10 DEF CInv

\* Most of them close a contract or leave those that are open as they are.
LEMMA Quieter ==
    ASSUME CInv, NEW k \in Contracts, NEW new \in ContractRows, Set(k, new),
           new.status = "ativo" => Running(k) /\ new.cycle = contract[k].cycle,
           new.change => contract[k].change
    PROVE  /\ ChangeStands' /\ SameAccount'
           /\ \A r \in Requests : r.contract = k /\ Fits(r) => Fits(r)'
<1>1. /\ Effective' = Effective /\ Scheduled' = Scheduled
      /\ Newest' = Newest /\ Account' = Account
      /\ \A l \in Contracts : Current(l)' = Current(l) /\ (Known(l)' <=> Known(l))
      /\ \A i \in DOMAIN rows : IsChange(i)' <=> IsChange(i)
  BY SameRows DEF Set
<1>2. contract' = [contract EXCEPT ![k] = new] /\ rows' = rows
  BY DEF Set
<1>3. /\ \A l \in Contracts : Running(l)' =>
            Running(l) /\ contract'[l].cycle = contract[l].cycle
      /\ \A l \in Contracts : contract'[l].change => contract[l].change
  BY <1>2 DEF Running, CInv, IInv, TypeOK
<1>4. /\ \A i \in DOMAIN rows : rows[i].contract \in Contracts
      /\ Scheduled \subseteq DOMAIN rows
  BY Typed DEF CInv, IInv, Scheduled, Standing
<1>5. ChangeStands'  BY <1>1, <1>2, <1>3, <1>4 DEF CInv, ChangeStands, RunningFor
<1>6. SameAccount'  BY <1>1, <1>2, <1>3, <1>4 DEF CInv, SameAccount, RunningFor
<1>7. ASSUME NEW r \in Requests, r.contract = k, Fits(r) PROVE Fits(r)'
  BY <1>1, <1>2, <1>3, <1>7 DEF Fits
<1>. QED  BY <1>5, <1>6, <1>7

LEMMA CloseCurrency ==
    ASSUME CInv, IInv', NEW k \in Contracts,
           Terminate(k) \/ Close(k) \/ ChangePaid(k) \/ ChangeOver(k)
    PROVE  CInv'
<1>1. contract[k] \in ContractRows  BY Typed DEF CInv, IInv
<1>2. PICK new \in ContractRows :
        /\ Set(k, new)
        /\ new.status # "absent" \/ contract[k].status = "absent"
        /\ new.status = "ativo" => Running(k) /\ new.cycle = contract[k].cycle
        /\ new.change => contract[k].change
  <2>1. CASE Terminate(k)
    <3> DEFINE new == [contract[k] EXCEPT !.ending = TRUE]
    <3>1. Set(k, new) /\ Running(k)  BY <2>1 DEF Terminate, Running
    <3>2. /\ new \in ContractRows /\ new.status = contract[k].status
          /\ new.cycle = contract[k].cycle /\ new.change = contract[k].change
      BY <1>1 DEF ContractRows, Contracted
    <3>3. contract[k].status = "ativo"  BY <3>1 DEF Running
    <3> HIDE DEF new
    <3>. QED  BY <3>1, <3>2, <3>3
  <2>2. CASE Close(k)
    <3> DEFINE new == [contract[k] EXCEPT !.status = "encerrado", !.cycle = Never]
    <3>1. Set(k, new)  BY <2>2 DEF Close
    <3>2. /\ new \in ContractRows /\ new.status = "encerrado"
          /\ new.change = contract[k].change
      BY <1>1 DEF ContractRows, Contracted
    <3> HIDE DEF new
    <3>. QED  BY <3>1, <3>2
  <2>3. CASE ChangeOver(k)
    BY <1>1, <2>3 DEF ChangeOver, ContractRows, Contracted, Running
  <2>4. CASE ChangePaid(k)
    <3> DEFINE new == [contract[k] EXCEPT !.plans[Len(contract[k].plans)] =
                         [LastPlan(k) EXCEPT !.target.at = now, !.due = TRUE]]
    <3>1. Set(k, new) /\ contract[k].change  BY <2>4 DEF ChangePaid
    <3>2. new \in ContractRows  BY <3>1 DEF Set, CInv, IInv, TypeOK
    <3>3. /\ new.status = contract[k].status /\ new.cycle = contract[k].cycle
          /\ new.change = contract[k].change
      BY <1>1 DEF ContractRows, Contracted
    <3> HIDE DEF new
    <3>4. contract[k].status # "absent" \/ contract[k].status = "absent"  OBVIOUS
    <3>. QED  BY <3>1, <3>2, <3>3, <3>4 DEF Running
  <2>. QED  BY <2>1, <2>2, <2>3, <2>4
<1>3. /\ ChangeStands' /\ SameAccount'
      /\ \A r \in Requests : r.contract = k /\ Fits(r) => Fits(r)'
  BY <1>2, Quieter
<1>. QED  BY <1>2, <1>3, ContractKeepsRest

\* A contract that opens has no versions yet.
LEMMA OpenCurrency == ASSUME CInv, IInv', NEW k \in Contracts, Open(k) PROVE CInv'
<1> DEFINE new == [contract[k] EXCEPT !.status = "ativo"]
<1>1. /\ contract[k] \in ContractRows /\ contract[k].status = "absent" /\ Set(k, new)
      /\ contract \in [Contracts -> ContractRows]
  BY Typed DEF CInv, IInv, TypeOK, Open
<1>2. /\ new.status = "ativo" /\ new.cycle = contract[k].cycle
      /\ new.change = contract[k].change
  BY <1>1 DEF ContractRows, Contracted
<1>3. /\ Effective' = Effective /\ Scheduled' = Scheduled
      /\ Newest' = Newest /\ Account' = Account
      /\ \A l \in Contracts : Current(l)' = Current(l) /\ (Known(l)' <=> Known(l))
      /\ \A i \in DOMAIN rows : IsChange(i)' <=> IsChange(i)
  BY <1>1, SameRows DEF Set
<1>4. \A i \in DOMAIN rows : rows[i].contract \in Contracts \ {k}
  BY <1>1, Typed DEF CInv, IInv, Acquainted
<1>5. contract' = [contract EXCEPT ![k] = new] /\ rows' = rows
  BY <1>1 DEF Set
<1>6. /\ \A l \in Contracts \ {k} : contract'[l] = contract[l]
      /\ \A l \in Contracts : contract'[l].change = contract[l].change
  BY <1>1, <1>2, <1>5
<1>7. Effective \subseteq DOMAIN rows /\ Scheduled \subseteq DOMAIN rows
  BY DEF Effective, Scheduled, Standing
<1> HIDE DEF new
<1>8. ChangeStands'
  BY <1>3, <1>4, <1>5, <1>6, <1>7 DEF CInv, ChangeStands, RunningFor, Running
<1>9. Current(k) = 0
  BY <1>4, <1>7, LookupsNow DEF CInv, IInv, Lookups
<1>10. SameAccount'
  BY <1>3, <1>4, <1>5, <1>6, <1>7, <1>9 DEF CInv, SameAccount, RunningFor, Running
<1>11. ~Known(k)  BY <1>4, <1>7 DEF Known
<1>12. \A r \in Requests : r.contract = k /\ Fits(r) => Fits(r)'
  BY <1>11 DEF Fits
<1>. QED  BY <1>1, <1>2, <1>8, <1>10, <1>12, ContractKeepsRest

\* The next cycle of a contract comes no earlier, and not before a change.
LEMMA CycleCurrency ==
    ASSUME CInv, IInv', NEW k \in Contracts, Enroll(k) \/ CycleBilled(k)
    PROVE  CInv'
<1>1. /\ contract[k] \in ContractRows /\ contract \in [Contracts -> ContractRows]
      /\ now \in 0..Horizon
      /\ Never \in Int /\ Never > Horizon + Period
  BY Typed, TermsAssumption DEF CInv, IInv, TypeOK, Never
<1>2. PICK c \in Int :
        /\ Set(k, [contract[k] EXCEPT !.cycle = c])
        /\ Running(k)
        /\ contract[k].cycle = Never \/ (contract[k].cycle \in Int /\ contract[k].cycle <= now)
        /\ contract[k].cycle # Never => contract[k].cycle <= c /\ c # Never
  <2>1. CASE Enroll(k)
    BY <1>1, <2>1 DEF Enroll, Running
  <2>2. CASE CycleBilled(k)
    <3>1. contract[k].cycle <= now /\ contract[k].cycle \in Int
      BY <1>1, <2>2 DEF CycleBilled, ContractRows, Contracted, Times
    <3>. QED  BY <1>1, <2>2, <3>1, TermsAssumption DEF CycleBilled, Running
  <2>. QED  BY <2>1, <2>2
<1> DEFINE new == [contract[k] EXCEPT !.cycle = c]
<1>3. new.status = "ativo" /\ new.cycle = c /\ new.change = contract[k].change
  BY <1>1, <1>2 DEF ContractRows, Contracted, Running
<1>4. /\ Effective' = Effective /\ Scheduled' = Scheduled
      /\ Newest' = Newest /\ Account' = Account
      /\ \A l \in Contracts : Current(l)' = Current(l) /\ (Known(l)' <=> Known(l))
      /\ \A i \in DOMAIN rows : IsChange(i)' <=> IsChange(i)
  BY <1>2, SameRows DEF Set
<1>5. contract' = [contract EXCEPT ![k] = new] /\ rows' = rows
  BY <1>2 DEF Set
<1> HIDE DEF new
<1>6. /\ \A l \in Contracts : Running(l)' <=> Running(l)
      /\ \A l \in Contracts \ {k} : contract'[l] = contract[l]
      /\ \A l \in Contracts : contract'[l].change = contract[l].change
      /\ contract'[k].cycle = c
  BY <1>1, <1>2, <1>3, <1>5 DEF Running
<1>7. /\ \A i \in DOMAIN rows : rows[i].contract \in Contracts
      /\ Scheduled \subseteq DOMAIN rows
  BY Typed DEF CInv, IInv, Scheduled, Standing
<1>8. ASSUME NEW i \in Scheduled, IsChange(i) PROVE rows[i].contract # k
  <2>1. SUFFICES ASSUME rows[i].contract = k PROVE FALSE
    OBVIOUS
  <2>2. contract[k].cycle = rows[i].terms.at
    BY <1>2, <1>8, <2>1 DEF CInv, ChangeStands, RunningFor
  <2>3. rows[i].terms.at \in Times /\ rows[i].terms.at > now
    BY <1>7, Typed DEF CInv, IInv, Conditions, Scheduled, InEffect
  <2>4. Never \notin Times  BY TermsAssumption DEF Never, Times
  <2>. QED  BY <1>1, <1>2, <2>2, <2>3, <2>4
<1>9. ChangeStands'
  BY <1>4, <1>5, <1>6, <1>7, <1>8 DEF CInv, ChangeStands, RunningFor
<1>10. SameAccount'
  BY <1>4, <1>5, <1>6, <1>7 DEF CInv, SameAccount, RunningFor
<1>11. ASSUME NEW r \in Requests, r.contract = k, Fits(r) PROVE Fits(r)'
  <2>1. r.terms.at \in Int  BY DEF Requests, Conditions, Times
  <2>2. r.terms.from # "no" => Known(k) /\ contract[k].cycle # Never /\ r.terms.at <= contract[k].cycle
    BY <1>2, <1>11 DEF Fits
  <2>3. r.terms.from # "no" => Known(k)' /\ c # Never /\ r.terms.at <= c
    BY <1>2, <1>4, <2>1, <2>2
  <2>. QED  BY <1>2, <1>4, <1>5, <1>6, <1>11, <2>3 DEF Fits
<1>. QED  BY <1>2, <1>3, <1>9, <1>10, <1>11, ContractKeepsRest DEF new

\* A change of plan starts for a contract without anything scheduled, and its
\* conditions in effect tell that no other contract has a change of currency.
LEMMA StartCurrency == ASSUME CInv, IInv', NEW k \in Contracts, StartChange(k) PROVE CInv'
<1>0. PICK base \in Bases(k) :
        \E plan : Set(k, [contract[k] EXCEPT !.change = TRUE, !.plans = Append(@, plan)])
  BY DEF StartChange
<1>1. PICK plan : Set(k, [contract[k] EXCEPT !.change = TRUE, !.plans = Append(@, plan)])
  BY <1>0
<1> DEFINE new == [contract[k] EXCEPT !.change = TRUE, !.plans = Append(@, plan)]
<1>2. /\ contract[k] \in ContractRows /\ contract \in [Contracts -> ContractRows]
      /\ Set(k, new)
  BY <1>1, Typed DEF CInv, IInv, TypeOK
<1>3. new.status = contract[k].status /\ new.cycle = contract[k].cycle
  BY <1>2 DEF ContractRows, Contracted
<1> HIDE DEF new
<1>4. /\ Effective' = Effective /\ Scheduled' = Scheduled
      /\ Newest' = Newest /\ Account' = Account
      /\ \A l \in Contracts : Current(l)' = Current(l) /\ (Known(l)' <=> Known(l))
      /\ \A i \in DOMAIN rows : IsChange(i)' <=> IsChange(i)
  BY <1>2, SameRows DEF Set
<1>5. contract' = [contract EXCEPT ![k] = new] /\ rows' = rows  BY <1>2 DEF Set
<1>6. \A l \in Contracts : /\ contract'[l].status = contract[l].status
                           /\ contract'[l].cycle = contract[l].cycle
  BY <1>2, <1>3, <1>5
<1>7. Kept(k) = {i \in Standing : rows[i].contract = k}  BY Queries DEF CInv, IInv
<1>8. base \in DOMAIN rows /\ rows[base].contract = k
  BY <1>7 DEF Bases, Standing
<1>9. Running(k) /\ \A i \in Scheduled : rows[i].contract # k
  <2>1. Running(k) /\ \A i \in Kept(k) : InEffect(i)
    BY DEF StartChange, ChangeMayStart, Running
  <2>. QED  BY <1>7, <2>1 DEF Scheduled
<1>10. ASSUME NEW i \in Scheduled, IsChange(i) PROVE FALSE
  BY <1>8, <1>9, <1>10 DEF CInv, ChangeStands, RunningFor
<1>11. /\ \A i \in DOMAIN rows : rows[i].contract \in Contracts
       /\ Scheduled \subseteq DOMAIN rows
  BY Typed DEF CInv, IInv, Scheduled, Standing
<1>12. ChangeStands'  BY <1>4, <1>10, <1>11 DEF ChangeStands
<1>13. SameAccount'  BY <1>4, <1>5, <1>6, <1>11 DEF CInv, SameAccount, RunningFor, Running
<1>14. \A r \in Requests : r.contract = k /\ Fits(r) => Fits(r)'
  BY <1>4, <1>5, <1>6 DEF Fits, Running
<1>. QED  BY <1>2, <1>3, <1>12, <1>13, <1>14, ContractKeepsRest

-------------------------------------------------------------------------------
LEMMA Squeezed ==
    ASSUME NEW n \in Nat, NEW i \in 1..n, NEW j \in 1..n, i <= j, j <= i
    PROVE  i = j
OBVIOUS

\* Deliveries and cancellations leave alone what is in effect.
LEMMA MarkCurrency ==
    ASSUME CInv, IInv', NEW i \in DOMAIN rows, Sync(i) \/ Cancel(i)
    PROVE  CInv'
<1>1. /\ DOMAIN rows' = DOMAIN rows /\ Len(rows') = Len(rows)
      /\ \A j \in DOMAIN rows : /\ rows'[j].terms = rows[j].terms
                                /\ rows'[j].contract = rows[j].contract
                                /\ rows[j].cancelled => rows'[j].cancelled
                                /\ InEffect(j) => rows'[j].cancelled = rows[j].cancelled
  <2>1. rows \in Seq(Rows) /\ rows[i] \in Rows  BY DEF CInv, IInv, TypeOK
  <2>2. \/ rows' = [rows EXCEPT ![i].synced = TRUE]
        \/ rows' = [rows EXCEPT ![i].cancelled = TRUE] /\ ~InEffect(i)
    BY DEF Sync, Cancel
  <2>3. \A j \in DOMAIN rows : j # i => rows'[j] = rows[j]  BY <2>2
  <2>4. /\ rows'[i].terms = rows[i].terms /\ rows'[i].contract = rows[i].contract
        /\ rows[i].cancelled => rows'[i].cancelled
        /\ InEffect(i) => rows'[i].cancelled = rows[i].cancelled
    BY <2>1, <2>2 DEF Rows
  <2>5. DOMAIN rows' = DOMAIN rows /\ Len(rows') = Len(rows)  BY <2>1, <2>2
  <2>. QED  BY <2>3, <2>4, <2>5
<1>2. UNCHANGED <<now, contract, actor>>  BY DEF Sync, Cancel
<1>3. Effective' = Effective /\ Scheduled' \subseteq Scheduled
  BY <1>1, <1>2 DEF Effective, Scheduled, Standing, InEffect
<1>4. Lookups /\ Lookups'  BY LookupsNow, LookupsNext DEF CInv, IInv
<1>5. Effective \subseteq 1..Len(rows) /\ Len(rows) \in Nat /\ Effective # {}
  BY <1>4, Typed DEF CInv, IInv, Acquainted, Effective, Lookups
<1>6. Newest' = Newest /\ Newest \in Effective
  <2>1. Newest \in Effective /\ Newest' \in Effective /\ Newest <= Newest' /\ Newest' <= Newest
    BY <1>3, <1>4, <1>5 DEF Lookups
  <2>. QED  BY <1>5, <2>1
<1>7. ASSUME NEW k \in Contracts PROVE Current(k)' = Current(k)
  <2>1. Current(k) # 0 => /\ Current(k) \in Effective /\ rows[Current(k)].contract = k
                          /\ Current(k)' # 0 /\ Current(k) <= Current(k)'
    BY <1>1, <1>3, <1>4 DEF Lookups, Effective, Standing
  <2>2. Current(k)' # 0 => /\ Current(k)' \in Effective /\ rows[Current(k)'].contract = k
                           /\ Current(k) # 0 /\ Current(k)' <= Current(k)
    BY <1>1, <1>3, <1>4 DEF Lookups, Effective, Standing
  <2>3. CASE Current(k) # 0
    <3>1. Current(k) \in 1..Len(rows) /\ Current(k)' \in 1..Len(rows)
      BY <1>5, <2>1, <2>2, <2>3
    <3>. QED  BY <2>1, <2>2, <2>3, <3>1, Squeezed
  <2>. QED  BY <2>2, <2>3
<1>8. Effective \subseteq DOMAIN rows /\ Scheduled \subseteq DOMAIN rows
  BY DEF Effective, Scheduled, Standing
<1>9. /\ Account' = Account
      /\ \A k \in Contracts : (Known(k)' <=> Known(k)) /\ (Running(k)' <=> Running(k))
      /\ \A j \in DOMAIN rows : IsChange(j)' <=> IsChange(j)
  BY <1>1, <1>2, <1>3, <1>6, <1>8 DEF Account, Known, IsChange, Running
<1>10. /\ \A j \in DOMAIN rows : rows[j].contract \in Contracts
       /\ \A a \in Actors : actor[a].request.contract \in Contracts
  BY Typed DEF CInv, IInv
<1>11. Acquainted'  BY <1>1, <1>2, <1>3 DEF CInv, Acquainted
<1>12. CourtesiesKeep'  BY <1>1, <1>2 DEF CInv, CourtesiesKeep
<1>13. ChangeStands'
  BY <1>1, <1>2, <1>3, <1>8, <1>9, <1>10 DEF CInv, ChangeStands, RunningFor
<1>14. SameAccount'
  <2>1. ASSUME NEW k \in Contracts, Running(k), Current(k) # 0
        PROVE  rows'[Current(k)].terms.currency = Account
    BY <1>1, <1>4, <1>8, <2>1 DEF CInv, SameAccount, Lookups
  <2>2. ASSUME NEW j \in Scheduled, ~IsChange(j), RunningFor(j) \/ j > Newest
        PROVE  rows'[j].terms.currency = Account
    BY <1>1, <1>8, <2>2 DEF CInv, SameAccount
  <2>. QED  BY <1>1, <1>3, <1>6, <1>7, <1>8, <1>9, <1>10, <2>1, <2>2 DEF SameAccount, RunningFor
<1>16. ASSUME NEW a \in Actors PROVE Fits(actor[a].request)'
  <2>1. Fits(actor[a].request)  BY DEF CInv, AskedFits
  <2>. QED  BY <1>1, <1>2, <1>3, <1>8, <1>9, <1>10, <2>1 DEF Fits
<1>17. AskedFits'  BY <1>2, <1>16 DEF AskedFits
<1>. QED  BY <1>11, <1>12, <1>13, <1>14, <1>17 DEF CInv

-------------------------------------------------------------------------------
\* Time passes: versions come into effect, and a scheduled change last.
LEMMA TickCurrency == ASSUME CInv, IInv', Tick PROVE CInv'
<1>1. UNCHANGED <<rows, contract, actor>> /\ now' = now + 1  BY DEF Tick
<1>2. \A i \in DOMAIN rows : rows[i].terms.at \in Int /\ now \in Int
  BY Typed DEF CInv, IInv
<1>3. /\ Effective \subseteq Effective' /\ Scheduled' \subseteq Scheduled
      /\ Effective' \subseteq Effective \cup Scheduled
      /\ Effective' \cap Scheduled' = {}
      /\ \A i \in Standing : i \in Effective' \/ i \in Scheduled'
  BY <1>1, <1>2 DEF Effective, Scheduled, Standing, InEffect
<1>4. Lookups /\ Lookups'  BY LookupsNow, LookupsNext DEF CInv, IInv
<1>5. /\ Effective' \subseteq 1..Len(rows) /\ Scheduled \subseteq 1..Len(rows)
      /\ Len(rows) \in Nat /\ Effective # {}
  BY <1>1, <1>4, Typed DEF CInv, IInv, Acquainted, Effective, Scheduled, Standing, Lookups
<1>6. /\ \A j \in DOMAIN rows : rows[j].contract \in Contracts
      /\ \A a \in Actors : actor[a].request.contract \in Contracts
      /\ DOMAIN rows = 1..Len(rows)
  BY Typed DEF CInv, IInv
<1>7. Acquainted'  BY <1>1, <1>3 DEF CInv, Acquainted
<1>8. CourtesiesKeep'  BY <1>1 DEF CInv, CourtesiesKeep
<1>9. /\ \A k \in Contracts : (Known(k) => Known(k)') /\ (Running(k)' <=> Running(k))
      /\ \A j \in DOMAIN rows : IsChange(j)' <=> IsChange(j)
  BY <1>1, <1>3 DEF Known, IsChange, Running
<1>10. ChangeStands'
  BY <1>1, <1>3, <1>5, <1>6, <1>9 DEF CInv, ChangeStands, RunningFor
<1>12. /\ Newest \in Effective /\ Newest' \in Effective' /\ Newest <= Newest'
       /\ \A j \in Effective' : j <= Newest'
  BY <1>3, <1>4, <1>5, <1>7 DEF Lookups, Acquainted
<1>13. ASSUME NEW k \in Contracts, Current(k)' # 0
       PROVE  Current(k)' \in Effective' /\ rows[Current(k)'].contract = k
  BY <1>1, <1>4, <1>13 DEF Lookups
<1>14. CASE \E c \in Scheduled \cap Effective' : IsChange(c)
  <2>1. PICK c \in Scheduled \cap Effective' : IsChange(c)  BY <1>14
  <2>2. /\ c = Len(rows)
        /\ \A j \in DOMAIN rows : RunningFor(j) => rows[j].contract = rows[c].contract
        /\ RunningFor(c) => contract[rows[c].contract].cycle = rows[c].terms.at
    BY <2>1 DEF CInv, ChangeStands
  <2>3. Newest' = c  BY <1>5, <1>12, <2>1, <2>2
  <2>4. Account' = rows[c].terms.currency  BY <1>1, <2>3 DEF Account
  <2>5. ASSUME NEW k \in Contracts, Running(k), Current(k)' # 0 PROVE Current(k)' = c
    <3>1. Current(k)' \in Effective' /\ rows[Current(k)'].contract = k  BY <1>13, <2>5
    <3>2. rows[c].contract = k  BY <1>5, <1>6, <2>2, <2>5, <3>1 DEF RunningFor
    <3>3. c <= Current(k)'  BY <1>1, <1>4, <2>1, <3>2 DEF Lookups
    <3>4. Current(k)' \in 1..Len(rows) /\ c \in 1..Len(rows)  BY <1>5, <2>1, <3>1
    <3>5. \A m \in 1..Len(rows) : m <= c  BY <2>2
    <3>6. Len(rows) \in Nat  BY <1>5
    <3>. QED  BY <3>3, <3>4, <3>5, <3>6, Squeezed
  <2>6. ASSUME NEW i \in Scheduled', RunningFor(i) PROVE FALSE
    <3>1. i \in Scheduled /\ i \in 1..Len(rows) /\ i # c  BY <1>3, <1>5, <2>1
    <3>2. rows[i].contract = rows[c].contract  BY <1>1, <1>6, <2>2, <2>6, <3>1
    <3>5. i < c  BY <1>5, <2>2, <3>1
    <3>3. rows[i].terms.at < rows[c].terms.at
      BY <1>6, <2>1, <3>1, <3>2, <3>5, Queries DEF CInv, IInv, VersionsInOrder, Scheduled
    <3>4. rows[c].terms.at <= now + 1 /\ ~(rows[i].terms.at <= now + 1)
      BY <1>1, <2>1, <2>6 DEF Effective, Scheduled, InEffect
    <3>. QED  BY <1>2, <1>5, <1>6, <2>1, <3>1, <3>3, <3>4
  <2>7. SameAccount'
    <3>1. ASSUME NEW i \in Scheduled' PROVE ~(i > Newest')
      BY <1>3, <1>5, <2>2, <2>3
    <3>. QED  BY <1>1, <1>3, <1>5, <1>6, <1>9, <2>4, <2>5, <2>6, <3>1 DEF SameAccount, RunningFor
  <2>8. ASSUME NEW a \in Actors PROVE Fits(actor[a].request)'
    <3> DEFINE r == actor[a].request
    <3>1. Fits(r) /\ r.contract \in Contracts  BY <1>6 DEF CInv, AskedFits
    <3>2. ASSUME Known(r.contract), Running(r.contract)
          PROVE  rows[c].contract = r.contract /\ contract[r.contract].cycle = rows[c].terms.at
      BY <2>1, <2>2, <3>2 DEF Known, RunningFor, Effective, Standing
    <3>. QED  BY <1>1, <1>9, <2>1, <3>1, <3>2 DEF Fits
  <2>9. AskedFits'  BY <1>1, <2>8 DEF AskedFits
  <2>. QED  BY <1>7, <1>8, <1>10, <2>7, <2>9 DEF CInv
<1>15. CASE \A c \in Scheduled \cap Effective' : ~IsChange(c)
  <2>1. Account' = Account
    <3>1. Newest' = Newest \/ (Newest' \in Scheduled /\ Newest' > Newest /\ ~IsChange(Newest'))
      <4>1. CASE Newest' \in Effective
        BY <1>4, <1>5, <1>3, <1>12, <4>1 DEF Lookups
      <4>2. CASE Newest' \in Scheduled
        BY <1>3, <1>5, <1>12, <1>15, <4>2 DEF Effective, Scheduled
      <4>. QED  BY <1>3, <1>12, <4>1, <4>2
    <3>. QED  BY <1>1, <3>1 DEF Account, CInv, SameAccount
  <2>2. ASSUME NEW k \in Contracts, Running(k), Current(k)' # 0
        PROVE  rows[Current(k)'].terms.currency = Account
    <3>1. Current(k)' \in Effective' /\ rows[Current(k)'].contract = k  BY <1>13, <2>2
    <3>2. CASE Current(k)' \in Effective
      <4>1. Current(k) # 0 /\ Current(k)' <= Current(k) /\ Current(k) \in Effective
            /\ rows[Current(k)].contract = k
        BY <1>4, <3>1, <3>2 DEF Lookups
      <4>2. Current(k) <= Current(k)'  BY <1>1, <1>3, <1>4, <4>1 DEF Lookups
      <4>3. Current(k)' \in 1..Len(rows) /\ Current(k) \in 1..Len(rows)
        BY <1>3, <1>5, <3>1, <4>1
      <4>4. Current(k)' = Current(k)  BY <4>1, <4>2, <4>3, Squeezed
      <4>. QED  BY <2>2, <4>1, <4>4 DEF CInv, SameAccount
    <3>3. CASE Current(k)' \in Scheduled
      BY <1>15, <2>2, <3>1, <3>3 DEF CInv, SameAccount, RunningFor
    <3>. QED  BY <1>3, <3>1, <3>2, <3>3
  <2>3. SameAccount'
    <3>1. ASSUME NEW i \in Scheduled', ~IsChange(i), RunningFor(i) \/ i > Newest'
          PROVE  rows[i].terms.currency = Account
      BY <1>3, <1>5, <1>12, <3>1 DEF CInv, SameAccount
    <3>. QED  BY <1>1, <1>3, <1>5, <1>6, <1>9, <2>1, <2>2, <3>1 DEF SameAccount, RunningFor
  <2>4. ASSUME NEW a \in Actors PROVE Fits(actor[a].request)'
    <3>1. Fits(actor[a].request)  BY DEF CInv, AskedFits
    <3>. QED  BY <1>1, <1>3, <1>6, <1>9, <2>1, <3>1 DEF Fits
  <2>5. AskedFits'  BY <1>1, <2>4 DEF AskedFits
  <2>. QED  BY <1>7, <1>8, <1>10, <2>3, <2>5 DEF CInv
<1>. QED  BY <1>14, <1>15

-------------------------------------------------------------------------------
\* What save() accepts: nothing is scheduled that changes the currency, and a
\* change really changes it, for the only contract that is open.
LEMMA Accepted ==
    ASSUME CInv, NEW a \in Actors, Insertable(actor[a].request)
    PROVE  LET r == actor[a].request
               k == r.contract
           IN  /\ Running(k)
               /\ \A i \in Scheduled : ~IsChange(i)
               /\ r.terms.from = "no" => r.terms.currency = Account
               /\ r.terms.from # "no" =>
                    /\ \A l \in Contracts \ {k} : ~Running(l)
                    /\ \A l \in Contracts : ~contract[l].change
                    /\ contract[k].cycle = r.terms.at
                    /\ \A i \in Scheduled : rows[i].contract # k
<1> DEFINE r == actor[a].request
           k == r.contract
<1>1. /\ r \in Requests /\ k \in Contracts /\ r.terms.at \in Int
      /\ r.terms.from # r.terms.currency
  BY Typed DEF CInv, IInv, Asked, WellFormed
<1>2. /\ CurrencyFits(r) /\ ContractOpen(r) /\ NothingInTheWay(r) /\ ChangeFits(r) /\ DateFits(r)
  BY DEF Insertable, Acceptable
<1>3. Running(k)
  BY <1>1, <1>2, Typed DEF ContractOpen, Closed, ContractRows, Contracted, CInv, IInv, Running
<1>4. /\ Future(k) = {i \in Scheduled : rows[i].contract = k \/ IsChange(i)}
      /\ \A i \in Effective : rows[i].contract = k => i \in Kept(k)
  BY <1>1, Queries DEF Future, Scheduled, Effective, CInv, IInv
<1>5. \A i \in Scheduled : ~IsChange(i)
  BY <1>2, <1>4 DEF NothingInTheWay
<1>6. Newest # 0
  BY LookupsNow, Typed DEF Lookups, CInv, IInv, Acquainted, Effective, Standing
<1>7. SameCurrency(r.terms) <=> r.terms.currency = Account
  BY <1>6 DEF SameCurrency, Account
<1>8. r.terms.from = "no" => r.terms.currency = Account
  BY <1>2, <1>6, <1>7 DEF CurrencyFits
<1>9. ASSUME r.terms.from # "no" PROVE ~SameCurrency(r.terms)
  <2>1. Fits(r)  BY DEF CInv, AskedFits
  <2>2. r.terms.from = Account
        \/ \E i \in Effective : rows[i].contract = k /\ r.terms.at <= rows[i].terms.at
    BY <1>3, <1>9, <2>1 DEF Fits
  <2>3. ASSUME NEW i \in Effective, rows[i].contract = k, r.terms.at <= rows[i].terms.at
        PROVE  FALSE
    <3> DEFINE l == LatestActive(k)
    <3>1. i \in Kept(k)  BY <1>4, <2>3
    <3>2. l # 0 /\ l \in Kept(k) /\ i <= l  BY <1>1, <3>1, Found DEF CInv, IInv
    <3>3. l \in DOMAIN rows /\ i \in DOMAIN rows  BY <3>1, <3>2 DEF Kept
    <3>4. /\ rows[l].terms.at \in Int /\ rows[i].terms.at \in Int
          /\ i \in Int /\ l \in Int
      BY <3>3, Typed DEF CInv, IInv
    <3>5. rows[l].terms.at < r.terms.at  BY <1>2, <3>2 DEF DateFits
    <3>6. i = l \/ rows[i].terms.at < rows[l].terms.at
      BY <1>1, <3>1, <3>2, <3>4 DEF CInv, IInv, VersionsInOrder
    <3> HIDE DEF l
    <3>. QED  BY <1>1, <2>3, <3>4, <3>5, <3>6
  <2>. QED  BY <1>1, <1>7, <2>2, <2>3
<1>10. ASSUME r.terms.from # "no"
       PROVE  /\ \A l \in Contracts \ {k} : ~Running(l)
              /\ \A l \in Contracts : ~contract[l].change
              /\ contract[k].cycle = r.terms.at
              /\ \A i \in Scheduled : rows[i].contract # k
  <2>1. ~SameCurrency(r.terms)  BY <1>9, <1>10
  <2>2. Future(k) = {}  BY <1>2, <1>10 DEF NothingInTheWay
  <2>. QED  BY <1>2, <1>4, <1>10, <2>1, <2>2 DEF ChangeFits, Closed, Running
<1>. QED  BY <1>3, <1>5, <1>8, <1>10

LEMMA InsertCurrency ==
    ASSUME CInv, IInv', NEW a \in Actors, Insertable(actor[a].request),
           rows' = Append(rows, Inserted(actor[a].request)),
           actor' = [actor EXCEPT ![a] = Idle], UNCHANGED <<now, contract>>
    PROVE  CInv'
<1>0. PICK n, r, k : n = Len(rows) + 1 /\ r = actor[a].request /\ k = r.contract
  OBVIOUS
<1>1. /\ r \in Requests /\ k \in Contracts /\ r.terms.at \in Int
      /\ now \in Int /\ Len(rows) \in Nat /\ DOMAIN rows = 1..Len(rows)
      /\ \A i \in DOMAIN rows : rows[i].contract \in Contracts
      /\ \A b \in Actors : actor[b].request.contract \in Contracts
  BY <1>0, Typed DEF CInv, IInv
<1>2. /\ DOMAIN rows' = 1..n /\ Len(rows') = n
      /\ \A i \in 1..Len(rows) : rows'[i] = rows[i]
      /\ rows'[n].terms = r.terms /\ rows'[n].contract = k /\ ~rows'[n].cancelled
  <2>1. rows \in Seq(Rows)  BY DEF CInv, IInv, TypeOK
  <2>2. /\ Len(rows') = n /\ DOMAIN rows' = 1..n
        /\ \A i \in 1..Len(rows) : rows'[i] = rows[i]
        /\ rows'[n] = Inserted(r)
    BY <1>0, <2>1
  <2>. QED  BY <1>0, <2>2 DEF Inserted
<1>3. /\ Running(k)
      /\ \A i \in Scheduled : ~IsChange(i)
      /\ r.terms.from = "no" => r.terms.currency = Account
      /\ r.terms.from # "no" =>
           /\ \A l \in Contracts \ {k} : ~Running(l)
           /\ \A l \in Contracts : ~contract[l].change
           /\ contract[k].cycle = r.terms.at
           /\ \A i \in Scheduled : rows[i].contract # k
  BY <1>0, Accepted
<1>4. /\ Effective' = Effective \cup (IF r.terms.at <= now THEN {n} ELSE {})
      /\ Scheduled' = Scheduled \cup (IF r.terms.at <= now THEN {} ELSE {n})
  <2>1. Standing' = Standing \cup {n}
    BY <1>0, <1>1, <1>2 DEF Standing
  <2>2. /\ \A i \in 1..Len(rows) : InEffect(i)' <=> InEffect(i)
        /\ InEffect(n)' <=> r.terms.at <= now
    BY <1>2 DEF InEffect
  <2>3. Standing \subseteq 1..Len(rows)  BY <1>1 DEF Standing
  <2>. QED  BY <1>0, <1>1, <2>1, <2>2, <2>3 DEF Effective, Scheduled
<1>5. Lookups /\ Lookups'  BY LookupsNow, LookupsNext DEF CInv, IInv
<1>6. /\ Effective \subseteq 1..Len(rows) /\ Scheduled \subseteq 1..Len(rows)
      /\ Newest \in Effective /\ \A i \in Effective : i <= Newest
      /\ Newest' \in Effective' /\ \A i \in Effective' : i <= Newest'
  BY <1>1, <1>4, <1>5 DEF Lookups, CInv, Acquainted, Effective, Scheduled, Standing
<1>7. /\ \A i \in 1..Len(rows) : IsChange(i)' <=> IsChange(i)
      /\ IsChange(n)' <=> r.terms.from # "no"
      /\ \A l \in Contracts : (Running(l)' <=> Running(l)) /\ (Known(l) => Known(l)')
  BY <1>1, <1>2, <1>4, <1>6 DEF IsChange, Running, Known
<1>8. \A b \in Actors : actor'[b] = IF b = a THEN Idle ELSE actor[b]
  BY DEF CInv, IInv, TypeOK
<1>9. /\ NoRequest.terms.from = "no" /\ NoRequest.terms.kind = "paid"
      /\ Idle.pc = "idle" /\ Idle.request = NoRequest
  BY DEF NoRequest, Idle
<1>10. contract[k].status # "absent"  BY <1>3 DEF Running
<1>11. Acquainted'
  BY <1>1, <1>2, <1>4, <1>10 DEF CInv, Acquainted
<1>12. CourtesiesKeep'
  BY <1>0, <1>1, <1>2, <1>8, <1>9 DEF CInv, CourtesiesKeep
<1>13. ChangeStands'
  <2>1. ASSUME NEW i \in Scheduled', IsChange(i)' PROVE i = n /\ r.terms.from # "no"
    BY <1>3, <1>4, <1>6, <1>7, <2>1
  <2>. QED  BY <1>1, <1>2, <1>3, <1>7, <2>1 DEF ChangeStands, RunningFor, Running
<1>15. /\ Account' = IF Newest' = n THEN r.terms.currency ELSE Account
       /\ Newest' = n <=> r.terms.at <= now
       /\ Newest' # n => Newest' = Newest
  <2>1. CASE r.terms.at <= now
    <3>1. n \in Effective' /\ Newest' \in 1..n  BY <1>0, <1>1, <1>4, <1>6, <2>1
    <3>2. n <= Newest' /\ n \in Nat  BY <1>0, <1>1, <1>6, <3>1
    <3>3. Newest' = n  BY <3>1, <3>2
    <3>. QED  BY <1>2, <2>1, <3>3 DEF Account
  <2>2. CASE ~(r.terms.at <= now)
    <3>1. Effective' = Effective  BY <1>4, <2>2
    <3>2. Newest' \in 1..Len(rows) /\ Newest \in 1..Len(rows)  BY <1>6, <3>1
    <3>3. Newest' <= Newest /\ Newest <= Newest'  BY <1>6, <3>1
    <3>4. Newest' = Newest /\ Newest # n  BY <1>0, <1>1, <3>2, <3>3, Squeezed
    <3>. QED  BY <1>2, <2>2, <3>2, <3>4 DEF Account
  <2>. QED  BY <2>1, <2>2
<1>16. ASSUME NEW l \in Contracts, Current(l)' # 0
       PROVE  \/ Current(l)' = n /\ n \in Effective' /\ l = k
              \/ /\ Current(l)' = Current(l) /\ Current(l) # 0 /\ Current(l) \in 1..Len(rows)
                 /\ ~(l = k /\ n \in Effective')
  <2>1. Current(l)' \in Effective' /\ rows'[Current(l)'].contract = l
    BY <1>5, <1>16 DEF Lookups
  <2>2. CASE Current(l)' = n
    BY <1>2, <2>1, <2>2
  <2>3. CASE Current(l)' # n
    <3>1. Current(l)' \in Effective /\ Current(l)' \in 1..Len(rows)
      BY <1>4, <1>6, <2>1, <2>3
    <3>2. rows[Current(l)'].contract = l  BY <1>2, <2>1, <3>1
    <3>3. Current(l) # 0 /\ Current(l)' <= Current(l) /\ Current(l) \in Effective
          /\ rows[Current(l)].contract = l
      BY <1>5, <3>1, <3>2 DEF Lookups
    <3>4. Current(l) \in Effective' /\ rows'[Current(l)].contract = l /\ Current(l) \in 1..Len(rows)
      BY <1>2, <1>4, <1>6, <3>3
    <3>5. Current(l) <= Current(l)'  BY <1>5, <3>4 DEF Lookups
    <3>6. Current(l)' = Current(l)  BY <1>1, <3>1, <3>3, <3>4, <3>5, Squeezed
    <3>7. ASSUME l = k, n \in Effective' PROVE FALSE
      <4>1. n <= Current(l)'  BY <1>2, <1>5, <3>7 DEF Lookups
      <4>. QED  BY <1>0, <1>1, <3>1, <4>1
    <3>. QED  BY <3>3, <3>4, <3>6, <3>7
  <2>. QED  BY <2>2, <2>3
<1>17. SameAccount'
  <2>1. ASSUME NEW l \in Contracts, Running(l), Current(l)' # 0
        PROVE  rows'[Current(l)'].terms.currency = Account'
    <3>1. CASE Current(l)' = n /\ n \in Effective' /\ l = k
      BY <1>1, <1>2, <1>3, <1>4, <1>6, <1>15, <3>1
    <3>2. CASE /\ Current(l)' = Current(l) /\ Current(l) # 0 /\ Current(l) \in 1..Len(rows)
               /\ ~(l = k /\ n \in Effective')
      <4>1. rows'[Current(l)'].terms.currency = Account
        BY <1>2, <2>1, <3>2 DEF CInv, SameAccount
      <4>2. CASE r.terms.from = "no"
        BY <1>3, <1>15, <4>1, <4>2
      <4>3. CASE r.terms.from # "no"
        <5>1. l = k  BY <1>3, <2>1, <4>3
        <5>2. ~(r.terms.at <= now)  BY <1>4, <3>2, <5>1
        <5>. QED  BY <1>15, <4>1, <5>2
      <4>. QED  BY <4>2, <4>3
    <3>. QED  BY <1>16, <2>1, <3>1, <3>2
  <2>2. ASSUME NEW i \in Scheduled', ~IsChange(i)', RunningFor(i)' \/ i > Newest'
        PROVE  rows'[i].terms.currency = Account'
    <3>1. CASE i = n
      <4>1. r.terms.from = "no"  BY <1>7, <2>2, <3>1
      <4>. QED  BY <1>2, <1>3, <1>15, <3>1, <4>1
    <3>2. CASE i # n
      <4>1. i \in Scheduled /\ i \in 1..Len(rows) /\ ~IsChange(i) /\ rows'[i] = rows[i]
        BY <1>2, <1>4, <1>6, <1>7, <2>2, <3>2
      <4>2. CASE Newest' = n
        <5>1. ~(i > Newest')  BY <1>0, <1>1, <4>1, <4>2
        <5>2. RunningFor(i) /\ rows[i].contract \in Contracts
          BY <1>1, <2>2, <4>1, <5>1 DEF RunningFor, Running
        <5>3. r.terms.from = "no"  BY <1>3, <4>1, <5>2 DEF RunningFor
        <5>. QED  BY <1>3, <1>15, <4>1, <5>2, <5>3 DEF CInv, SameAccount
      <4>3. CASE Newest' # n
        <5>1. Newest' = Newest /\ Account' = Account  BY <1>15, <4>3
        <5>2. RunningFor(i) \/ i > Newest  BY <2>2, <4>1, <5>1 DEF RunningFor, Running
        <5>. QED  BY <4>1, <5>1, <5>2 DEF CInv, SameAccount
      <4>. QED  BY <4>2, <4>3
    <3>. QED  BY <3>1, <3>2
  <2>. QED  BY <1>7, <2>1, <2>2 DEF SameAccount
<1>18. ASSUME NEW b \in Actors, NEW q, b # a, q = actor[b].request PROVE Fits(q)'
  <2>1. Fits(q) /\ q.contract \in Contracts /\ q.terms.at \in Int
    BY <1>18, Typed DEF CInv, AskedFits, IInv
  <2>2. \A i \in Effective : i \in Effective' /\ rows'[i] = rows[i]  BY <1>2, <1>4, <1>6
  <2>3. CASE Account' = Account
    BY <1>7, <2>1, <2>2, <2>3 DEF Fits
  <2>4. CASE Account' # Account
    <3>1. r.terms.from # "no" /\ r.terms.at <= now  BY <1>3, <1>15, <2>4
    <3>2. Running(q.contract) => q.contract = k /\ contract[k].cycle = r.terms.at
      BY <1>3, <2>1, <3>1
    <3>3. n \in Effective' /\ rows'[n].contract = k /\ rows'[n].terms.at = r.terms.at
      BY <1>2, <1>4, <3>1
    <3>. QED  BY <1>7, <2>1, <3>2, <3>3 DEF Fits
  <2>. QED  BY <2>3, <2>4
<1>19. AskedFits'
  <2>1. ASSUME NEW b \in Actors, NEW q, q = actor'[b].request PROVE Fits(q)'
    <3>1. CASE b = a  BY <1>8, <1>9, <2>1, <3>1 DEF Fits
    <3>2. CASE b # a  BY <1>8, <1>18, <2>1, <3>2
    <3>. QED  BY <3>1, <3>2
  <2>. QED  BY <2>1 DEF AskedFits, Fits
<1>. QED  BY <1>11, <1>12, <1>13, <1>17, <1>19 DEF CInv

LEMMA SaveCurrency == ASSUME CInv, IInv', NEW a \in Actors, Save(a) PROVE CInv'
<1> DEFINE r == actor[a].request
<1>1. CASE rows' = rows
  <2>1. actor' = [actor EXCEPT ![a] = [pc |-> "idle", request |-> NoRequest]]
    BY DEF Save, Idle
  <2>. QED  BY <1>1, <2>1, BlankKeeps DEF Save
<1>2. CASE Insertable(r) /\ rows' = Append(rows, Inserted(r))
           /\ actor' = [actor EXCEPT ![a] = Idle]
  BY <1>2, InsertCurrency DEF Save
<1>. QED  BY <1>1, <1>2 DEF Save

\* The invariant is inductive.
LEMMA NextCInv == CInv /\ [Next]_vars => CInv'
<1> SUFFICES ASSUME CInv, [Next]_vars PROVE CInv'
  OBVIOUS
<1>1. IInv'  BY NextIInv DEF CInv
<1>2. ASSUME NEW a \in Actors, Save(a) PROVE CInv'
  BY <1>1, <1>2, SaveCurrency
<1>3. ASSUME NEW h \in Handlers, Ask1(h) PROVE CInv'
  BY <1>1, <1>3, PublishCurrency, EndCourtesyCurrency, ScheduleCurrencyFits, ChangePlanCurrency
     DEF Ask1
<1>4. ASSUME NEW k \in Contracts,
             \/ Open(k) \/ Terminate(k) \/ Close(k) \/ Enroll(k) \/ CycleBilled(k)
             \/ StartChange(k) \/ ChangePaid(k) \/ ChangeOver(k)
      PROVE  CInv'
  BY <1>1, <1>4, OpenCurrency, CloseCurrency, CycleCurrency, StartCurrency
<1>5. ASSUME NEW i \in DOMAIN rows, Sync(i) \/ Cancel(i) PROVE CInv'
  BY <1>1, <1>5, MarkCurrency
<1>6. CASE UNCHANGED vars
  <2>1. /\ Effective' = Effective /\ Scheduled' = Scheduled
        /\ Newest' = Newest /\ Account' = Account
        /\ \A k \in Contracts : Current(k)' = Current(k) /\ (Known(k)' <=> Known(k))
        /\ \A i \in DOMAIN rows : IsChange(i)' <=> IsChange(i)
    BY <1>6, SameRows DEF vars
  <2>. QED
    BY <1>1, <1>6, <2>1, Typed
       DEF vars, CInv, IInv, Acquainted, CourtesiesKeep, ChangeStands, SameAccount,
           AskedFits, Fits, RunningFor, Running, Scheduled, Standing
<1>. QED
  BY <1>1, <1>2, <1>3, <1>4, <1>5, <1>6, ExpireCurrency, TickCurrency, TermsAssumption DEF Next

LEMMA CurrencyInvariance == Established /\ Spec => []CInv
  BY InitCInv, NextCInv, PTL DEF Spec

-------------------------------------------------------------------------------
\* The open contracts of a customer that had conditions in effect from the
\* beginning stay in one currency, whatever is requested at the same time.
THEOREM CurrencyIsOne == Established /\ Spec => []OneCurrency
<1>1. CInv => OneCurrency
  <2> SUFFICES ASSUME CInv, NEW k \in Contracts, NEW l \in Contracts,
                      ~Closed(k), ~Closed(l), Current(k) # 0, Current(l) # 0
               PROVE  rows[Current(k)].terms.currency = rows[Current(l)].terms.currency
    BY DEF OneCurrency
  <2>1. Running(k) /\ Running(l)
    BY Typed DEF CInv, IInv, ContractRows, Contracted, Closed, Running
  <2>. QED  BY <2>1 DEF CInv, SameAccount
<1>. QED  BY <1>1, CurrencyInvariance, PTL

\* Nor is a change of currency ever under way together with a change of plan.
THEOREM ChangesAreApart == Established /\ Spec => []NoTwoChanges
<1>1. CInv => NoTwoChanges
  BY Queries DEF CInv, IInv, ChangeStands, NoTwoChanges, Scheduled
<1>. QED  BY <1>1, CurrencyInvariance, PTL

-------------------------------------------------------------------------------
\* Dates that lie further back than the tolerance are asked for by the end of a
\* courtesy, by the return from one, by a change of currency, and by a change of
\* plan.
OfPlan(r) == \E n \in DOMAIN contract[r.contract].plans :
                 /\ r.key = <<"cloud-change", n>>
                 /\ contract[r.contract].plans[n].due
                 /\ r.terms = contract[r.contract].plans[n].target

Backdated(r) == \/ r.terms.kind = "courtesy"
                \/ r.key \in ExpiryKeys
                \/ r.terms.from # "no"
                \/ OfPlan(r)

Dated == \A a \in Actors : actor[a].pc = "saving" /\ actor[a].request.historical =>
             Backdated(actor[a].request)

PInv == CInv /\ Dated

\* A change of plan that was settled stays as it is.
PlansStay == \A k \in Contracts : \A n \in DOMAIN contract[k].plans :
    contract[k].plans[n].due => /\ n \in DOMAIN contract'[k].plans
                                /\ contract'[k].plans[n] = contract[k].plans[n]

LEMMA PlansAreKept == CInv /\ [Next]_vars => PlansStay
<1> SUFFICES ASSUME CInv, [Next]_vars PROVE PlansStay
  OBVIOUS
<1>1. contract \in [Contracts -> ContractRows]  BY DEF CInv, IInv, TypeOK
<1>2. ASSUME UNCHANGED contract PROVE PlansStay  BY <1>2 DEF PlansStay
<1>3. ASSUME NEW k \in Contracts, NEW new, Set(k, new),
             \A n \in DOMAIN contract[k].plans : contract[k].plans[n].due =>
                 n \in DOMAIN new.plans /\ new.plans[n] = contract[k].plans[n]
      PROVE  PlansStay
  <2>1. \A l \in Contracts : contract'[l] = IF l = k THEN new ELSE contract[l]
    BY <1>1, <1>3 DEF Set
  <2>. QED  BY <1>3, <2>1 DEF PlansStay
<1>4. ASSUME NEW k \in Contracts,
             Open(k) \/ Terminate(k) \/ Close(k) \/ Enroll(k) \/ CycleBilled(k) \/ ChangeOver(k)
      PROVE  PlansStay
  <2>1. contract[k] \in ContractRows  BY <1>1
  <2>2. PICK new : Set(k, new) /\ new.plans = contract[k].plans
    <3>1. CASE Open(k)
      BY <2>1, <3>1 DEF Open, ContractRows, Contracted
    <3>2. CASE Terminate(k)
      BY <2>1, <3>2 DEF Terminate, ContractRows, Contracted
    <3>3. CASE Close(k)
      <4> DEFINE new == [contract[k] EXCEPT !.status = "encerrado", !.cycle = Never]
      <4>1. Set(k, new)  BY <3>3 DEF Close
      <4>2. new.plans = contract[k].plans  BY <2>1 DEF ContractRows, Contracted
      <4> HIDE DEF new
      <4>. QED  BY <4>1, <4>2
    <3>4. CASE Enroll(k)
      BY <2>1, <3>4 DEF Enroll, ContractRows, Contracted
    <3>5. CASE CycleBilled(k)
      BY <2>1, <3>5 DEF CycleBilled, ContractRows, Contracted
    <3>6. CASE ChangeOver(k)
      BY <2>1, <3>6 DEF ChangeOver, ContractRows, Contracted
    <3>. QED  BY <1>4, <3>1, <3>2, <3>3, <3>4, <3>5, <3>6
  <2>. QED  BY <1>3, <2>2
<1>5. ASSUME NEW k \in Contracts, StartChange(k) PROVE PlansStay
  <2>1. PICK plan : Set(k, [contract[k] EXCEPT !.change = TRUE, !.plans = Append(@, plan)])
    BY <1>5 DEF StartChange
  <2> DEFINE new == [contract[k] EXCEPT !.change = TRUE, !.plans = Append(@, plan)]
  <2>2. contract[k] \in ContractRows /\ contract[k].plans \in Seq(PlanChanges)
    BY <1>1 DEF ContractRows, Contracted
  <2>3. new.plans = Append(contract[k].plans, plan)
    BY <2>2 DEF ContractRows, Contracted
  <2>4. Set(k, new)  BY <2>1
  <2> HIDE DEF new
  <2>5. \A n \in DOMAIN contract[k].plans :
          n \in DOMAIN new.plans /\ new.plans[n] = contract[k].plans[n]
    BY <2>2, <2>3
  <2>. QED  BY <1>3, <2>4, <2>5
<1>6. ASSUME NEW k \in Contracts, ChangePaid(k) PROVE PlansStay
  <2> DEFINE last == Len(contract[k].plans)
             paid == [LastPlan(k) EXCEPT !.target.at = now, !.due = TRUE]
             new  == [contract[k] EXCEPT !.plans[last] = paid]
  <2>1. Set(k, new) /\ ~contract[k].plans[last].due  BY <1>6 DEF ChangePaid, LastPlan
  <2>2. contract[k] \in ContractRows /\ contract[k].plans \in Seq(PlanChanges)
    BY <1>1 DEF ContractRows, Contracted
  <2> HIDE DEF paid
  <2>3. new.plans = [contract[k].plans EXCEPT ![last] = paid]
    BY <2>2 DEF ContractRows, Contracted
  <2> HIDE DEF new
  <2>4. \A n \in DOMAIN contract[k].plans : contract[k].plans[n].due =>
          n \in DOMAIN new.plans /\ new.plans[n] = contract[k].plans[n]
    BY <2>1, <2>2, <2>3
  <2>. QED  BY <1>3, <2>1, <2>4
<1>7. ASSUME NEW h \in Handlers, Ask1(h) PROVE PlansStay
  BY <1>2, <1>7 DEF Ask1, Publish, EndCourtesy, ScheduleCurrency, ChangePlan
<1>8. ASSUME NEW a \in Actors, Save(a) PROVE PlansStay
  BY <1>2, <1>8 DEF Save
<1>9. ASSUME NEW i \in DOMAIN rows, Sync(i) \/ Cancel(i) PROVE PlansStay
  BY <1>2, <1>9 DEF Sync, Cancel
<1>10. CASE (\E t \in Timers : Expire(t)) \/ Tick \/ UNCHANGED vars
  BY <1>2, <1>10 DEF Expire, Tick, vars
<1>. QED  BY <1>4, <1>5, <1>6, <1>7, <1>8, <1>9, <1>10, TermsAssumption DEF Next

LEMMA AskDated ==
    ASSUME PInv, NEW a \in Actors, NEW r, Ask(a, r), UNCHANGED contract,
           r.historical => Backdated(r)
    PROVE  Dated'
<1>1. \A b \in Actors :
        actor'[b] = IF b = a THEN [pc |-> "saving", request |-> r] ELSE actor[b]
  BY DEF Ask, PInv, CInv, IInv, TypeOK
<1>2. \A q : Backdated(q)' <=> Backdated(q)  BY DEF Backdated, OfPlan
<1>. QED  BY <1>1, <1>2 DEF PInv, Dated

\* What was asked for before stays right.
LEMMA OtherDated ==
    ASSUME PInv, [Next]_vars,
           \A a \in Actors : actor'[a] = actor[a] \/ actor'[a].pc # "saving"
    PROVE  Dated'
<1>1. PlansStay  BY PlansAreKept DEF PInv
<1>2. ASSUME NEW a \in Actors, Backdated(actor[a].request) PROVE Backdated(actor[a].request)'
                                  \/ actor'[a] # actor[a]
  <2>1. actor[a].request.contract \in Contracts  BY Typed DEF PInv, CInv, IInv
  <2>. QED  BY <1>1, <1>2, <2>1 DEF PlansStay, Backdated, OfPlan
<1>. QED  BY <1>2 DEF PInv, Dated

LEMMA ScheduleDated == ASSUME PInv, CInv', NEW h \in Handlers, ScheduleCurrency(h) PROVE Dated'
<1>1. PICK k \in Contracts, key \in Keys :
        /\ Current(k) # 0
        /\ \E currency \in OtherCurrencies(k) :
             Ask(h, [contract |-> k, key |-> key, historical |-> TRUE,
                     terms |-> [rows[Current(k)].terms EXCEPT
                                  !.at = contract[k].cycle, !.currency = currency,
                                  !.from = rows[Current(k)].terms.currency,
                                  !.kind = "paid"]])
  BY DEF ScheduleCurrency
<1>2. PICK currency \in OtherCurrencies(k) :
        Ask(h, [contract |-> k, key |-> key, historical |-> TRUE,
                terms |-> [rows[Current(k)].terms EXCEPT
                             !.at = contract[k].cycle, !.currency = currency,
                             !.from = rows[Current(k)].terms.currency,
                             !.kind = "paid"]])
  BY <1>1
<1> DEFINE r == [contract |-> k, key |-> key, historical |-> TRUE,
                 terms |-> [rows[Current(k)].terms EXCEPT
                              !.at = contract[k].cycle, !.currency = currency,
                              !.from = rows[Current(k)].terms.currency,
                              !.kind = "paid"]]
<1>3. rows[Current(k)].terms \in Conditions
  BY <1>1, Found, Typed DEF PInv, CInv, IInv, Kept
<1>4. r.terms.from = rows[Current(k)].terms.currency  BY <1>3 DEF Conditions
<1>5. r.terms.from # "no"  BY <1>3, <1>4, TermsAssumption DEF Conditions
<1>6. h \in Actors /\ Ask(h, r) /\ UNCHANGED contract  BY <1>2 DEF Actors, ScheduleCurrency
<1> HIDE DEF r
<1>. QED  BY <1>5, <1>6, AskDated DEF Backdated

\* What is asked for a change of plan was settled with it.
LEMMA ChangePlanDated == ASSUME PInv, NEW h \in Handlers, ChangePlan(h) PROVE Dated'
<1>1. PICK k \in Cloud :
        /\ contract[k].change /\ LastPlan(k).due
        /\ Ask(h, [contract |-> k, key |-> ChangeKey(k), historical |-> TRUE,
                   terms |-> LastPlan(k).target])
  BY DEF ChangePlan, MayTakeEffect
<1> DEFINE n == Len(contract[k].plans)
           r == [contract |-> k, key |-> ChangeKey(k), historical |-> TRUE,
                 terms |-> LastPlan(k).target]
<1>2. n \in DOMAIN contract[k].plans  BY <1>1, LastTyped, TermsAssumption DEF PInv, CInv
<1>3. /\ r.contract = k /\ r.key = <<"cloud-change", n>>
      /\ contract[k].plans[n].due /\ r.terms = contract[k].plans[n].target
  BY <1>1 DEF ChangeKey, LastPlan
<1>4. h \in Actors /\ Ask(h, r) /\ UNCHANGED contract  BY <1>1 DEF Actors, ChangePlan
<1> HIDE DEF n, r
<1>5. OfPlan(r)  BY <1>2, <1>3 DEF OfPlan
<1>. QED  BY <1>4, <1>5, AskDated DEF Backdated

LEMMA NextDated == PInv /\ CInv' /\ [Next]_vars => Dated'
<1> SUFFICES ASSUME PInv, CInv', [Next]_vars PROVE Dated'
  OBVIOUS
<1>1. ASSUME UNCHANGED actor PROVE Dated'  BY <1>1, OtherDated
<1>2. ASSUME NEW a \in Actors, Save(a) PROVE Dated'
  <2>1. \A b \in Actors : actor'[b] = IF b = a THEN Idle ELSE actor[b]
    BY <1>2 DEF Save, PInv, CInv, IInv, TypeOK
  <2>2. Idle.pc # "saving"  BY DEF Idle
  <2>. QED  BY <2>1, <2>2, OtherDated
<1>3. ASSUME NEW h \in Handlers, Publish(h) PROVE Dated'
  <2>1. PICK r : Ask(h, r) /\ ~r.historical  BY <1>3 DEF Publish
  <2>. QED  BY <1>3, <2>1, AskDated DEF Actors, Publish
<1>4. ASSUME NEW h \in Handlers, EndCourtesy(h) PROVE Dated'
  <2>1. PICK k \in Contracts, key \in Keys :
          /\ InCourtesy(Current(k))
          /\ Ask(h, [contract |-> k, key |-> key, historical |-> TRUE,
                     terms |-> [rows[Current(k)].terms EXCEPT !.at = now, !.expires = now]])
    BY <1>4 DEF EndCourtesy
  <2> DEFINE r == [contract |-> k, key |-> key, historical |-> TRUE,
                   terms |-> [rows[Current(k)].terms EXCEPT !.at = now, !.expires = now]]
  <2>2. rows[Current(k)].terms \in Conditions  BY <2>1, CourtesyKept DEF PInv
  <2>3. r.terms.kind = "courtesy"  BY <2>1, <2>2 DEF InCourtesy, Conditions
  <2>4. h \in Actors /\ Ask(h, r) /\ UNCHANGED contract  BY <1>4, <2>1 DEF Actors, EndCourtesy
  <2> HIDE DEF r
  <2>. QED  BY <2>3, <2>4, AskDated DEF Backdated
<1>5. ASSUME NEW t \in Timers, Expire(t) PROVE Dated'
  <2>1. PICK k \in Cloud :
          /\ Expired(k)
          /\ Ask(t, [contract |-> k, key |-> ExpiryKey(k), historical |-> TRUE,
                     terms |-> [rows[Current(k)].terms EXCEPT
                                  !.at = ReturnsAt(k), !.kind = "free", !.expires = Never]])
    BY <1>5 DEF Expire
  <2>2. ExpiryKey(k) \in ExpiryKeys
    BY Found, TermsAssumption DEF PInv, CInv, IInv, ExpiryKey, ExpiryKeys
  <2>. QED  BY <1>5, <2>1, <2>2, AskDated DEF Actors, Backdated, Expire
<1>6. ASSUME NEW i \in DOMAIN rows, Sync(i) \/ Cancel(i) PROVE Dated'
  BY <1>1, <1>6 DEF Sync, Cancel
<1>7. ASSUME NEW k \in Contracts,
             \/ Open(k) \/ Terminate(k) \/ Close(k) \/ Enroll(k) \/ CycleBilled(k)
             \/ StartChange(k) \/ ChangePaid(k) \/ ChangeOver(k)
      PROVE  Dated'
  BY <1>1, <1>7 DEF Open, Terminate, Close, Enroll, CycleBilled, StartChange, ChangePaid,
                    ChangeOver, Set
<1>8. CASE Tick \/ UNCHANGED vars  BY <1>1, <1>8 DEF Tick, vars
<1>. QED
  BY <1>2, <1>3, <1>4, <1>5, <1>6, <1>7, <1>8, ScheduleDated, ChangePlanDated, TermsAssumption
     DEF Next, Ask1

LEMMA DatedInvariance == Established /\ Spec => []PInv
<1>1. Established /\ Init => PInv
  BY InitCInv DEF Init, Idle, PInv, Dated
<1>2. PInv /\ [Next]_vars => PInv'
  BY NextCInv, NextDated DEF PInv
<1>. QED  BY <1>1, <1>2, PTL DEF Spec

\* Versions that started by a moment of the past.
Started(k, m) == {i \in Kept(k) : rows[i].terms.at <= m}

\* Of a version that replaces another in the past.
LateFits(n, k) == /\ n # 0
                  /\ \/ rows'[n].terms.kind = "courtesy"
                     \/ rows'[n].key \in ExpiryKeys
                     \/ rows'[n].terms.from # "no" /\ rows'[n].terms.at = contract[k].cycle
                     \/ \E i \in DOMAIN contract[k].plans :
                          /\ rows'[n].key = <<"cloud-change", i>>
                          /\ contract[k].plans[i].due
                          /\ rows'[n].terms = contract[k].plans[i].target

\* What is saved for the past comes last among what has started by then.
LEMMA InsertedLate ==
    ASSUME PInv, NEW a \in Actors, NEW k \in Contracts, NEW m \in 0..now,
           actor[a].pc = "saving", Insertable(actor[a].request),
           rows' = Append(rows, Inserted(actor[a].request)),
           m < now - Grace, InEffectAt(k, m)' # InEffectAt(k, m)
    PROVE  LateFits(InEffectAt(k, m)', k)
<1>0. PICK n, r : n = Len(rows) + 1 /\ r = actor[a].request
  OBVIOUS
<1>1. /\ r \in Requests /\ r.terms.at \in Int /\ r.contract \in Contracts
      /\ now \in Int /\ Len(rows) \in Nat /\ DOMAIN rows = 1..Len(rows)
  BY <1>0, Typed DEF PInv, CInv, IInv
<1>2. /\ DOMAIN rows' = 1..n
      /\ \A i \in 1..Len(rows) : rows'[i] = rows[i]
      /\ rows'[n] = Inserted(r)
  <2>1. rows \in Seq(Rows)  BY DEF PInv, CInv, IInv, TypeOK
  <2>. QED  BY <1>0, <2>1
<1>3. /\ rows'[n].terms = r.terms /\ rows'[n].contract = r.contract
      /\ rows'[n].key = r.key /\ ~rows'[n].cancelled
  <2>1. rows'[n] = Inserted(r)  BY <1>2
  <2>. QED  BY <1>0, <2>1 DEF Inserted
<1>4. Kept(k)' = Kept(k) \cup (IF r.contract = k THEN {n} ELSE {})
  BY <1>0, <1>1, <1>2, <1>3 DEF Kept
<1>5. Kept(k) \subseteq 1..Len(rows)  BY Found DEF PInv, CInv, IInv
<1>6. Started(k, m)' = Started(k, m) \cup (IF r.contract = k /\ r.terms.at <= m THEN {n} ELSE {})
  BY <1>0, <1>1, <1>2, <1>3, <1>4, <1>5 DEF Started
<1>7. InEffectAt(k, m) = Latest(Started(k, m)) /\ InEffectAt(k, m)' = Latest(Started(k, m)')
  BY DEF InEffectAt, Started, Latest
<1>8. r.contract = k /\ r.terms.at <= m  BY <1>6, <1>7
<1>9. InEffectAt(k, m)' = n
  <2>1. n \in Started(k, m)' /\ n \in Nat  BY <1>0, <1>1, <1>6, <1>8
  <2>2. Started(k, m) \subseteq 1..Len(rows)  BY <1>5 DEF Started
  <2>3. Started(k, m)' \in SUBSET (1..n)  BY <1>0, <1>1, <1>6, <2>2
  <2>4. Latest(Started(k, m)') \in 1..n /\ n <= Latest(Started(k, m)')
    BY <2>1, <2>3, LatestIsLast
  <2>. QED  BY <1>7, <2>1, <2>4
<1>10. r.historical
  <2>1. m \in Int /\ Grace \in Int  BY <1>1, TermsAssumption
  <2>2. ~(r.terms.at >= now - Grace)  BY <1>1, <1>8, <2>1
  <2>. QED  BY <1>0, <2>2 DEF Insertable, Acceptable, DateFits
<1>11. r.terms.from # "no" => r.terms.at = contract[k].cycle
  BY <1>0, <1>8, Accepted DEF PInv
<1>12. Backdated(r)  BY <1>0, <1>10 DEF PInv, Dated
<1>. QED  BY <1>0, <1>1, <1>3, <1>8, <1>9, <1>11, <1>12 DEF Backdated, OfPlan, LateFits

\* Deliveries and cancellations leave alone what has started.
LEMMA MarkedLate ==
    ASSUME PInv, NEW i \in DOMAIN rows, Sync(i) \/ Cancel(i),
           NEW k \in Contracts, NEW m \in 0..now
    PROVE  InEffectAt(k, m)' = InEffectAt(k, m)
<1>1. rows \in Seq(Rows) /\ rows[i] \in Rows  BY DEF PInv, CInv, IInv, TypeOK
<1>2. \/ rows' = [rows EXCEPT ![i].synced = TRUE]
      \/ rows' = [rows EXCEPT ![i].cancelled = TRUE] /\ ~(rows[i].terms.at <= now)
  BY DEF Sync, Cancel, InEffect
<1>3. /\ DOMAIN rows' = DOMAIN rows
      /\ \A j \in DOMAIN rows :
           /\ rows'[j].terms = rows[j].terms /\ rows'[j].contract = rows[j].contract
           /\ rows[j].terms.at <= now => rows'[j].cancelled = rows[j].cancelled
  <2>1. \A j \in DOMAIN rows : j # i => rows'[j] = rows[j]  BY <1>2
  <2>2. /\ rows'[i].terms = rows[i].terms /\ rows'[i].contract = rows[i].contract
        /\ rows[i].terms.at <= now => rows'[i].cancelled = rows[i].cancelled
    BY <1>1, <1>2 DEF Rows
  <2>3. DOMAIN rows' = DOMAIN rows  BY <1>2
  <2>. QED  BY <2>1, <2>2, <2>3
<1>4. \A j \in DOMAIN rows : rows[j].terms.at <= m => rows[j].terms.at <= now
  <2>1. now \in Int /\ \A j \in DOMAIN rows : rows[j].terms.at \in Int
    BY Typed DEF PInv, CInv, IInv
  <2>. QED  BY <2>1
<1>5. Started(k, m)' = Started(k, m)
  BY <1>3, <1>4 DEF Started, Kept
<1>6. InEffectAt(k, m) = Latest(Started(k, m)) /\ InEffectAt(k, m)' = Latest(Started(k, m)')
  BY DEF InEffectAt, Started, Latest
<1>. QED  BY <1>5, <1>6

\* No publication and no cancellation alters what was in effect, but for the
\* four that are dated by what was read before the lock.
THEOREM PastIsKept == Established /\ Spec => PastStands
<1> DEFINE Stays == \A k \in Contracts : \A m \in 0..now :
                        m < now - Grace /\ InEffectAt(k, m)' # InEffectAt(k, m)
                        => LateFits(InEffectAt(k, m)', k)
<1>1. PInv /\ [Next]_vars => Stays
  <2> SUFFICES ASSUME PInv, [Next]_vars, NEW k \in Contracts, NEW m \in 0..now,
                      m < now - Grace, InEffectAt(k, m)' # InEffectAt(k, m)
               PROVE  LateFits(InEffectAt(k, m)', k)
    OBVIOUS
  <2>1. rows' # rows  BY DEF InEffectAt, Kept
  <2>2. ASSUME NEW a \in Actors, Save(a) PROVE LateFits(InEffectAt(k, m)', k)
    <3>1. /\ actor[a].pc = "saving" /\ Insertable(actor[a].request)
          /\ rows' = Append(rows, Inserted(actor[a].request))
      BY <2>1, <2>2 DEF Save
    <3>. QED  BY <3>1, InsertedLate
  <2>3. ASSUME NEW i \in DOMAIN rows, Sync(i) \/ Cancel(i) PROVE FALSE
    BY <2>3, MarkedLate
  <2>4. ASSUME NEW h \in Handlers, Ask1(h) PROVE FALSE
    <3>1. rows' = rows  BY <2>4 DEF Ask1, Publish, EndCourtesy, ScheduleCurrency, ChangePlan
    <3>. QED  BY <2>1, <3>1
  <2>5. ASSUME NEW l \in Contracts,
               \/ Open(l) \/ Terminate(l) \/ Close(l) \/ Enroll(l) \/ CycleBilled(l)
               \/ StartChange(l) \/ ChangePaid(l) \/ ChangeOver(l)
        PROVE  FALSE
    BY <2>1, <2>5 DEF Open, Terminate, Close, Enroll, CycleBilled, StartChange, ChangePaid,
                      ChangeOver, Set
  <2>6. ASSUME (\E t \in Timers : Expire(t)) \/ Tick \/ UNCHANGED vars PROVE FALSE
    <3>1. rows' = rows  BY <2>6 DEF Expire, Tick, vars
    <3>. QED  BY <2>1, <3>1
  <2>. QED  BY <2>2, <2>3, <2>4, <2>5, <2>6, TermsAssumption DEF Next
<1>2. Stays <=> \A k \in Contracts : \A m \in 0..now :
                    LET before == InEffectAt(k, m)
                        after  == InEffectAt(k, m)'
                    IN  m < now - Grace /\ after # before =>
                            /\ after # 0
                            /\ \/ rows'[after].terms.kind = "courtesy"
                               \/ rows'[after].key \in ExpiryKeys
                               \/ /\ rows'[after].terms.from # "no"
                                  /\ rows'[after].terms.at = contract[k].cycle
                               \/ \E n \in DOMAIN contract[k].plans :
                                    /\ rows'[after].key = <<"cloud-change", n>>
                                    /\ contract[k].plans[n].due
                                    /\ rows'[after].terms = contract[k].plans[n].target
  BY DEF LateFits
<1> HIDE DEF Stays
<1>. QED  BY <1>1, <1>2, DatedInvariance, PTL DEF Spec, PastStands
===============================================================================
