------------------------------ MODULE FinanceState ------------------------------
(***************************************************************************)
(* The state that the delivery of financial decisions and the billing of   *)
(* cycles share, for one contract: its row and its enrollment in Control,  *)
(* its decisions, and what Billing and Licensing hold of it.               *)
(*                                                                         *)
(* Every handler works under the lock of the contract's row and keeps it   *)
(* while it waits for an answer, so that one transaction at a time has a   *)
(* state: tx.  Those that wait for the lock have none.  next_attempt_at of  *)
(* a decision or a cycle is left out: what is put off is not taken for a   *)
(* while, which a handler that is not scheduled does not do either.        *)
(***************************************************************************)
EXTENDS FinancialPolicy, FiniteSets, Sequences, SequencesExt

CONSTANTS
    Cycle,        \* days of a billing period
    SelfHosted,   \* a self-hosted contract without a Cloud account
    Horizon,      \* last day of the model, and of the contract
    MaxEvents     \* moves of operators, customers and Billing, calls that
                  \* fail and processes that die, together

ASSUME FinanceAssumption ==
    /\ Cycle \in Nat \ {0}
    /\ SelfHosted \in BOOLEAN
    /\ Horizon \in Nat
    /\ MaxEvents \in Nat

VARIABLES
    now,
    contract,    \* status, date of its recorded termination, revision in force
    enrollment,  \* the recurrence: its cycles, its schedule in Billing, the
                 \* policy of a stop
    decisions,   \* financial_decisions; a decision's version is its index
    notices,     \* rows of financial_notices: the access each is about
    billing,     \* what Billing holds of the contract
    licensing,   \* the last decision Licensing has taken
    tx,          \* the transaction that holds the row of the contract
    wire,        \* requests nobody waits for any more
    events

vars == <<now, contract, enrollment, decisions, notices, billing, licensing,
          tx, wire, events>>

Dates == 0..(Horizon + Cycle)

\* The revision in force: paid terms, paid terms Billing has not confirmed,
\* or a courtesy.
Contracts == [status : {"ativo", "encerrado"}, term : Dates \cup {None},
              revision : {"paid", "unconfirmed", "courtesy"}]

\* schedule: billing_schedule_id is known.
Enrollments == [exists : BOOLEAN, enabled : BOOLEAN, first : Dates,
                next : Dates \cup {None}, schedule : BOOLEAN,
                policy : {"pause", "continue"}]

Situations == [overdue : Dates \cup {None}, until : Dates \cup {None},
               renewal : BOOLEAN, courtesy : {"none", "active", "ended"},
               invoiced : BOOLEAN, schedule : BOOLEAN, next : Dates \cup {None},
               version : Nat, recurrence : RecurrenceStates]

Cores == [access : AccessStates, state : AccessStates,
          recurrence : RecurrenceStates, policy : {"pause", "continue"},
          overdue : Dates \cup {None}, until : Dates \cup {None},
          courtesy : BOOLEAN]

Decisions == [core : Cores, deliverable : BOOLEAN,
              status : {"pending", "superseded", "observed", "synced"}]

Idle == [pc |-> "idle"]

\* A delivery waits for Billing, then for Licensing, then commits; a cycle is
\* asked for by run() or by renew().
Transactions ==
    {Idle}
    \cup [pc : {"posting"}, version : Nat \ {0}, core : Cores]
    \cup [pc : {"told", "licensed"}, version : Nat \ {0}, core : Cores,
          next : Dates \cup {None}]
    \cup [pc : {"advancing", "renewing"}, expected : Dates]

\* What a request says; its answer goes to whoever still waits for it.
ToBilling(v, core) == [to |-> "billing", version |-> v, recurrence |-> core.recurrence]
ToLicensing(v, core) == [to |-> "licensing", version |-> v, core |-> core]
ToAdvance(expected, renewal) ==
    [to |-> "cycle", expected |-> expected, renewal |-> renewal]

Requests ==
    [to : {"billing"}, version : Nat \ {0}, recurrence : RecurrenceStates]
    \cup [to : {"licensing"}, version : Nat \ {0}, core : Cores]
    \cup [to : {"cycle"}, expected : Dates, renewal : BOOLEAN]

TypeOK ==
    /\ now \in 0..Horizon
    /\ contract \in Contracts
    /\ enrollment \in Enrollments
    /\ decisions \in Seq(Decisions)
    /\ notices \in Seq(AccessStates)
    /\ billing \in Situations
    /\ licensing \in [version : Nat, core : Cores \cup {Idle}]
    /\ tx \in Transactions
    /\ wire \in SUBSET Requests
    /\ events \in 0..MaxEvents

\* A contract that has just become active, or one with a first cycle billed,
\* paid and decided about, which the same steps lead to.
Fresh ==
    /\ enrollment = [exists |-> FALSE, enabled |-> TRUE, first |-> 0, next |-> None,
                     schedule |-> FALSE, policy |-> "pause"]
    /\ billing = [overdue |-> None, until |-> None, renewal |-> FALSE,
                  courtesy |-> "none", invoiced |-> FALSE, schedule |-> FALSE,
                  next |-> None, version |-> 0, recurrence |-> "active"]
    /\ decisions = <<>>
    /\ licensing = [version |-> 0, core |-> Idle]

Established ==
    /\ enrollment = [exists |-> TRUE, enabled |-> TRUE, first |-> 0, next |-> Cycle,
                     schedule |-> TRUE, policy |-> "pause"]
    /\ billing = [overdue |-> None, until |-> Cycle, renewal |-> FALSE,
                  courtesy |-> "none", invoiced |-> FALSE, schedule |-> TRUE,
                  next |-> Cycle, version |-> 1, recurrence |-> "active"]
    /\ decisions = <<[core |-> Core(billing, "pause", 0), deliverable |-> TRUE,
                      status |-> "synced"]>>
    /\ licensing = [version |-> 1, core |-> Core(billing, "pause", 0)]

Init ==
    /\ now = 0
    /\ contract = [status |-> "ativo", term |-> None, revision |-> "paid"]
    /\ Fresh \/ Established
    /\ notices = <<>>
    /\ tx = Idle
    /\ wire = {}
    /\ events = 0

-----------------------------------------------------------------------------
\* SELECT ... FOR UPDATE of the contract: nobody else is inside.
Free == tx = Idle
Active == contract.status = "ativo"

Event == events < MaxEvents /\ events' = events + 1

\* observe() and core(): what a decision taken now would say.
CurrentCore == Core(billing, enrollment.policy, now)

Latest == decisions[Len(decisions)]

\* A recurrence goes on unless the last decision stops it.
NotStopped == decisions # <<>> => Latest.core.recurrence = "active"

Pending == {v \in DOMAIN decisions : decisions[v].status = "pending"}

\* The request that the transaction waits for an answer to.
Awaited ==
    CASE tx.pc = "posting"   -> {ToBilling(tx.version, tx.core)}
      [] tx.pc = "told" /\ decisions[tx.version].deliverable
                             -> {ToLicensing(tx.version, tx.core)}
      [] tx.pc = "advancing" -> {ToAdvance(tx.expected, FALSE)}
      [] tx.pc = "renewing"  -> {ToAdvance(tx.expected, TRUE)}
      [] OTHER               -> {}
===============================================================================
