------------------------------- MODULE Budget -------------------------------
(***************************************************************************)
(* A workspace's money (services/budgeting.py): the wallet of manually     *)
(* granted credits, the spend limit, and one budget reservation per cloud  *)
(* run with the usage rows that its settlement appends.                    *)
(*                                                                         *)
(* The wallet is an ORM row: a handler reads balance_cents, computes in    *)
(* Python, and writes the result back by id when its transaction commits,  *)
(* without a version check.  The reservation is closed by a conditional    *)
(* UPDATE, which locks its row until the commit.  So a handler is a read   *)
(* and a commit, and handlers of one workspace interleave between the two; *)
(* a handler that dies before its commit (Abort) leaves no trace.          *)
(***************************************************************************)
EXTENDS Integers, FiniteSets, Functions

CONSTANTS
  Runs,        \* cloud runs that may be submitted; each has one reservation
  Handlers,    \* request handlers
  Crews,       \* sets of handlers that may be in flight at once
  Estimate,    \* DEFAULT_CLOUD_RUN_RESERVATION_CENTS
  Grants,      \* amounts of manual grants
  Limits,      \* monthly_limit_cents that may be set; 0 is no limit
  RunLimits,   \* per_run_limit_cents that may be set; 0 is no limit
  Costs,       \* what a run's usage may be measured at
  MaxGranted,  \* bound of the runs: no grant beyond this total
  LastMonth    \* bound of the runs: months 0 .. LastMonth

ASSUME RunsAssumption    == Runs # {} /\ IsFiniteSet(Runs)
ASSUME CrewsAssumption   == Crews \subseteq SUBSET Handlers
ASSUME AmountsAssumption == /\ Estimate \in Nat \ {0}
                            /\ Grants \subseteq Nat /\ Costs \subseteq Nat
                            /\ Limits \subseteq Nat /\ RunLimits \subseteq Nat
ASSUME BoundsAssumption  == MaxGranted \in Nat /\ LastMonth \in Nat

VARIABLES
  crew,      \* the handlers of this workspace
  wallet,    \* [open, balance]: the credit_wallet row
  limit,     \* [monthly, perRun]: the spend_limit row
  resv,      \* the budget_reservation rows
  usage,     \* cents on the usage_ledger_entry rows of each run
  granted,   \* all cents ever granted
  month,     \* the current calendar month
  task       \* request handlers

vars == <<crew, wallet, limit, resv, usage, granted, month, task>>

NoReservation == [status |-> "none", created |-> 0, closed |-> 0, settled |-> 0]

Reservation == [ status  : {"none", "reserved", "released", "settled"},
                 created : 0 .. LastMonth,     \* month of created_at
                 closed  : 0 .. LastMonth,     \* month of settled_at
                 settled : Nat ]               \* settled_cents

\* saw is the wallet as the handler read it, run the reservation a closing handler locked.
Idle == [pc |-> "idle", saw |-> 0, run |-> CHOOSE r \in Runs : TRUE, amount |-> 0, new |-> FALSE]

Init == /\ crew \in Crews
        /\ wallet = [open |-> FALSE, balance |-> 0]
        /\ limit = [monthly |-> 0, perRun |-> 0]
        /\ resv = [r \in Runs |-> NoReservation]
        /\ usage = [r \in Runs |-> 0]
        /\ granted = 0
        /\ month = 0
        /\ task = [h \in Handlers |-> Idle]

-----------------------------------------------------------------------------
(***************************************************************************)
(* What the workspace has committed to: an open reservation counts with    *)
(* its estimate, a settled one with what it was billed.                    *)
(***************************************************************************)
Held(r) == CASE resv[r].status = "reserved" -> Estimate
             [] resv[r].status = "settled"  -> resv[r].settled
             [] OTHER                       -> 0

Committed == SumFunctionOnSet([r \in Runs |-> Held(r)], Runs)

\* Open reservations count in the month they were created, settled ones in the month
\* they were settled.
MonthTotal ==
  SumFunctionOnSet([r \in Runs |-> Held(r)],
    {r \in Runs : \/ resv[r].status = "reserved" /\ resv[r].created = month
                  \/ resv[r].status = "settled"  /\ resv[r].closed = month})

\* Bug: the new run itself is left out of the total.
LimitAllowsNext == limit.monthly > 0 => MonthTotal < limit.monthly

LimitAllows ==
  /\ limit.perRun > 0 => Estimate <= limit.perRun
  /\ limit.monthly > 0 => MonthTotal + Estimate <= limit.monthly

-----------------------------------------------------------------------------
At(h, step) == task[h].pc = step
Idles(h) == At(h, "idle")

Goto(h, step, saw, r, amount) ==
  task' = [task EXCEPT ![h] = [pc |-> step, saw |-> saw, run |-> r, amount |-> amount,
                               new |-> ~wallet.open]]
Finish(h) == task' = [task EXCEPT ![h] = Idle]

\* The balance column is written only when it differs from the one the handler read.
WriteBalance(h, balance) ==
  wallet' = [open    |-> TRUE,
             balance |-> IF balance = task[h].saw THEN wallet.balance ELSE balance]

(***************************************************************************)
(* grant_manual_credit.  The first grant of a workspace creates its wallet; *)
(* of two that try, the unique constraint on workspace_id refuses one.     *)
(***************************************************************************)
ReadForGrant(h, amount) ==
  /\ Idles(h)
  /\ Goto(h, "grant", wallet.balance, Idle.run, amount)
  /\ UNCHANGED <<wallet, limit, resv, usage, granted, month>>

Grant(h) ==
  /\ At(h, "grant")
  /\ task[h].new => ~wallet.open
  /\ granted + task[h].amount <= MaxGranted
  /\ WriteBalance(h, task[h].saw + task[h].amount)
  /\ granted' = granted + task[h].amount
  /\ Finish(h)
  /\ UNCHANGED <<limit, resv, usage, month>>

\* set_workspace_spend_limit writes values that do not depend on what it reads; columns
\* left over from an overlapping request are among the pairs chosen here.
SetLimit(h, monthly, perRun) ==
  /\ Idles(h)
  /\ limit' = [monthly |-> monthly, perRun |-> perRun]
  /\ UNCHANGED <<wallet, resv, usage, granted, month, task>>

(***************************************************************************)
(* reserve_cloud_run_budget: the limit is checked, the wallet is read and  *)
(* checked, and both checks are trusted until enqueue_cloud_run commits.   *)
(***************************************************************************)
CheckLimit(h) ==
  /\ Idles(h)
  /\ LimitAllows
  /\ Goto(h, "fund", 0, Idle.run, 0)
  /\ UNCHANGED <<wallet, limit, resv, usage, granted, month>>

\* Bug: any positive balance will do.
ReadWalletActive(h) ==
  /\ At(h, "fund")
  /\ IF wallet.open /\ wallet.balance > 0
       THEN Goto(h, "reserve", wallet.balance, Idle.run, 0)
       ELSE Finish(h)
  /\ UNCHANGED <<wallet, limit, resv, usage, granted, month>>

\* 402 Insufficient credits, or on to the reservation.
ReadWallet(h) ==
  /\ At(h, "fund")
  /\ IF wallet.open /\ wallet.balance > 0 /\ wallet.balance >= Estimate
       THEN Goto(h, "reserve", wallet.balance, Idle.run, 0)
       ELSE Finish(h)
  /\ UNCHANGED <<wallet, limit, resv, usage, granted, month>>

Reserve(h, r) ==
  /\ At(h, "reserve")
  /\ resv[r].status = "none"
  /\ WriteBalance(h, task[h].saw - Estimate)
  /\ resv' = [resv EXCEPT ![r].status = "reserved", ![r].created = month]
  /\ Finish(h)
  /\ UNCHANGED <<limit, usage, granted, month>>

(***************************************************************************)
(* release_cloud_run_reservation and settle_cloud_run_budget, called by    *)
(* every path that ends a run: the reservation is taken by an UPDATE that  *)
(* tests it, only then is the wallet read, and the refund is committed     *)
(* together with the reservation and the usage rows.                       *)
(***************************************************************************)
Locked(r) == \E h \in Handlers : task[h].pc \in {"release", "settle"} /\ task[h].run = r

TakeReservation(h, r, step, measured) ==
  /\ Idles(h)
  /\ resv[r].status = "reserved"
  /\ ~Locked(r)
  /\ Goto(h, step, wallet.balance, r, measured)
  /\ UNCHANGED <<wallet, limit, resv, usage, granted, month>>

BeginRelease(h, r)          == TakeReservation(h, r, "release", 0)
BeginSettle(h, r, measured) == TakeReservation(h, r, "settle", measured)

ClosedAs(r, status, billable) ==
  [resv[r] EXCEPT !.status = status, !.closed = month, !.settled = billable]

\* Bug: the released reservation is not paid back.
ReleaseUnpaid(h) ==
  /\ At(h, "release")
  /\ resv' = [resv EXCEPT ![task[h].run] = ClosedAs(task[h].run, "released", 0)]
  /\ Finish(h)
  /\ UNCHANGED <<wallet, limit, usage, granted, month>>

Release(h) ==
  /\ At(h, "release")
  /\ resv' = [resv EXCEPT ![task[h].run] = ClosedAs(task[h].run, "released", 0)]
  /\ WriteBalance(h, task[h].saw + Estimate)
  /\ Finish(h)
  /\ UNCHANGED <<limit, usage, granted, month>>

\* Bug: the remainder is billed, uncapped.
BillableRemainder(measured) == Estimate - measured

\* The measured cost is billed up to the estimate.
Billable(measured) == IF measured < Estimate THEN measured ELSE Estimate

\* _cloud_run_usage_measurements adds up submission, runtime seconds, queue message, stored
\* bytes and log syncs; the model has their sum, which may be any of Costs.
Measurements == Costs

\* One usage row per run and type: rows that exist are kept.
Recorded(r, measured) == IF usage[r] = 0 THEN measured ELSE usage[r]

Settle(h) ==
  LET r == task[h].run
      measured == task[h].amount
  IN /\ At(h, "settle")
     /\ resv' = [resv EXCEPT ![r] = ClosedAs(r, "settled", Billable(measured))]
     /\ usage' = [usage EXCEPT ![r] = Recorded(r, measured)]
     /\ WriteBalance(h, task[h].saw + (Estimate - Billable(measured)))
     /\ Finish(h)
     /\ UNCHANGED <<limit, granted, month>>

\* A handler that raises or dies rolls its transaction back.
Abort(h) ==
  /\ ~Idles(h)
  /\ Finish(h)
  /\ UNCHANGED <<wallet, limit, resv, usage, granted, month>>

NextMonth ==
  /\ month < LastMonth
  /\ month' = month + 1
  /\ UNCHANGED <<wallet, limit, resv, usage, granted, task>>

Handling(h) ==
  \/ \E m \in Limits, p \in RunLimits : SetLimit(h, m, p)
  \/ \E a \in Grants : ReadForGrant(h, a)
  \/ Grant(h)
  \/ CheckLimit(h)
  \/ ReadWallet(h)
  \/ \E r \in Runs : Reserve(h, r)
  \/ \E r \in Runs : BeginRelease(h, r)
  \/ \E r \in Runs, m \in Measurements : BeginSettle(h, r, m)
  \/ Release(h)
  \/ Settle(h)
  \/ Abort(h)

Next == UNCHANGED crew /\ (NextMonth \/ \E h \in crew : Handling(h))

Spec == Init /\ [][Next]_vars

-----------------------------------------------------------------------------
(***************************************************************************)
(* Properties.                                                             *)
(***************************************************************************)

\* Rows and handlers stay within the types of their columns.
Task == [ pc     : {"idle", "grant", "fund", "reserve", "release", "settle"},
          saw    : Int,
          run    : Runs,
          amount : Nat,
          new    : BOOLEAN ]

TypeOK == /\ crew \in Crews
          /\ wallet \in [open : BOOLEAN, balance : Int]
          /\ limit \in [monthly : Nat, perRun : Nat]
          /\ resv \in [Runs -> Reservation]
          /\ usage \in [Runs -> Nat]
          /\ granted \in Nat
          /\ month \in 0 .. LastMonth
          /\ task \in [Handlers -> Task]

\* However grants, reservations and refunds overlap, no handler writes a negative balance
\* into the wallet (balance_cents has no CHECK constraint; reserve_cloud_run_budget's test
\* is made on the value it later writes from).
NoOverdraft == wallet.balance >= 0

\* A settled reservation was billed for exactly its run's usage rows, capped at the
\* estimate; a run whose reservation was refunded, or is still open, has no usage rows
\* (settle_cloud_run_budget, release_cloud_run_reservation).
BillsMatchUsage ==
  \A r \in Runs : IF resv[r].status = "settled"
                    THEN resv[r].settled = Billable(usage[r])
                    ELSE resv[r].settled = 0 /\ usage[r] = 0

\* Of two handlers that end the same run only one pays back: a reservation that was
\* released or settled is not touched again (_transition_reserved_reservation).
PaidBackOnce ==
  [][\A r \in Runs :
       resv[r].status \in {"released", "settled"} => resv'[r] = resv[r]]_vars

\* What the wallet has and what is reserved or settled is what was granted, to the cent
\* (grant_manual_credit, reserve, release, settle): a commit changes the sum only if the
\* balance was changed between the handler's read and its commit.
MoneyIsConserved ==
  [][\A h \in Handlers :
       ~Idles(h) /\ task'[h] = Idle /\ task[h].saw = wallet.balance
         => (wallet.balance + Committed - granted)' = wallet.balance + Committed - granted]_vars

\* What is reserved and settled was granted: a reservation is never made of credits that
\* another one has taken (reserve_cloud_run_budget).
ReservationsAreFunded == Committed <= granted

\* Requests of this workspace are served one at a time.
Serial == \A h, k \in crew : h = k

\* When they are, a reservation never lifts the month's total over the monthly limit in
\* force (_ensure_spend_limit_allows); overlapping submissions may pass the check together.
MonthlyLimitHolds ==
  [][\A r \in Runs :
       Serial /\ resv[r].status = "none" /\ resv'[r].status = "reserved" /\ limit.monthly > 0
         => MonthTotal' <= limit.monthly]_vars
=============================================================================
