---------------------------- MODULE BudgetProofs ----------------------------
(***************************************************************************)
(* What holds of the books for any number of runs and handlers, any        *)
(* amounts, and every interleaving.  The argument: what a handler has read *)
(* is never negative and covers what it will subtract; a handler about to  *)
(* close a reservation owns it, and the reservation is still open.  Then   *)
(* sums over finite sets, for the two properties about totals: the wallet  *)
(* and the commitments add up to the grants, and a month stays within its  *)
(* limit.                                                                  *)
(***************************************************************************)
EXTENDS Budget, TLAPS, FiniteSetTheorems, WellFoundedInduction

Closers == {"release", "settle"}

\* The balance a handler computes from is non-negative and covers its reservation.
Covered(h) == /\ task[h].saw >= 0
              /\ At(h, "reserve") => task[h].saw >= Estimate

\* A closing handler works on an open reservation, and is alone.
Owned(h) == task[h].pc \in Closers => resv[task[h].run].status = "reserved"
Alone(h, k) == /\ task[h].pc \in Closers /\ task[k].pc \in Closers
               /\ task[h].run = task[k].run
               => h = k

IInv == /\ TypeOK
        /\ NoOverdraft
        /\ \A h \in Handlers : Covered(h)
        /\ \A h \in Handlers : Owned(h)
        /\ \A h, k \in Handlers : Alone(h, k)
        /\ BillsMatchUsage

HandlersInv == /\ task \in [Handlers -> Task]
               /\ \A h \in Handlers : Covered(h)
               /\ \A h \in Handlers : Owned(h)
               /\ \A h, k \in Handlers : Alone(h, k)

-----------------------------------------------------------------------------
\* The bill of a measured cost is a natural number no greater than the estimate.
LEMMA BillBounded ==
  ASSUME NEW m \in Nat
  PROVE  Billable(m) \in 0 .. Estimate
  BY AmountsAssumption DEF Billable

\* A handler at rest is typed and closes nothing.
LEMMA IdleTyped == Idle \in Task /\ Idle.pc = "idle" /\ Idle.saw = 0 /\ Idle.new = FALSE
  <1>1. (CHOOSE r \in Runs : TRUE) \in Runs
    BY RunsAssumption
  <1>2. QED
    BY <1>1 DEF Idle, Task

\* A step that replaces one handler keeps the handlers' invariant if the new handler's
\* balance is covered, it owns alone what it is about to close, and the reservations of
\* the other closing handlers stay open.
LEMMA HandlerStep ==
  ASSUME NEW h \in Handlers, NEW t \in Task, HandlersInv,
         task' = [task EXCEPT ![h] = t],
         t.saw >= 0,
         t.pc = "reserve" => t.saw >= Estimate,
         t.pc \in Closers => /\ resv'[t.run].status = "reserved"
                             /\ \A k \in Handlers \ {h} :
                                  ~(task[k].pc \in Closers /\ task[k].run = t.run),
         \A k \in Handlers \ {h} :
           task[k].pc \in Closers => resv'[task[k].run].status = "reserved"
  PROVE  HandlersInv'
  <1>1. task'[h] = t /\ \A k \in Handlers \ {h} : task'[k] = task[k]
    BY DEF HandlersInv
  <1>2. task' \in [Handlers -> Task]
    BY DEF HandlersInv
  <1>3. \A k \in Handlers : Covered(k)'
    BY <1>1 DEF HandlersInv, Covered, At
  <1>4. \A k \in Handlers : Owned(k)'
    BY <1>1 DEF HandlersInv, Owned
  <1>5. \A j, k \in Handlers : Alone(j, k)'
    BY <1>1 DEF HandlersInv, Alone
  <1>6. QED
    BY <1>2, <1>3, <1>4, <1>5 DEF HandlersInv

\* A handler that finishes without touching a reservation keeps the handlers' invariant.
LEMMA FinishStep ==
  ASSUME NEW h \in Handlers, HandlersInv, Finish(h),
         \A k \in Handlers \ {h} :
           task[k].pc \in Closers => resv'[task[k].run].status = "reserved"
  PROVE  HandlersInv'
  <1>1. task' = [task EXCEPT ![h] = Idle]
    BY DEF Finish
  <1>2. Idle \in Task /\ Idle.saw >= 0 /\ Idle.pc # "reserve" /\ ~(Idle.pc \in Closers)
    BY IdleTyped DEF Closers
  <1>3. QED
    BY <1>1, <1>2, HandlerStep

-----------------------------------------------------------------------------
\* The first state satisfies the inductive invariant.
LEMMA InitIInv == Init => IInv
  BY IdleTyped, BoundsAssumption
  DEF Init, IInv, TypeOK, NoOverdraft, Covered, Owned, Alone, At, Closers, BillsMatchUsage,
      Reservation, NoReservation

\* No handler but the closing one works on the reservation that is being closed, so the
\* others' reservations stay open when it is written.
LEMMA OthersKeep ==
  ASSUME NEW h \in Handlers, HandlersInv, task[h].pc \in Closers,
         resv \in [Runs -> Reservation],
         NEW row, resv' = [resv EXCEPT ![task[h].run] = row]
  PROVE  \A k \in Handlers \ {h} :
           task[k].pc \in Closers => resv'[task[k].run].status = "reserved"
  <1> SUFFICES ASSUME NEW k \in Handlers \ {h}, task[k].pc \in Closers
               PROVE  resv'[task[k].run].status = "reserved"
    OBVIOUS
  <1>1. task[k].run # task[h].run
    BY DEF HandlersInv, Alone
  <1>2. task[k].run \in Runs /\ resv[task[k].run].status = "reserved"
    BY DEF HandlersInv, Owned, Task
  <1>3. QED
    BY <1>1, <1>2

\* Reads, limit changes and aborts leave the books alone.
LEMMA ReadStep ==
  ASSUME IInv, UNCHANGED crew, NEW h \in Handlers,
         \/ \E a \in Grants : ReadForGrant(h, a)
         \/ \E m \in Limits, p \in RunLimits : SetLimit(h, m, p)
         \/ CheckLimit(h)
         \/ ReadWallet(h)
         \/ \E r \in Runs : BeginRelease(h, r)
         \/ \E r \in Runs, m \in Measurements : BeginSettle(h, r, m)
         \/ Abort(h)
  PROVE  IInv'
  <1>0. HandlersInv /\ task[h] \in Task /\ wallet.balance \in Int /\ wallet.balance >= 0
        /\ wallet.open \in BOOLEAN
    BY DEF IInv, HandlersInv, TypeOK, NoOverdraft
  <1>1. UNCHANGED <<wallet, resv, usage, granted, month>>
    BY DEF ReadForGrant, SetLimit, CheckLimit, ReadWallet, BeginRelease, BeginSettle,
           TakeReservation, Abort
  <1>2. limit' \in [monthly : Nat, perRun : Nat]
    BY AmountsAssumption
    DEF IInv, TypeOK, ReadForGrant, SetLimit, CheckLimit, ReadWallet, BeginRelease,
        BeginSettle, TakeReservation, Abort
  <1>3. \A k \in Handlers : task[k].pc \in Closers => resv'[task[k].run].status = "reserved"
    BY <1>0, <1>1 DEF HandlersInv, Owned
  <1>4. HandlersInv'
    <2>1. ASSUME NEW a \in Grants, ReadForGrant(h, a) PROVE HandlersInv'
      <3>1. DEFINE t == [pc |-> "grant", saw |-> wallet.balance, run |-> Idle.run,
                         amount |-> a, new |-> ~wallet.open]
      <3>2. t \in Task /\ t.saw >= 0 /\ t.pc # "reserve" /\ ~(t.pc \in Closers)
        BY <1>0, AmountsAssumption, IdleTyped DEF Task, Closers
      <3>3. task' = [task EXCEPT ![h] = t]
        BY <2>1 DEF ReadForGrant, Goto
      <3>4. QED
        BY <1>0, <1>3, <3>2, <3>3, HandlerStep
    <2>2. ASSUME NEW m \in Limits, NEW p \in RunLimits, SetLimit(h, m, p)
          PROVE  HandlersInv'
      BY <1>0, <1>1, <2>2 DEF SetLimit, HandlersInv, Covered, Owned, Alone, At
    <2>3. ASSUME CheckLimit(h) PROVE HandlersInv'
      <3>1. DEFINE t == [pc |-> "fund", saw |-> 0, run |-> Idle.run,
                         amount |-> 0, new |-> ~wallet.open]
      <3>2. t \in Task /\ t.saw >= 0 /\ t.pc # "reserve" /\ ~(t.pc \in Closers)
        BY <1>0, IdleTyped DEF Task, Closers
      <3>3. task' = [task EXCEPT ![h] = t]
        BY <2>3 DEF CheckLimit, Goto
      <3>4. QED
        BY <1>0, <1>3, <3>2, <3>3, HandlerStep
    <2>4. ASSUME ReadWallet(h) PROVE HandlersInv'
      <3>1. CASE wallet.open /\ wallet.balance > 0 /\ wallet.balance >= Estimate
        <4>1. DEFINE t == [pc |-> "reserve", saw |-> wallet.balance, run |-> Idle.run,
                           amount |-> 0, new |-> ~wallet.open]
        <4>2. t \in Task /\ t.saw >= 0 /\ t.saw >= Estimate /\ ~(t.pc \in Closers)
          BY <1>0, <3>1, IdleTyped DEF Task, Closers
        <4>3. task' = [task EXCEPT ![h] = t]
          BY <2>4, <3>1 DEF ReadWallet, Goto
        <4>4. QED
          BY <1>0, <1>3, <4>2, <4>3, HandlerStep
      <3>2. CASE ~(wallet.open /\ wallet.balance > 0 /\ wallet.balance >= Estimate)
        BY <1>0, <1>3, <2>4, <3>2, FinishStep DEF ReadWallet
      <3>3. QED
        BY <3>1, <3>2
    <2>5. ASSUME NEW r \in Runs, NEW step \in Closers, NEW m \in Nat,
                 TakeReservation(h, r, step, m)
          PROVE  HandlersInv'
      <3>1. DEFINE t == [pc |-> step, saw |-> wallet.balance, run |-> r,
                         amount |-> m, new |-> ~wallet.open]
      <3>2. t \in Task /\ t.saw >= 0 /\ t.pc # "reserve"
        BY <1>0, <2>5 DEF Task, Closers
      <3>3. task' = [task EXCEPT ![h] = t]
        BY <2>5 DEF TakeReservation, Goto
      <3>4. resv'[t.run].status = "reserved"
        BY <2>5 DEF TakeReservation
      <3>5. \A k \in Handlers \ {h} : ~(task[k].pc \in Closers /\ task[k].run = t.run)
        BY <2>5 DEF TakeReservation, Locked, Closers
      <3>6. QED
        BY <1>0, <1>3, <3>2, <3>3, <3>4, <3>5, HandlerStep
    <2>6. ASSUME NEW r \in Runs, BeginRelease(h, r) PROVE HandlersInv'
      BY <2>5, <2>6 DEF BeginRelease, Closers
    <2>7. ASSUME NEW r \in Runs, NEW m \in Measurements, BeginSettle(h, r, m)
          PROVE  HandlersInv'
      BY <2>5, <2>7, AmountsAssumption DEF BeginSettle, Closers, Measurements
    <2>8. ASSUME Abort(h) PROVE HandlersInv'
      BY <1>0, <1>3, <2>8, FinishStep DEF Abort
    <2>9. QED
      BY <2>1, <2>2, <2>3, <2>4, <2>6, <2>7, <2>8
  <1>5. QED
    BY <1>1, <1>2, <1>4 DEF IInv, HandlersInv, TypeOK, NoOverdraft, BillsMatchUsage

-----------------------------------------------------------------------------
\* A handler that writes back what it read, changed by an amount it covers, leaves a
\* non-negative balance.
LEMMA WriteBalanceEffect ==
  ASSUME TypeOK, NoOverdraft, NEW h \in Handlers, NEW b \in Int, b >= 0, WriteBalance(h, b)
  PROVE  wallet' \in [open : BOOLEAN, balance : Int] /\ wallet'.balance >= 0
  BY DEF WriteBalance, TypeOK, NoOverdraft

LEMMA GrantStep ==
  ASSUME IInv, UNCHANGED crew, NEW h \in Handlers, Grant(h)
  PROVE  IInv'
  <1>0. HandlersInv /\ task[h] \in Task /\ task[h].saw >= 0 /\ TypeOK /\ NoOverdraft
    BY DEF IInv, HandlersInv, TypeOK, Covered
  <1>1. wallet' \in [open : BOOLEAN, balance : Int] /\ wallet'.balance >= 0
    <2>1. task[h].saw + task[h].amount \in Int /\ task[h].saw + task[h].amount >= 0
      BY <1>0 DEF Task
    <2>2. QED
      BY <1>0, <2>1, WriteBalanceEffect DEF Grant
  <1>2. granted' \in Nat
    BY <1>0 DEF Grant, Task, TypeOK
  <1>3. HandlersInv'
    BY <1>0, FinishStep DEF Grant, HandlersInv, Owned
  <1>4. QED
    BY <1>0, <1>1, <1>2, <1>3
    DEF IInv, HandlersInv, TypeOK, NoOverdraft, BillsMatchUsage, Grant

LEMMA ReserveStep ==
  ASSUME IInv, UNCHANGED crew, NEW h \in Handlers, NEW r \in Runs, Reserve(h, r)
  PROVE  IInv'
  <1>0. HandlersInv /\ task[h] \in Task /\ task[h].saw >= Estimate /\ TypeOK /\ NoOverdraft
    BY DEF IInv, HandlersInv, TypeOK, Covered, Reserve
  <1>1. wallet' \in [open : BOOLEAN, balance : Int] /\ wallet'.balance >= 0
    <2>1. task[h].saw - Estimate \in Int /\ task[h].saw - Estimate >= 0
      BY <1>0, AmountsAssumption DEF Task
    <2>2. QED
      BY <1>0, <2>1, WriteBalanceEffect DEF Reserve
  <1>2. /\ resv' \in [Runs -> Reservation]
        /\ resv'[r].status = "reserved" /\ resv'[r].settled = resv[r].settled
        /\ \A q \in Runs \ {r} : resv'[q] = resv[q]
    BY <1>0 DEF Reserve, TypeOK, Reservation
  <1>3. \A k \in Handlers : task[k].pc \in Closers => resv'[task[k].run].status = "reserved"
    <2>1. \A k \in Handlers : task[k].run \in Runs
      BY <1>0 DEF HandlersInv, Task
    <2>2. QED
      BY <1>0, <1>2, <2>1 DEF HandlersInv, Owned
  <1>4. HandlersInv'
    BY <1>0, <1>3, FinishStep DEF Reserve
  <1>5. BillsMatchUsage'
    <2>1. usage' = usage /\ resv[r].status = "none"
      BY DEF Reserve
    <2>2. QED
      BY <1>2, <2>1 DEF IInv, BillsMatchUsage, Billable
  <1>6. QED
    BY <1>0, <1>1, <1>2, <1>4, <1>5 DEF IInv, HandlersInv, TypeOK, NoOverdraft, Reserve

LEMMA ReleaseStep ==
  ASSUME IInv, UNCHANGED crew, NEW h \in Handlers, Release(h)
  PROVE  IInv'
  <1> DEFINE r == task[h].run
  <1>0. /\ HandlersInv /\ task[h] \in Task /\ task[h].saw >= 0 /\ TypeOK /\ NoOverdraft
        /\ task[h].pc \in Closers /\ r \in Runs /\ resv[r].status = "reserved"
    BY DEF IInv, HandlersInv, TypeOK, Covered, Owned, Task, Release, At, Closers
  <1>1. wallet' \in [open : BOOLEAN, balance : Int] /\ wallet'.balance >= 0
    <2>1. task[h].saw + Estimate \in Int /\ task[h].saw + Estimate >= 0
      BY <1>0, AmountsAssumption DEF Task
    <2>2. QED
      BY <1>0, <2>1, WriteBalanceEffect DEF Release
  <1>2. /\ resv' \in [Runs -> Reservation]
        /\ resv'[r].status = "released" /\ resv'[r].settled = 0
        /\ \A q \in Runs \ {r} : resv'[q] = resv[q]
    BY ZenonT(40), <1>0 DEF Release, ClosedAs, TypeOK, Reservation
  <1>3. HandlersInv'
    <2>1. resv' = [resv EXCEPT ![task[h].run] = ClosedAs(task[h].run, "released", 0)]
      BY DEF Release
    <2>2. QED
      BY <1>0, <2>1, OthersKeep, FinishStep DEF Release, TypeOK
  <1>4. BillsMatchUsage'
    <2>1. usage' = usage
      BY DEF Release
    <2>2. QED
      BY <1>0, <1>2, <2>1 DEF IInv, BillsMatchUsage, Billable
  <1>5. QED
    BY <1>0, <1>1, <1>2, <1>3, <1>4 DEF IInv, HandlersInv, TypeOK, NoOverdraft, Release

LEMMA SettleStep ==
  ASSUME IInv, UNCHANGED crew, NEW h \in Handlers, Settle(h)
  PROVE  IInv'
  <1> DEFINE r == task[h].run
             measured == task[h].amount
  <1>0. /\ HandlersInv /\ task[h] \in Task /\ task[h].saw >= 0 /\ TypeOK /\ NoOverdraft
        /\ task[h].pc \in Closers /\ r \in Runs /\ resv[r].status = "reserved"
        /\ measured \in Nat
    BY DEF IInv, HandlersInv, TypeOK, Covered, Owned, Task, Settle, At, Closers
  <1>1. Billable(measured) \in 0 .. Estimate
    BY <1>0, BillBounded
  <1>2. wallet' \in [open : BOOLEAN, balance : Int] /\ wallet'.balance >= 0
    <2>1. /\ task[h].saw + (Estimate - Billable(measured)) \in Int
          /\ task[h].saw + (Estimate - Billable(measured)) >= 0
      BY <1>0, <1>1, AmountsAssumption DEF Task
    <2>2. WriteBalance(h, task[h].saw + (Estimate - Billable(measured)))
      BY DEF Settle
    <2>3. QED
      BY <1>0, <2>1, <2>2, WriteBalanceEffect
  <1>3. /\ resv' \in [Runs -> Reservation]
        /\ resv'[r].status = "settled" /\ resv'[r].settled = Billable(measured)
        /\ \A q \in Runs \ {r} : resv'[q] = resv[q]
    <2>1. resv' = [resv EXCEPT ![r] = ClosedAs(r, "settled", Billable(measured))]
      BY DEF Settle
    <2>2. Billable(measured) \in Nat /\ month \in 0 .. LastMonth /\ resv[r] \in Reservation
      BY <1>0, <1>1, AmountsAssumption DEF TypeOK
    <2>3. /\ ClosedAs(r, "settled", Billable(measured)) \in Reservation
          /\ ClosedAs(r, "settled", Billable(measured)).status = "settled"
          /\ ClosedAs(r, "settled", Billable(measured)).settled = Billable(measured)
      BY <2>2 DEF ClosedAs, Reservation
    <2>4. resv \in [Runs -> Reservation] /\ r \in Runs
      BY <1>0 DEF TypeOK
    <2>5. resv'[r] = ClosedAs(r, "settled", Billable(measured))
      BY <2>1, <2>4
    <2>6. resv' \in [Runs -> Reservation] /\ \A q \in Runs \ {r} : resv'[q] = resv[q]
      BY <2>1, <2>3, <2>4
    <2>7. QED
      BY <2>3, <2>5, <2>6
  <1>4. HandlersInv'
    <2>1. resv' = [resv EXCEPT ![task[h].run]
                     = ClosedAs(task[h].run, "settled", Billable(measured))]
      BY DEF Settle
    <2>2. QED
      BY <1>0, <2>1, OthersKeep, FinishStep DEF Settle, TypeOK
  <1>5. usage' \in [Runs -> Nat] /\ usage'[r] = measured
        /\ \A q \in Runs \ {r} : usage'[q] = usage[q]
    <2>1. usage[r] = 0
      BY <1>0 DEF IInv, BillsMatchUsage
    <2>2. QED
      BY <1>0, <2>1 DEF Settle, TypeOK, Recorded
  <1>6. BillsMatchUsage'
    <2> SUFFICES ASSUME NEW q \in Runs
                 PROVE  IF resv'[q].status = "settled"
                          THEN resv'[q].settled = Billable(usage'[q])
                          ELSE resv'[q].settled = 0 /\ usage'[q] = 0
      BY DEF BillsMatchUsage, Billable
    <2>1. CASE q = r
      BY <1>3, <1>5, <2>1
    <2>2. CASE q # r
      BY <1>3, <1>5, <2>2 DEF IInv, BillsMatchUsage
    <2>3. QED
      BY <2>1, <2>2
  <1>7. QED
    BY <1>0, <1>2, <1>3, <1>4, <1>5, <1>6 DEF IInv, HandlersInv, TypeOK, NoOverdraft, Settle

\* Every step keeps the inductive invariant.
LEMMA NextIInv == IInv /\ [Next]_vars => IInv'
  <1> SUFFICES ASSUME IInv, [Next]_vars PROVE IInv'
    OBVIOUS
  <1>0. /\ UNCHANGED crew
        /\ \/ NextMonth \/ UNCHANGED vars
           \/ \E h \in Handlers : Handling(h)
    BY CrewsAssumption DEF IInv, TypeOK, Next, vars
  <1>1. CASE NextMonth
    BY <1>0, <1>1, BoundsAssumption
    DEF IInv, NextMonth, TypeOK, NoOverdraft, Covered, Owned, Alone, At, BillsMatchUsage
  <1>2. CASE UNCHANGED vars
    BY <1>2 DEF IInv, vars, TypeOK, NoOverdraft, Covered, Owned, Alone, At, BillsMatchUsage
  <1>3. ASSUME NEW h \in Handlers, NEW r \in Runs, Reserve(h, r) PROVE IInv'
    BY <1>0, <1>3, ReserveStep
  <1>4. QED
    BY <1>0, <1>1, <1>2, <1>3, ReadStep, GrantStep, ReleaseStep, SettleStep DEF Handling

-----------------------------------------------------------------------------
\* The inductive invariant holds in every reachable state.
LEMMA Invariant == Spec => []IInv
  BY InitIInv, NextIInv, PTL DEF Spec

\* Rows and handlers stay typed for any numbers of runs and handlers and any amounts.
THEOREM BudgetTypeCorrect == Spec => []TypeOK
  BY Invariant, PTL DEF IInv

\* No interleaving of grants, reservations and refunds writes a negative balance.
THEOREM WalletNeverNegative == Spec => []NoOverdraft
  BY Invariant, PTL DEF IInv

\* A settled reservation was billed for its usage rows up to the estimate, every other run
\* has none.
THEOREM BillsAreCappedUsage == Spec => []BillsMatchUsage
  BY Invariant, PTL DEF IInv

\* A reservation that was paid back is never touched again, however many handlers end
\* its run.
THEOREM ReservationsPaidBackOnce == Spec => PaidBackOnce
  <1>1. ASSUME IInv, [Next]_vars, NEW r \in Runs, resv[r].status \in {"released", "settled"}
        PROVE  resv'[r] = resv[r]
    <2>0. \/ NextMonth \/ UNCHANGED vars
          \/ \E h \in Handlers : Handling(h)
      BY <1>1, CrewsAssumption DEF IInv, TypeOK, Next
    <2>1. CASE resv' = resv
      BY <2>1
    <2>2. ASSUME NEW h \in Handlers, NEW q \in Runs, Reserve(h, q)
          PROVE  resv'[r] = resv[r]
      BY <1>1, <2>2 DEF Reserve, IInv, TypeOK
    <2>3. ASSUME NEW h \in Handlers, Release(h) \/ Settle(h)
          PROVE  resv'[r] = resv[r]
      <3>1. task[h].run # r
        BY <1>1, <2>3 DEF IInv, Owned, Release, Settle, At, Closers
      <3>2. PICK row : resv' = [resv EXCEPT ![task[h].run] = row]
        BY <2>3 DEF Release, Settle
      <3>3. QED
        BY <1>1, <3>1, <3>2 DEF IInv, TypeOK
    <2>4. QED
      BY <2>0, <2>1, <2>2, <2>3
      DEF Handling, vars, NextMonth, SetLimit, ReadForGrant, Grant, CheckLimit, ReadWallet,
          BeginRelease, BeginSettle, TakeReservation, Abort
  <1>2. IInv /\ [Next]_vars
          => [\A r \in Runs : resv[r].status \in {"released", "settled"}
                                => resv'[r] = resv[r]]_vars
    BY <1>1
  <1>3. QED
    BY <1>2, Invariant, PTL DEF Spec, PaidBackOnce

-----------------------------------------------------------------------------
(***************************************************************************)
(* Sums over finite sets.  The library's induction theorems take the       *)
(* predicate as an operator, so each lemma is proved from a smallest       *)
(* counterexample.                                                         *)
(***************************************************************************)
Pick(S) == CHOOSE x \in S : TRUE
Sum(f, S) == SumFunctionOnSet(f, S)

\* it has the sums of f over the sets in D.
Sums(it, f, D) == it = [T \in D |-> IF T = {} THEN 0 ELSE f[Pick(T)] + it[T \ {Pick(T)}]]

Smaller(S, n) == {T \in SUBSET S : Cardinality(T) <= n}

\* Among finitely many elements, a family of sets that is not empty has a smallest member.
LEMMA SmallestSet ==
  ASSUME NEW S, IsFiniteSet(S), NEW F, F \subseteq SUBSET S, F # {}
  PROVE  \E T \in F : \A U \in F : U \subseteq T => U = T
  <1>1. IsWellFoundedOn(StrictSubsetOrdering(S), SUBSET S)
    BY FS_StrictSubsetOrderingWellFounded, FS_FiniteSubsetsOfFinite
  <1>2. PICK T \in F : \A U \in F : ~(<<U, T>> \in StrictSubsetOrdering(S))
    BY <1>1, WFMin, Zenon
  <1>3. ASSUME NEW U \in F, U \subseteq T, U # T PROVE FALSE
    <2>1. <<U, T>> \in StrictSubsetOrdering(S)
      BY <1>3 DEF StrictSubsetOrdering
    <2>2. QED
      BY <1>2, <2>1
  <1>4. QED
    BY <1>3

\* What is left of a finite set without the element that the sum takes first.
LEMMA PickRemoved ==
  ASSUME NEW S, IsFiniteSet(S), S # {}
  PROVE  /\ Pick(S) \in S
         /\ IsFiniteSet(S \ {Pick(S)})
         /\ Cardinality(S) \in Nat
         /\ Cardinality(S \ {Pick(S)}) = Cardinality(S) - 1
  <1>1. Pick(S) \in S
    BY DEF Pick
  <1>2. QED
    BY <1>1, FS_RemoveElement, FS_CardinalityType

\* A function of the subsets that satisfies the recursion, built up by their sizes.
LEMMA SumsExist ==
  ASSUME NEW S, IsFiniteSet(S), NEW f
  PROVE  \E it : Sums(it, f, SUBSET S)
  <1> DEFINE Bad == {n \in Nat : ~\E it : Sums(it, f, Smaller(S, n))}
  <1>0. \A T \in SUBSET S : /\ IsFiniteSet(T) /\ Cardinality(T) \in Nat
                            /\ Cardinality(T) <= Cardinality(S)
    BY FS_Subset, FS_CardinalityType
  <1>1. Bad = {}
    <2>1. SUFFICES ASSUME Bad # {} PROVE FALSE
      OBVIOUS
    <2>2. PICK n \in Bad : \A m \in Bad : ~(<<m, n>> \in OpToRel(<, Nat))
      BY <2>1, WFMin, NatLessThanWellFounded, Zenon
    <2>3. n \in Nat /\ ~\E it : Sums(it, f, Smaller(S, n))
      OBVIOUS
    <2>4. n # 0
      <3>1. \A T \in Smaller(S, 0) : T = {}
        BY <1>0, FS_EmptySet DEF Smaller
      <3> DEFINE it == [T \in Smaller(S, 0) |-> 0]
      <3>2. Sums(it, f, Smaller(S, 0))
        BY <3>1 DEF Sums
      <3>3. QED
        BY <2>3, <3>2
    <2>5. n - 1 \in Nat /\ n - 1 \notin Bad
      <3>1. n - 1 \in Nat /\ n - 1 < n
        BY <2>3, <2>4
      <3>2. <<n - 1, n>> \in OpToRel(<, Nat)
        BY <2>3, <3>1 DEF OpToRel
      <3>3. QED
        BY <2>2, <3>1, <3>2
    <2>6. PICK g : Sums(g, f, Smaller(S, n - 1))
      BY <2>5
    <2> DEFINE it == [T \in Smaller(S, n) |->
                        IF T = {} THEN 0 ELSE f[Pick(T)] + g[T \ {Pick(T)}]]
    <2>7. \A T \in Smaller(S, n - 1) : it[T] = g[T]
      <3>1. Smaller(S, n - 1) \subseteq Smaller(S, n)
        BY <1>0, <2>3, <2>4 DEF Smaller
      <3>2. QED
        BY <2>6, <3>1 DEF Sums
    <2>8. \A T \in Smaller(S, n) : T # {} => T \ {Pick(T)} \in Smaller(S, n - 1)
      <3>1. SUFFICES ASSUME NEW T \in Smaller(S, n), T # {}
                     PROVE  T \ {Pick(T)} \in Smaller(S, n - 1)
        OBVIOUS
      <3>2. Cardinality(T \ {Pick(T)}) = Cardinality(T) - 1 /\ Cardinality(T) \in Nat
            /\ Cardinality(T) <= n /\ T \ {Pick(T)} \in SUBSET S
        BY <1>0, <3>1, PickRemoved DEF Smaller
      <3>3. QED
        BY <2>3, <3>2 DEF Smaller
    <2>9. it = [T \in Smaller(S, n) |-> IF T = {} THEN 0 ELSE f[Pick(T)] + it[T \ {Pick(T)}]]
      <3> DEFINE new == [T \in Smaller(S, n) |->
                           IF T = {} THEN 0 ELSE f[Pick(T)] + it[T \ {Pick(T)}]]
      <3>1. \A T \in Smaller(S, n) : it[T] = new[T]
        BY <2>7, <2>8
      <3>2. QED
        BY <3>1
    <2>10. QED
      BY <2>3, <2>9 DEF Sums
  <1>2. Smaller(S, Cardinality(S)) = SUBSET S /\ Cardinality(S) \in Nat
    BY <1>0, FS_CardinalityType DEF Smaller
  <1>3. \E it : Sums(it, f, Smaller(S, Cardinality(S)))
    BY <1>1, <1>2
  <1>4. QED
    BY <1>2, <1>3, Zenon

\* Two families of sums of the same function agree where they overlap.
LEMMA SumsAgree ==
  ASSUME NEW S, IsFiniteSet(S), NEW R \in SUBSET S, NEW f, NEW it, NEW jt,
         Sums(it, f, SUBSET S), Sums(jt, f, SUBSET R)
  PROVE  it[R] = jt[R]
  <1> DEFINE Bad == {T \in SUBSET R : it[T] # jt[T]}
  <1>1. SUFFICES ASSUME Bad # {} PROVE FALSE
    OBVIOUS
  <1>2. IsFiniteSet(R) /\ Bad \subseteq SUBSET R
    BY FS_Subset
  <1>3. PICK T \in Bad : \A U \in Bad : U \subseteq T => U = T
    <2> HIDE DEF Bad
    <2>1. QED
      BY <1>1, <1>2, SmallestSet
  <1>4. T \in SUBSET R /\ T \in SUBSET S /\ it[T] # jt[T]
    OBVIOUS
  <1>5. /\ it[T] = IF T = {} THEN 0 ELSE f[Pick(T)] + it[T \ {Pick(T)}]
        /\ jt[T] = IF T = {} THEN 0 ELSE f[Pick(T)] + jt[T \ {Pick(T)}]
    BY <1>4 DEF Sums
  <1>6. T # {} /\ Pick(T) \in T
    BY <1>4, <1>5 DEF Pick
  <1>7. T \ {Pick(T)} \notin Bad /\ T \ {Pick(T)} \in SUBSET R
    BY <1>3, <1>4, <1>6
  <1>8. QED
    BY <1>4, <1>5, <1>6, <1>7

\* The sum over a finite set: nothing, or one value and the rest.
LEMMA SumUnfolds ==
  ASSUME NEW S, IsFiniteSet(S), NEW f
  PROVE  Sum(f, S) = IF S = {} THEN 0 ELSE f[Pick(S)] + Sum(f, S \ {Pick(S)})
  <1> DEFINE It(R) == CHOOSE it : Sums(it, f, SUBSET R)
  <1>1. \A R : Sum(f, R) = It(R)[R]
    BY DEF Sum, SumFunctionOnSet, FoldFunctionOnSet, MapThenFoldSet, Pick, Sums
  <1>2. \A R \in SUBSET S : Sums(It(R), f, SUBSET R)
    <2>1. SUFFICES ASSUME NEW R \in SUBSET S PROVE Sums(It(R), f, SUBSET R)
      OBVIOUS
    <2>2. \E it : Sums(it, f, SUBSET R)
      BY SumsExist, FS_Subset
    <2>3. QED
      BY <2>2
  <1>3. Sums(It(S), f, SUBSET S)
    BY <1>2
  <1> HIDE DEF It
  <1>4. \A R \in SUBSET S : Sum(f, R) = It(S)[R]
    <2>1. SUFFICES ASSUME NEW R \in SUBSET S PROVE Sum(f, R) = It(S)[R]
      OBVIOUS
    <2>2. Sums(It(R), f, SUBSET R)
      BY <1>2
    <2>3. ASSUME NEW it, NEW jt, Sums(it, f, SUBSET S), Sums(jt, f, SUBSET R)
          PROVE  it[R] = jt[R]
      BY <2>3, SumsAgree
    <2>4. QED
      BY <1>1, <1>3, <2>2, <2>3
  <1>5. It(S)[S] = IF S = {} THEN 0 ELSE f[Pick(S)] + It(S)[S \ {Pick(S)}]
    BY <1>3 DEF Sums
  <1>6. QED
    BY <1>4, <1>5

\* Sums of integers are integers.
LEMMA SumTyped ==
  ASSUME NEW S, IsFiniteSet(S), NEW f, \A x \in S : f[x] \in Int
  PROVE  Sum(f, S) \in Int
  <1> DEFINE Bad == {T \in SUBSET S : Sum(f, T) \notin Int}
  <1>1. SUFFICES ASSUME Bad # {} PROVE FALSE
    OBVIOUS
  <1>2. PICK T \in Bad : \A U \in Bad : U \subseteq T => U = T
    <2>1. Bad \subseteq SUBSET S
      OBVIOUS
    <2> HIDE DEF Bad
    <2>2. QED
      BY <1>1, <2>1, SmallestSet
  <1>3. T \in SUBSET S /\ Sum(f, T) \notin Int /\ IsFiniteSet(T)
    BY FS_Subset
  <1>4. T # {} /\ Pick(T) \in T /\ Sum(f, T) = f[Pick(T)] + Sum(f, T \ {Pick(T)})
    BY <1>3, SumUnfolds DEF Pick
  <1>5. Sum(f, T \ {Pick(T)}) \in Int
    BY <1>2, <1>3, <1>4
  <1>6. QED
    BY <1>3, <1>4, <1>5

\* Sums of naturals are naturals.
LEMMA SumNotNegative ==
  ASSUME NEW S, IsFiniteSet(S), NEW f, \A x \in S : f[x] \in Nat
  PROVE  Sum(f, S) \in Nat
  <1> DEFINE Bad == {T \in SUBSET S : Sum(f, T) \notin Nat}
  <1>1. SUFFICES ASSUME Bad # {} PROVE FALSE
    OBVIOUS
  <1>2. PICK T \in Bad : \A U \in Bad : U \subseteq T => U = T
    <2>1. Bad \subseteq SUBSET S
      OBVIOUS
    <2> HIDE DEF Bad
    <2>2. QED
      BY <1>1, <2>1, SmallestSet
  <1>3. T \in SUBSET S /\ Sum(f, T) \notin Nat /\ IsFiniteSet(T)
    BY FS_Subset
  <1>4. T # {} /\ Pick(T) \in T /\ Sum(f, T) = f[Pick(T)] + Sum(f, T \ {Pick(T)})
    BY <1>3, SumUnfolds DEF Pick
  <1>5. Sum(f, T \ {Pick(T)}) \in Nat
    BY <1>2, <1>3, <1>4
  <1>6. QED
    BY <1>3, <1>4, <1>5

\* Any element may be taken out first.
LEMMA SumWithout ==
  ASSUME NEW S, IsFiniteSet(S), NEW f, \A x \in S : f[x] \in Int, NEW a \in S
  PROVE  Sum(f, S) = f[a] + Sum(f, S \ {a})
  <1> DEFINE Bad == {T \in SUBSET S : \E x \in T : Sum(f, T) # f[x] + Sum(f, T \ {x})}
  <1>1. SUFFICES ASSUME Bad # {} PROVE FALSE
    OBVIOUS
  <1>2. PICK T \in Bad : \A U \in Bad : U \subseteq T => U = T
    <2>1. Bad \subseteq SUBSET S
      OBVIOUS
    <2> HIDE DEF Bad
    <2>2. QED
      BY <1>1, <2>1, SmallestSet
  <1>3. PICK x \in T : Sum(f, T) # f[x] + Sum(f, T \ {x})
    OBVIOUS
  <1>4. T \in SUBSET S /\ x \in T
    OBVIOUS
  <1> DEFINE p == Pick(T)
             R == T \ {p}
             Q == T \ {x}
  <1>5. IsFiniteSet(T) /\ IsFiniteSet(R) /\ IsFiniteSet(Q)
    BY <1>4, FS_Subset, FS_RemoveElement
  <1>6. p \in T /\ Sum(f, T) = f[p] + Sum(f, R)
    BY <1>4, <1>5, SumUnfolds DEF Pick
  <1>7. p # x
    BY <1>3, <1>6
  <1>8. Sum(f, R) = f[x] + Sum(f, R \ {x})
    <2>1. R \in SUBSET S /\ x \in R /\ R \subseteq T /\ R # T
      BY <1>4, <1>6, <1>7
    <2> HIDE DEF R
    <2>2. R \notin Bad
      <3> HIDE DEF Bad
      <3>1. QED
        BY <1>2, <2>1
    <2>3. QED
      BY <2>1, <2>2
  <1>9. Sum(f, Q) = f[p] + Sum(f, Q \ {p})
    <2>1. Q \in SUBSET S /\ p \in Q /\ Q \subseteq T /\ Q # T
      BY <1>4, <1>6, <1>7
    <2> HIDE DEF Q
    <2>2. Q \notin Bad
      <3> HIDE DEF Bad
      <3>1. QED
        BY <1>2, <2>1
    <2> HIDE DEF p
    <2>3. QED
      BY <2>1, <2>2
  <1>10. R \ {x} = Q \ {p} /\ Sum(f, T) # f[x] + Sum(f, Q)
    BY <1>3
  <1>11. Sum(f, R \ {x}) \in Int /\ f[x] \in Int /\ f[p] \in Int
    <2>1. IsFiniteSet(R \ {x}) /\ \A y \in R \ {x} : f[y] \in Int
      BY <1>4, <1>5, FS_RemoveElement
    <2>2. QED
      BY <1>4, <1>6, <2>1, SumTyped
  <1>12. PICK rest \in Int : rest = Sum(f, R \ {x})
    BY <1>11
  <1>13. /\ Sum(f, Q) = f[p] + rest
         /\ Sum(f, T) = f[p] + (f[x] + rest)
         /\ Sum(f, T) # f[x] + Sum(f, Q)
    <2> HIDE DEF Bad, p, R, Q
    <2>1. QED
      BY <1>6, <1>8, <1>9, <1>10, <1>12
  <1> HIDE DEF Bad, p, R, Q
  <1>14. QED
    BY <1>11, <1>13

\* Only the values at the indices matter.
LEMMA SumSame ==
  ASSUME NEW S, IsFiniteSet(S), NEW f, NEW g, \A x \in S : f[x] = g[x]
  PROVE  Sum(f, S) = Sum(g, S)
  <1> DEFINE Bad == {T \in SUBSET S : Sum(f, T) # Sum(g, T)}
  <1>1. SUFFICES ASSUME Bad # {} PROVE FALSE
    OBVIOUS
  <1>2. PICK T \in Bad : \A U \in Bad : U \subseteq T => U = T
    <2>1. Bad \subseteq SUBSET S
      OBVIOUS
    <2> HIDE DEF Bad
    <2>2. QED
      BY <1>1, <2>1, SmallestSet
  <1>3. T \in SUBSET S /\ Sum(f, T) # Sum(g, T) /\ IsFiniteSet(T)
    BY FS_Subset
  <1>4. /\ Sum(f, T) = IF T = {} THEN 0 ELSE f[Pick(T)] + Sum(f, T \ {Pick(T)})
        /\ Sum(g, T) = IF T = {} THEN 0 ELSE g[Pick(T)] + Sum(g, T \ {Pick(T)})
    BY <1>3, SumUnfolds
  <1>5. T # {} /\ Pick(T) \in T
    BY <1>3, <1>4 DEF Pick
  <1>6. Sum(f, T \ {Pick(T)}) = Sum(g, T \ {Pick(T)})
    BY <1>2, <1>3, <1>5
  <1>7. QED
    BY <1>3, <1>4, <1>5, <1>6

\* One value changes: so does the sum.
LEMMA SumChanges ==
  ASSUME NEW S, IsFiniteSet(S), NEW f, NEW g, \A x \in S : f[x] \in Int /\ g[x] \in Int,
         NEW a \in S, \A x \in S \ {a} : f[x] = g[x]
  PROVE  Sum(g, S) = Sum(f, S) - f[a] + g[a]
  <1>1. Sum(f, S) = f[a] + Sum(f, S \ {a}) /\ Sum(g, S) = g[a] + Sum(g, S \ {a})
    BY SumWithout
  <1>2. IsFiniteSet(S \ {a})
    BY FS_RemoveElement
  <1>3. Sum(f, S \ {a}) = Sum(g, S \ {a})
    BY <1>2, SumSame
  <1>4. Sum(f, S \ {a}) \in Int
    BY <1>2, SumTyped
  <1>5. QED
    BY <1>1, <1>3, <1>4

-----------------------------------------------------------------------------
(***************************************************************************)
(* The books as sums.                                                      *)
(***************************************************************************)
Holding == [r \in Runs |-> Held(r)]
ThisMonth == {r \in Runs : \/ resv[r].status = "reserved" /\ resv[r].created = month
                           \/ resv[r].status = "settled"  /\ resv[r].closed = month}

LEMMA TotalsAreSums == Committed = Sum(Holding, Runs) /\ MonthTotal = Sum(Holding, ThisMonth)
  BY DEF Committed, MonthTotal, Sum, Holding, ThisMonth

LEMMA HoldingTyped ==
  /\ TypeOK => \A r \in Runs : Holding[r] \in Nat /\ Holding[r] = Held(r)
  /\ TypeOK' => \A r \in Runs : Holding'[r] \in Nat /\ Holding'[r] = Held(r)'
  BY AmountsAssumption DEF TypeOK, Reservation, Holding, Held

\* What has been committed changes with the one reservation that is written.
LEMMA CommittedChanges ==
  ASSUME TypeOK, TypeOK', NEW r \in Runs, \A q \in Runs \ {r} : resv'[q] = resv[q]
  PROVE  /\ Committed' = Committed - Held(r) + Holding'[r]
         /\ Committed \in Int
  <1>1. \A q \in Runs : Holding[q] \in Int /\ Holding'[q] \in Int
    BY HoldingTyped
  <1>2. \A q \in Runs \ {r} : Holding[q] = Holding'[q]
    BY DEF Holding, Held
  <1>3. Sum(Holding', Runs) = Sum(Holding, Runs) - Holding[r] + Holding'[r]
    BY <1>1, <1>2, RunsAssumption, SumChanges
  <1>4. Sum(Holding, Runs) \in Int
    BY <1>1, RunsAssumption, SumTyped
  <1>5. /\ Committed = Sum(Holding, Runs) /\ Committed' = Sum(Holding', Runs)
        /\ Holding[r] = Held(r)
    BY HoldingTyped DEF Committed, Sum, Holding
  <1>6. QED
    BY <1>3, <1>4, <1>5

\* Steps that leave the reservations alone leave the commitments alone.
LEMMA CommittedStays ==
  ASSUME TypeOK, resv' = resv
  PROVE  Committed' = Committed /\ Committed \in Int
  <1>1. Committed' = Committed
    BY DEF Committed, Held
  <1>2. \A q \in Runs : Holding[q] \in Int
    BY HoldingTyped
  <1>3. QED
    BY <1>1, <1>2, RunsAssumption, SumTyped, TotalsAreSums

\* What the steps that write reservations do to the books.
LEMMA ReserveBooks ==
  ASSUME IInv, NEW h \in Handlers, NEW r \in Runs, Reserve(h, r)
  PROVE  /\ Held(r) = 0 /\ Holding'[r] = Estimate
         /\ resv'[r].created = month /\ resv'[r].closed = resv[r].closed
         /\ resv'[r].status = "reserved" /\ resv[r].status = "none"
         /\ \A q \in Runs \ {r} : resv'[q] = resv[q]
  <1>1. /\ resv' = [resv EXCEPT ![r].status = "reserved", ![r].created = month]
        /\ resv \in [Runs -> Reservation] /\ resv[r].status = "none"
    BY DEF Reserve, IInv, TypeOK
  <1>2. /\ resv'[r].status = "reserved" /\ resv'[r].created = month
        /\ resv'[r].closed = resv[r].closed
        /\ \A q \in Runs \ {r} : resv'[q] = resv[q]
    BY <1>1 DEF Reservation
  <1>3. Held(r) = 0
    BY <1>1 DEF Held
  <1>4. Holding'[r] = Estimate
    BY <1>2 DEF Holding, Held
  <1>5. QED
    BY <1>1, <1>2, <1>3, <1>4

LEMMA CloseBooks ==
  ASSUME IInv, NEW h \in Handlers, Release(h) \/ Settle(h), NEW r, r = task[h].run
  PROVE  /\ r \in Runs /\ resv[r].status = "reserved"
         /\ Held(r) = Estimate
         /\ Release(h) => Holding'[r] = 0
         /\ Settle(h) => /\ Holding'[r] = Billable(task[h].amount)
                         /\ Billable(task[h].amount) \in Nat
         /\ resv'[r].created = resv[r].created /\ resv'[r].closed = month
         /\ resv'[r].status \in {"released", "settled"}
         /\ \A q \in Runs \ {r} : resv'[q] = resv[q]
  <1>0. /\ resv \in [Runs -> Reservation] /\ r \in Runs /\ task[h].amount \in Nat
        /\ resv[r].status = "reserved"
    BY DEF IInv, TypeOK, Task, Owned, Release, Settle, At, Closers
  <1>1. Billable(task[h].amount) \in Nat
    BY <1>0, BillBounded, AmountsAssumption
  <1>2. PICK status \in {"released", "settled"}, cents \in Nat :
          /\ resv' = [resv EXCEPT ![r] = ClosedAs(r, status, cents)]
          /\ Release(h) => status = "released" /\ cents = 0
          /\ Settle(h) => status = "settled" /\ cents = Billable(task[h].amount)
    <2>1. ASSUME Release(h) PROVE resv' = [resv EXCEPT ![r] = ClosedAs(r, "released", 0)]
      BY <2>1 DEF Release
    <2>2. ASSUME Settle(h)
          PROVE  resv' = [resv EXCEPT ![r] = ClosedAs(r, "settled", Billable(task[h].amount))]
      BY <2>2 DEF Settle
    <2>3. ~(Release(h) /\ Settle(h))
      BY DEF Release, Settle, At
    <2>4. QED
      BY <1>1, <2>1, <2>2, <2>3
  <1> DEFINE c == ClosedAs(r, status, cents)
  <1>3. /\ c.status = status /\ c.settled = cents /\ c.closed = month
        /\ c.created = resv[r].created
    BY <1>0 DEF ClosedAs, Reservation
  <1> HIDE DEF c
  <1>4. resv'[r] = c /\ \A q \in Runs \ {r} : resv'[q] = resv[q]
    BY <1>0, <1>2 DEF c
  <1>5. Held(r) = Estimate
    BY <1>0 DEF Held
  <1>6. Holding'[r] = IF status = "settled" THEN cents ELSE 0
    BY <1>0, <1>3, <1>4 DEF Holding, Held
  <1>7. QED
    BY <1>0, <1>1, <1>2, <1>3, <1>4, <1>5, <1>6

-----------------------------------------------------------------------------
\* A commit on the balance that was read keeps the sum of wallet and commitments.
LEMMA CommitConserves ==
  ASSUME IInv, [Next]_vars, NEW h \in Handlers,
         ~Idles(h), task'[h] = Idle, task[h].saw = wallet.balance
  PROVE  wallet'.balance + Committed' - granted' = wallet.balance + Committed - granted
  <1>0. /\ TypeOK /\ TypeOK' /\ wallet.balance \in Int /\ granted \in Nat
        /\ task[h].amount \in Nat /\ task \in [Handlers -> Task] /\ Estimate \in Nat
    BY NextIInv, AmountsAssumption DEF IInv, TypeOK, Task
  <1>1. task[h].pc # "idle" /\ Idle.pc = "idle"
    BY IdleTyped DEF Idles, At
  <1>2. \A b : WriteBalance(h, b) => wallet'.balance = b
    BY DEF WriteBalance
  <1>3. Grant(h) \/ ReadWallet(h) \/ (\E r \in Runs : Reserve(h, r)) \/ Release(h) \/ Settle(h)
          \/ Abort(h)
    <2>1. task' # task
      BY <1>1
    <2>2. PICK k \in Handlers : Handling(k)
      BY <2>1, CrewsAssumption, <1>0 DEF Next, NextMonth, vars, TypeOK
    <2>3. k = h
      <3>1. PICK t : task' = [task EXCEPT ![k] = t]
        BY <2>1, <2>2
        DEF Handling, SetLimit, ReadForGrant, Grant, CheckLimit, ReadWallet, Reserve,
            BeginRelease, BeginSettle, TakeReservation, Release, Settle, Abort, Goto, Finish
      <3>2. QED
        BY <1>0, <1>1, <3>1
    <2>4. QED
      BY <1>1, <2>2, <2>3
      DEF Handling, SetLimit, ReadForGrant, CheckLimit, BeginRelease, BeginSettle,
          TakeReservation, Idles, At
  <1>4. CASE Grant(h)
    <2>1. wallet'.balance = wallet.balance + task[h].amount
      BY <1>2, <1>4 DEF Grant
    <2>2. granted' = granted + task[h].amount /\ resv' = resv
      BY <1>4 DEF Grant
    <2>3. QED
      BY <1>0, <2>1, <2>2, CommittedStays
  <1>5. CASE ReadWallet(h) \/ Abort(h)
    BY <1>0, <1>5, CommittedStays DEF ReadWallet, Abort
  <1>6. ASSUME NEW r \in Runs, Reserve(h, r)
        PROVE  wallet'.balance + Committed' - granted' = wallet.balance + Committed - granted
    <2>1. wallet'.balance = wallet.balance - Estimate /\ granted' = granted
      BY <1>2, <1>6 DEF Reserve
    <2>2. Committed' = Committed - 0 + Estimate /\ Committed \in Int
      BY <1>0, <1>6, ReserveBooks, CommittedChanges
    <2>3. QED
      BY <1>0, <2>1, <2>2
  <1>7. CASE Release(h)
    <2>1. wallet'.balance = wallet.balance + Estimate /\ granted' = granted
      BY <1>2, <1>7 DEF Release
    <2>2. Committed' = Committed - Estimate + 0 /\ Committed \in Int
      BY <1>0, <1>7, CloseBooks, CommittedChanges
    <2>3. QED
      BY <1>0, <2>1, <2>2
  <1>8. CASE Settle(h)
    <2> DEFINE bill == Billable(task[h].amount)
    <2>1. wallet'.balance = wallet.balance + (Estimate - bill) /\ granted' = granted
      BY <1>2, <1>8 DEF Settle
    <2>2. Committed' = Committed - Estimate + bill /\ Committed \in Int /\ bill \in Nat
      BY <1>0, <1>8, CloseBooks, CommittedChanges
    <2> HIDE DEF bill
    <2>3. QED
      BY <1>0, <2>1, <2>2
  <1>9. QED
    BY <1>3, <1>4, <1>5, <1>6, <1>7, <1>8

\* What the wallet has and what is reserved or billed is what was granted, to the cent: a
\* commit of grant_manual_credit, reserve, release or settle changes the sum only if the
\* balance was changed after the handler read it.
THEOREM CommitsConserveMoney == Spec => MoneyIsConserved
  <1>1. IInv /\ [Next]_vars
          => [\A h \in Handlers :
                ~Idles(h) /\ task'[h] = Idle /\ task[h].saw = wallet.balance
                  => (wallet.balance + Committed - granted)'
                       = wallet.balance + Committed - granted]_vars
    BY CommitConserves
  <1>2. QED
    BY <1>1, Invariant, PTL DEF Spec, MoneyIsConserved

-----------------------------------------------------------------------------
(***************************************************************************)
(* The monthly limit.  Nothing is dated after the present month, so a new  *)
(* month begins with nothing spent; and while one request is served at a   *)
(* time, what _ensure_spend_limit_allows found is true until the commit.   *)
(***************************************************************************)
Dated == \A r \in Runs : resv[r].created <= month /\ resv[r].closed <= month

Checked ==
  Serial => \A h \in crew :
    task[h].pc \in {"fund", "reserve"} /\ limit.monthly > 0
      => MonthTotal + Estimate <= limit.monthly

LimitInv == IInv /\ Dated /\ Checked

LEMMA MonthTotalTyped == TypeOK => MonthTotal \in Nat
  <1> SUFFICES ASSUME TypeOK PROVE MonthTotal \in Nat
    OBVIOUS
  <1>1. ThisMonth \subseteq Runs /\ IsFiniteSet(ThisMonth)
    BY RunsAssumption, FS_Subset DEF ThisMonth
  <1>2. \A r \in ThisMonth : Holding[r] \in Nat
    BY <1>1, HoldingTyped
  <1>3. QED
    BY <1>1, <1>2, SumNotNegative, TotalsAreSums

LEMMA MonthTotalStays ==
  ASSUME resv' = resv, month' = month
  PROVE  MonthTotal' = MonthTotal
  BY DEF MonthTotal, Held

\* A reservation adds the estimate to the month's total.
LEMMA ReserveAdds ==
  ASSUME IInv, IInv', NEW h \in Handlers, NEW r \in Runs, Reserve(h, r)
  PROVE  MonthTotal' = MonthTotal + Estimate
  <1>0. /\ Holding'[r] = Estimate /\ resv'[r].created = month /\ resv'[r].status = "reserved"
        /\ resv[r].status = "none" /\ \A q \in Runs \ {r} : resv'[q] = resv[q]
        /\ month' = month
    BY ReserveBooks DEF Reserve
  <1>1. r \notin ThisMonth /\ ThisMonth' = ThisMonth \cup {r} /\ ThisMonth \subseteq Runs
    BY <1>0 DEF ThisMonth
  <1>2. IsFiniteSet(ThisMonth) /\ IsFiniteSet(ThisMonth')
    <2>1. ThisMonth \subseteq Runs /\ ThisMonth' \subseteq Runs
      BY <1>1
    <2>2. QED
      BY <2>1, RunsAssumption, FS_Subset
  <1>3. \A q \in Runs : Holding[q] \in Int /\ Holding'[q] \in Int
    BY HoldingTyped DEF IInv
  <1>4. Sum(Holding', ThisMonth') = Holding'[r] + Sum(Holding', ThisMonth' \ {r})
    BY <1>1, <1>2, <1>3, SumWithout
  <1>5. ThisMonth' \ {r} = ThisMonth
    BY <1>1
  <1>6. Sum(Holding', ThisMonth) = Sum(Holding, ThisMonth)
    <2>1. \A q \in ThisMonth : Holding'[q] = Holding[q]
      BY <1>0, <1>1 DEF Holding, Held
    <2>2. QED
      BY <1>2, <2>1, SumSame
  <1>7. MonthTotal = Sum(Holding, ThisMonth) /\ MonthTotal' = Sum(Holding', ThisMonth')
    BY DEF MonthTotal, Sum, Holding, ThisMonth
  <1>8. MonthTotal \in Nat /\ Estimate \in Nat
    BY MonthTotalTyped, AmountsAssumption DEF IInv
  <1>9. Sum(Holding', ThisMonth') = Estimate + Sum(Holding, ThisMonth)
    BY <1>0, <1>4, <1>5, <1>6
  <1>10. QED
    BY <1>7, <1>8, <1>9

\* A new month has nothing reserved or settled in it.
LEMMA MonthBegins ==
  ASSUME LimitInv, NextMonth
  PROVE  MonthTotal' = 0
  <1>1. \A r \in Runs : resv[r].created # month' /\ resv[r].closed # month'
    BY DEF LimitInv, Dated, NextMonth, IInv, TypeOK, Reservation
  <1>2. ThisMonth' = {}
    BY <1>1 DEF ThisMonth, NextMonth
  <1>3. Sum(Holding', {}) = 0
    BY FS_EmptySet, SumUnfolds
  <1>4. MonthTotal' = Sum(Holding', ThisMonth')
    BY DEF MonthTotal, Sum, Holding, ThisMonth
  <1>5. QED
    BY <1>2, <1>3, <1>4

LEMMA DatedStep ==
  ASSUME IInv, Dated, [Next]_vars
  PROVE  Dated'
  <1>0. /\ resv \in [Runs -> Reservation] /\ month \in Int
        /\ \A r \in Runs : resv[r].created \in Int /\ resv[r].closed \in Int
        /\ crew \subseteq Handlers
    BY CrewsAssumption DEF IInv, TypeOK, Reservation
  <1>1. CASE resv' = resv /\ month' >= month /\ month' \in Int
    BY <1>0, <1>1 DEF Dated
  <1>2. ASSUME NEW h \in Handlers, NEW r \in Runs, Reserve(h, r) PROVE Dated'
    <2>1. /\ resv'[r].created = month /\ resv'[r].closed = resv[r].closed
          /\ \A q \in Runs \ {r} : resv'[q] = resv[q]
      BY <1>2, ReserveBooks
    <2>2. month' = month
      BY <1>2 DEF Reserve
    <2>3. QED
      BY <1>0, <2>1, <2>2 DEF Dated
  <1>3. ASSUME NEW h \in Handlers, Release(h) \/ Settle(h) PROVE Dated'
    <2>1. PICK r : r = task[h].run
      OBVIOUS
    <2>2. /\ r \in Runs /\ resv'[r].created = resv[r].created /\ resv'[r].closed = month
          /\ \A q \in Runs \ {r} : resv'[q] = resv[q]
      BY <1>3, <2>1, CloseBooks
    <2>3. month' = month
      BY <1>3 DEF Release, Settle
    <2>4. QED
      BY <1>0, <2>2, <2>3 DEF Dated
  <1>4. QED
    BY <1>0, <1>1, <1>2, <1>3
    DEF Next, NextMonth, vars, Handling, SetLimit, ReadForGrant, Grant, CheckLimit, ReadWallet,
        BeginRelease, BeginSettle, TakeReservation, Abort

LEMMA CheckedStep ==
  ASSUME LimitInv, IInv', [Next]_vars
  PROVE  Checked'
  <1>0. /\ crew' = crew /\ crew \subseteq Handlers /\ task \in [Handlers -> Task]
        /\ MonthTotal \in Nat /\ Estimate \in Nat /\ limit.monthly \in Nat
    BY CrewsAssumption, MonthTotalTyped, AmountsAssumption
    DEF LimitInv, IInv, TypeOK, Next, vars
  <1> SUFFICES ASSUME Serial, NEW h \in crew, task'[h].pc \in {"fund", "reserve"},
                      limit'.monthly > 0
               PROVE  MonthTotal' + Estimate <= limit'.monthly
    BY <1>0 DEF Checked, Serial
  <1>1. Idle.pc = "idle"
    BY IdleTyped
  <1>2. CASE NextMonth
    <2>1. MonthTotal' = 0 /\ limit' = limit /\ task' = task
      BY <1>2, MonthBegins DEF NextMonth
    <2>2. MonthTotal + Estimate <= limit.monthly
      BY <2>1 DEF LimitInv, Checked
    <2>3. QED
      BY <1>0, <2>1, <2>2
  <1>3. CASE UNCHANGED vars
    <2>1. MonthTotal' = MonthTotal /\ limit' = limit /\ task' = task
      BY <1>3, MonthTotalStays DEF vars
    <2>2. QED
      BY <2>1 DEF LimitInv, Checked
  <1>4. CASE CheckLimit(h)
    <2>1. limit' = limit /\ MonthTotal' = MonthTotal /\ LimitAllows
      BY <1>4, MonthTotalStays DEF CheckLimit
    <2>2. QED
      BY <2>1 DEF LimitAllows
  <1>5. CASE ReadWallet(h)
    <2>1. limit' = limit /\ MonthTotal' = MonthTotal /\ task[h].pc = "fund"
      BY <1>5, MonthTotalStays DEF ReadWallet, At
    <2>2. QED
      BY <2>1 DEF LimitInv, Checked
  <1>6. ASSUME Handling(h) PROVE CheckLimit(h) \/ ReadWallet(h)
    <2>1. ASSUME Finish(h) PROVE FALSE
      BY <1>0, <1>1, <2>1 DEF Finish
    <2>2. ASSUME task' = task, Idles(h) PROVE FALSE
      BY <2>2 DEF Idles, At
    <2>3. ASSUME NEW step \in {"grant", "release", "settle"}, NEW saw, NEW r, NEW amount,
                 Goto(h, step, saw, r, amount)
          PROVE  FALSE
      BY <1>0, <2>3 DEF Goto
    <2>4. QED
      BY <1>6, <2>1, <2>2, <2>3
      DEF Handling, SetLimit, ReadForGrant, Grant, Reserve, BeginRelease, BeginSettle,
          TakeReservation, Release, Settle, Abort
  <1>7. \A k \in crew : k = h
    BY DEF Serial
  <1>8. QED
    BY <1>2, <1>3, <1>4, <1>5, <1>6, <1>7 DEF Next

\* What the monthly limit rests on holds in every reachable state.
LEMMA LimitInvariant == Spec => []LimitInv
  <1>1. Init => LimitInv
    <2>1. Init => Dated /\ Checked
      BY IdleTyped, BoundsAssumption, CrewsAssumption DEF Init, Dated, Checked, NoReservation
    <2>2. QED
      BY <2>1, InitIInv DEF LimitInv
  <1>2. LimitInv /\ [Next]_vars => LimitInv'
    BY NextIInv, DatedStep, CheckedStep DEF LimitInv
  <1>3. QED
    BY <1>1, <1>2, PTL DEF Spec

\* While a workspace's requests are served one at a time, no reservation lifts the month's
\* total over the monthly limit (_ensure_spend_limit_allows), whatever is settled or
\* released meanwhile and even if the month ends between the check and the commit.
THEOREM MonthlyLimitKept == Spec => MonthlyLimitHolds
  <1>1. ASSUME LimitInv, LimitInv', [Next]_vars, NEW r \in Runs,
               Serial, resv[r].status = "none", resv'[r].status = "reserved", limit.monthly > 0
        PROVE  MonthTotal' <= limit.monthly
    <2>0. IInv /\ IInv' /\ crew \subseteq Handlers
      BY <1>1, CrewsAssumption DEF LimitInv, IInv, TypeOK
    <2>1. PICK h \in crew : Handling(h)
      BY <1>1 DEF Next, NextMonth, vars
    <2>2. ~Release(h) /\ ~Settle(h)
      <3>1. ASSUME Release(h) \/ Settle(h) PROVE FALSE
        <4>1. PICK q : q = task[h].run
          OBVIOUS
        <4>2. /\ resv'[q].status \in {"released", "settled"}
              /\ \A p \in Runs \ {q} : resv'[p] = resv[p]
          BY <2>0, <3>1, <4>1, CloseBooks
        <4>3. QED
          BY <1>1, <4>2
      <3>2. QED
        BY <3>1
    <2>3. PICK q \in Runs : Reserve(h, q)
      BY <1>1, <2>1, <2>2
      DEF Handling, SetLimit, ReadForGrant, Grant, CheckLimit, ReadWallet, BeginRelease,
          BeginSettle, TakeReservation, Abort
    <2>4. MonthTotal' = MonthTotal + Estimate
      BY <2>0, <2>1, <2>3, ReserveAdds
    <2>5. MonthTotal + Estimate <= limit.monthly
      BY <1>1, <2>1, <2>3 DEF Reserve, At, LimitInv, Checked
    <2>6. QED
      BY <2>4, <2>5
  <1>2. LimitInv /\ LimitInv' /\ [Next]_vars
          => [\A r \in Runs :
                Serial /\ resv[r].status = "none" /\ resv'[r].status = "reserved"
                  /\ limit.monthly > 0
                => MonthTotal' <= limit.monthly]_vars
    BY <1>1
  <1>3. QED
    BY <1>2, LimitInvariant, PTL DEF Spec, MonthlyLimitHolds

=============================================================================
