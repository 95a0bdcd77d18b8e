---------------------------- MODULE ServiceProofs ----------------------------
(***************************************************************************)
(* Proofs about four services that share no state.  AuditRetention:        *)
(* scheduled cleanups are an interval apart, for any number of processes   *)
(* and any periods.  AuthingClient: a provider that has changed neither    *)
(* its keys nor its tokens since a call began serves it, for any number of *)
(* threads, keys and tokens.  PlannerRun: a planner run is decided once,   *)
(* for any number of requests, runs, drafts and tasks.  LogWindow: one who *)
(* pages through a log gets each entry and each line once and in order,    *)
(* for any number of readers, page sizes and tails.  With the theorems of  *)
(* BudgetProofs these carry over to the five in one run (MCServices).      *)
(***************************************************************************)
EXTENDS MCServices, BudgetProofs

\* The row is there before it is claimed; whoever holds the claim in its cleanup found the
\* cleanup due, and nothing was completed since.
ClaimFacts ==
  /\ ~state.exists => state = NoState
  /\ \A s \in Sweepers :
       /\ sweeper[s].at <= hour
       /\ sweeper[s].pc \in {"claim", "clean", "failed"} => state.exists
       /\ sweeper[s].pc = "clean" /\ state.claim = s
            => state.completed = Never \/ state.completed + Interval <= sweeper[s].at

CleanupFacts ==
  /\ state.completed <= hour
  /\ OneCleanupPerInterval

AuditInv == AuditTypeOK /\ ClaimFacts /\ CleanupFacts

LEMMA HoursAreNumbers == Hours \subseteq Int /\ Never \in Int /\ \A h \in Hours : Never < h
BY MaxTimeAssumption DEF Hours, Never

\* A sweeper's record after a step: all but one stay, and who polls reads the clock.
LEMMA SweeperStep ==
  ASSUME AuditTypeOK, NEW s \in Sweepers, NEW w \in Sweeper, sweeper' = [sweeper EXCEPT ![s] = w]
  PROVE  /\ sweeper' \in [Sweepers -> Sweeper]
         /\ sweeper'[s] = w
         /\ \A q \in Sweepers : q # s => sweeper'[q] = sweeper[q]
BY DEF AuditTypeOK

LEMMA ContinueEffect ==
  ASSUME AuditTypeOK, NEW s \in Sweepers,
         NEW pc \in {"idle", "insert", "claim", "clean", "failed"}, ContinueSweep(s, pc)
  PROVE  /\ sweeper' \in [Sweepers -> Sweeper]
         /\ sweeper'[s].pc = pc /\ sweeper'[s].at = sweeper[s].at
         /\ \A q \in Sweepers : q # s => sweeper'[q] = sweeper[q]
<1> PICK v \in Sweeper : v = sweeper[s]
  BY DEF AuditTypeOK
<1> DEFINE w == [v EXCEPT !.pc = pc]
<1>1. w \in Sweeper /\ w.pc = pc /\ w.at = v.at
  BY DEF Sweeper
<1>2. sweeper' = [sweeper EXCEPT ![s] = w]
  BY DEF ContinueSweep, AuditTypeOK
<1> HIDE DEF w
<1> QED
  BY <1>1, <1>2, SweeperStep

LEMMA StopEffect ==
  ASSUME AuditTypeOK, NEW s \in Sweepers, StopSweep(s)
  PROVE  /\ sweeper' \in [Sweepers -> Sweeper]
         /\ sweeper'[s].pc = "idle" /\ sweeper'[s].at = 0
         /\ \A q \in Sweepers : q # s => sweeper'[q] = sweeper[q]
<1> DEFINE w == [pc |-> "idle", at |-> 0]
<1>1. w \in Sweeper /\ w.pc = "idle" /\ w.at = 0
  BY MaxTimeAssumption DEF Sweeper, Hours
<1>2. sweeper' = [sweeper EXCEPT ![s] = w]
  BY DEF StopSweep
<1> HIDE DEF w
<1> QED
  BY <1>1, <1>2, SweeperStep

\* A step that adds neither an event nor a detail to those of an hour, reports of failures apart.
AddsNothing(h) ==
  /\ events'[h] \in {"core", "detailed"} => events[h] \in {"core", "detailed"}
  /\ events'[h] = "detailed" => events[h] = "detailed"

\* Steps that complete nothing: nothing is added to what the last cleanup removed.
LEMMA NothingCompleted ==
  ASSUME AuditInv, AuditTypeOK', ClaimFacts', hour <= hour', cleanups' = cleanups,
         state'.completed = state.completed,
         \A h \in Hours : AddsNothing(h) \/ h = hour
  PROVE  AuditInv'
<1>t. /\ hour \in Int /\ hour' \in Int /\ state.completed \in Int
      /\ DetailRetention \in Nat /\ CoreRetention \in Nat /\ Hours \subseteq Int
  BY HoursAreNumbers, PeriodsAssumption DEF AuditInv, AuditTypeOK, State
<1>1. state'.completed <= hour'
  BY <1>t DEF AuditInv, CleanupFacts
<1>2. state'.completed # Never =>
         /\ cleanups'[state'.completed] = 1
         /\ \A h \in Hours :
              events'[h] \in {"core", "detailed"} => h >= state'.completed - CoreRetention
         /\ \A h \in Hours : events'[h] = "detailed" => h >= state'.completed - DetailRetention
  BY <1>t DEF AuditInv, CleanupFacts, OneCleanupPerInterval, AddsNothing
<1> QED
  BY <1>1, <1>2 DEF AuditInv, CleanupFacts, OneCleanupPerInterval

\* Steps of a sweeper on a row that stays as it is.
LEMMA SameRow ==
  ASSUME AuditInv, NEW s \in Sweepers, UNCHANGED <<hour, state, cleanups>>,
         events' \in [Hours -> {"none", "failure", "core", "detailed"}],
         \A h \in Hours : AddsNothing(h),
         sweeper' \in [Sweepers -> Sweeper],
         \A q \in Sweepers : q # s => sweeper'[q] = sweeper[q],
         sweeper'[s].at <= hour, sweeper'[s].pc # "clean",
         sweeper'[s].pc \in {"claim", "failed"} => state.exists
  PROVE  AuditInv'
<1>1. AuditTypeOK'
  BY DEF AuditInv, AuditTypeOK
<1>2. ClaimFacts'
  BY DEF AuditInv, ClaimFacts
<1>3. hour <= hour'
  BY HoursAreNumbers DEF AuditInv, AuditTypeOK
<1> QED
  BY <1>1, <1>2, <1>3, NothingCompleted

\* What a cleanup leaves: no event and no detail that is past its retention, and nothing more of
\* any hour but its own.
LEMMA CleanedEvents ==
  ASSUME AuditTypeOK, NEW at \in Hours
  PROVE  /\ Cleaned(at) \in [Hours -> {"none", "failure", "core", "detailed"}]
         /\ \A h \in Hours :
              LET kept == Cleaned(at)[h]
              IN /\ kept \in {"core", "detailed"} => ~(h < at - CoreRetention)
                 /\ kept = "detailed" => ~(h < at - DetailRetention)
                 /\ h # at /\ kept \in {"core", "detailed"} => events[h] \in {"core", "detailed"}
                 /\ kept = "detailed" => events[h] = "detailed"
<1> SUFFICES ASSUME NEW h \in Hours
             PROVE  LET kept == Cleaned(at)[h]
                    IN /\ kept \in {"none", "failure", "core", "detailed"}
                       /\ kept \in {"core", "detailed"} => ~(h < at - CoreRetention)
                       /\ kept = "detailed" => ~(h < at - DetailRetention)
                       /\ h # at /\ kept \in {"core", "detailed"}
                            => events[h] \in {"core", "detailed"}
                       /\ kept = "detailed" => events[h] = "detailed"
  BY DEF Cleaned
<1>1. /\ at \in Int /\ h \in Int /\ CoreRetention \in Nat /\ DetailRetention \in Nat
      /\ DetailRetention <= CoreRetention /\ events[h] \in {"none", "failure", "core", "detailed"}
  BY HoursAreNumbers, PeriodsAssumption DEF AuditTypeOK
<1> DEFINE left == IF h < at - CoreRetention THEN "none"
                   ELSE IF h < at - DetailRetention /\ events[h] = "detailed" THEN "core"
                   ELSE events[h]
<1>2. Cleaned(at)[h] = IF h = at /\ left # "detailed" THEN "core" ELSE left
  BY DEF Cleaned
<1>3. CASE h = at
  BY <1>1, <1>2, <1>3
<1>4. CASE h # at
  BY <1>1, <1>2, <1>4
<1> QED
  BY <1>3, <1>4

\* The commit of the cleanup: at least an interval after the last.
LEMMA CompletingCleanup ==
  ASSUME AuditInv, NEW s \in Sweepers, sweeper[s].pc = "clean", state.claim = s,
         Completed(s), StopSweep(s), hour' = hour
  PROVE  AuditInv'
<1> PICK at \in Hours : at = sweeper[s].at
  BY DEF AuditInv, AuditTypeOK, Sweeper
<1> PICK v \in State : v = state
  BY DEF AuditInv, AuditTypeOK
<1>t. /\ at \in Int /\ hour \in Int /\ v.completed \in Int /\ Hours \subseteq Int
      /\ at <= hour /\ v.exists /\ v.completed <= hour
      /\ v.completed = Never \/ v.completed + Interval <= at
      /\ Never < at /\ Interval \in Nat \ {0} /\ DetailRetention \in Nat /\ CoreRetention \in Nat
  BY HoursAreNumbers, PeriodsAssumption DEF AuditInv, AuditTypeOK, State, ClaimFacts, CleanupFacts
<1>a. v.completed < at
  BY <1>t DEF Never
<1> DEFINE w == [v EXCEPT !.completed = at, !.claim = NoSweeper, !.claimed = Never]
<1>1. w \in State /\ w.completed = at /\ w.claim = NoSweeper /\ w.exists
  BY <1>t DEF State
<1>2. state' = w
  BY DEF Completed
<1> HIDE DEF w
<1>3. /\ events' \in [Hours -> {"none", "failure", "core", "detailed"}]
      /\ \A h \in Hours : events'[h] \in {"core", "detailed"} => ~(h < at - CoreRetention)
      /\ \A h \in Hours : events'[h] = "detailed" => ~(h < at - DetailRetention)
  BY <1>t, CleanedEvents DEF Completed, AuditInv
<1>4. cleanups[at] = 0
  <2>1. cleanups[at] \in Nat /\ cleanups[at] <= 1 /\ (cleanups[at] = 1 => at <= v.completed)
    BY DEF AuditInv, AuditTypeOK, CleanupFacts, OneCleanupPerInterval
  <2> QED
    BY <2>1, <1>a, <1>t
<1>5. /\ cleanups' \in [Hours -> Nat] /\ cleanups'[at] = 1
      /\ \A h \in Hours : h # at => cleanups'[h] = cleanups[h]
  BY <1>4 DEF Completed, AuditInv, AuditTypeOK
<1>6. /\ sweeper' \in [Sweepers -> Sweeper] /\ sweeper'[s].pc = "idle" /\ sweeper'[s].at = 0
      /\ \A q \in Sweepers : q # s => sweeper'[q] = sweeper[q]
  BY StopEffect DEF AuditInv
<1>7. AuditTypeOK'
  BY <1>1, <1>2, <1>3, <1>5, <1>6 DEF AuditInv, AuditTypeOK
<1>8. ClaimFacts'
  BY <1>1, <1>2, <1>6, <1>t, NoSweeperAssumption, MaxTimeAssumption
     DEF AuditInv, ClaimFacts, AuditTypeOK, Hours
<1>9. ASSUME NEW h \in Hours
      PROVE  /\ cleanups'[h] <= 1
             /\ cleanups'[h] = 1 => h <= at /\ (h # at => h + Interval <= at)
  <2>1. CASE h = at
    BY <2>1, <1>5, <1>t
  <2>2. CASE h # at
    <3>1. cleanups'[h] <= 1 /\ (cleanups'[h] = 1 => h <= v.completed)
      BY <2>2, <1>5 DEF AuditInv, CleanupFacts, OneCleanupPerInterval
    <3>2. h \in Int /\ Never < h
      BY HoursAreNumbers
    <3> QED
      BY <3>1, <3>2, <1>t
  <2> QED
    BY <2>1, <2>2
<1>10. ASSUME NEW g \in Hours, NEW h \in Hours, g < h, cleanups'[g] = 1, cleanups'[h] = 1
       PROVE  g + Interval <= h
  <2>1. g # at /\ g \in Int /\ h \in Int
    BY <1>9, <1>10, <1>t
  <2>2. CASE h = at
    BY <2>1, <2>2, <1>9, <1>10
  <2>3. CASE h # at
    BY <2>1, <2>3, <1>5, <1>10 DEF AuditInv, CleanupFacts, OneCleanupPerInterval
  <2> QED
    BY <2>2, <2>3
<1>11. /\ \A h \in Hours : events'[h] \in {"core", "detailed"} => h >= at - CoreRetention
       /\ \A h \in Hours : events'[h] = "detailed" => h >= at - DetailRetention
  BY <1>3, <1>t
<1>12. CleanupFacts'
  BY <1>1, <1>2, <1>5, <1>9, <1>10, <1>11, <1>t DEF CleanupFacts, OneCleanupPerInterval
<1> QED
  BY <1>7, <1>8, <1>12 DEF AuditInv

\* Every step of one process.
LEMMA SweeperKeeps ==
  ASSUME AuditInv, NEW s \in Sweepers,
         \/ Poll(s) \/ EnsureState(s) \/ ClaimCleanup(s) \/ CompleteCleanup(s)
         \/ CleanupFails(s) \/ RecordFailure(s) \/ SweeperDies(s)
  PROVE  AuditInv'
<1>t. /\ AuditTypeOK /\ hour \in Hours /\ hour \in Int /\ Hours \subseteq Int
      /\ state \in State /\ events \in [Hours -> {"none", "failure", "core", "detailed"}]
      /\ sweeper[s].at \in Hours /\ sweeper[s].at <= hour /\ 0 <= hour
      /\ sweeper[s].pc \in {"claim", "clean", "failed"} => state.exists
  BY HoursAreNumbers DEF AuditInv, AuditTypeOK, ClaimFacts, Sweeper, Hours
<1>s. ASSUME StopSweep(s), UNCHANGED <<hour, state, cleanups>>,
             events' \in [Hours -> {"none", "failure", "core", "detailed"}],
             \A h \in Hours : AddsNothing(h)
      PROVE  AuditInv'
  BY <1>s, <1>t, StopEffect, SameRow
<1>1. CASE Poll(s)
  <2> DEFINE w == [pc |-> IF state.exists THEN "claim" ELSE "insert", at |-> hour]
  <2>1. /\ w \in Sweeper /\ w.at = hour /\ w.pc \in {"claim", "insert"}
        /\ w.pc = "claim" => state.exists
    BY <1>t DEF Sweeper
  <2>2. sweeper' = [sweeper EXCEPT ![s] = w] /\ UNCHANGED <<hour, state, events, cleanups>>
    BY <1>1 DEF Poll
  <2> HIDE DEF w
  <2>3. /\ sweeper' \in [Sweepers -> Sweeper] /\ sweeper'[s] = w
        /\ \A q \in Sweepers : q # s => sweeper'[q] = sweeper[q]
    BY <2>1, <2>2, <1>t, SweeperStep
  <2> QED
    BY <2>1, <2>2, <2>3, <1>t, SameRow DEF AddsNothing
<1>2. CASE EnsureState(s)
  <2>0. /\ sweeper' \in [Sweepers -> Sweeper] /\ sweeper'[s].pc = "claim"
        /\ sweeper'[s].at = sweeper[s].at
        /\ \A q \in Sweepers : q # s => sweeper'[q] = sweeper[q]
    BY <1>2, <1>t, ContinueEffect DEF EnsureState
  <2>1. CASE state.exists
    BY <1>2, <2>0, <2>1, <1>t, SameRow DEF EnsureState, AddsNothing
  <2>2. CASE ~state.exists
    <3>1. /\ state' = [NoState EXCEPT !.exists = TRUE] /\ state = NoState
          /\ UNCHANGED <<hour, events, cleanups>>
      BY <1>2, <2>2 DEF EnsureState, AuditInv, ClaimFacts
    <3>2. /\ state' \in State /\ state'.exists /\ state'.completed = Never
          /\ state.completed = Never /\ state'.claim = NoSweeper
      BY <3>1 DEF NoState, State
    <3>3. AuditTypeOK'
      BY <2>0, <3>1, <3>2, <1>t DEF AuditTypeOK
    <3>4. ClaimFacts'
      BY <2>0, <3>1, <3>2, <1>t, NoSweeperAssumption DEF AuditInv, ClaimFacts
    <3> QED
      BY <3>1, <3>2, <3>3, <3>4, <1>t, NothingCompleted DEF AddsNothing
  <2> QED
    BY <2>1, <2>2
<1>3. CASE ClaimCleanup(s)
  <2> PICK at \in Hours : at = sweeper[s].at
    BY <1>t
  <2>1. CASE Due(at) /\ Claimable(at)
    <3> PICK v \in State : v = state
      BY <1>t
    <3> DEFINE w == [v EXCEPT !.claim = s, !.claimed = at]
    <3>1. w \in State /\ w.claim = s /\ w.exists = v.exists /\ w.completed = v.completed
      BY DEF State
    <3>2. /\ state' = w /\ ContinueSweep(s, "clean") /\ UNCHANGED <<hour, events, cleanups>>
          /\ v.exists
      BY <1>3, <2>1, <1>t DEF ClaimCleanup
    <3> HIDE DEF w
    <3>3. /\ sweeper' \in [Sweepers -> Sweeper] /\ sweeper'[s].pc = "clean"
          /\ sweeper'[s].at = at
          /\ \A q \in Sweepers : q # s => sweeper'[q] = sweeper[q]
      BY <3>2, <1>t, ContinueEffect
    <3>4. v.completed = Never \/ v.completed + Interval <= at
      <4>1. v.completed \in Hours \cup {Never}
        BY DEF State
      <4>2. v.completed \in Int /\ at \in Int
        BY <4>1, <1>t, HoursAreNumbers
      <4>3. v.completed = Never \/ v.completed <= at - Interval
        BY <2>1 DEF Due
      <4> QED
        BY <4>2, <4>3, PeriodsAssumption
    <3>5. AuditTypeOK'
      BY <3>1, <3>2, <3>3, <1>t DEF AuditTypeOK
    <3>6. ClaimFacts'
      BY <3>1, <3>2, <3>3, <3>4, <1>t DEF AuditInv, ClaimFacts
    <3> QED
      BY <3>1, <3>2, <3>5, <3>6, <1>t, NothingCompleted DEF AddsNothing
  <2>2. CASE ~(Due(at) /\ Claimable(at))
    BY <1>3, <2>2, <1>s, <1>t DEF ClaimCleanup, AddsNothing
  <2> QED
    BY <2>1, <2>2
<1>4. CASE CompleteCleanup(s)
  <2>1. CASE state.claim = s
    BY <1>4, <2>1, CompletingCleanup DEF CompleteCleanup
  <2>2. CASE state.claim # s
    BY <1>4, <2>2, <1>s, <1>t DEF CompleteCleanup, AddsNothing
  <2> QED
    BY <2>1, <2>2
<1>5. CASE CleanupFails(s)
  <2>0. /\ sweeper' \in [Sweepers -> Sweeper] /\ sweeper'[s].pc = "failed"
        /\ sweeper'[s].at = sweeper[s].at
        /\ \A q \in Sweepers : q # s => sweeper'[q] = sweeper[q]
    BY <1>5, <1>t, ContinueEffect DEF CleanupFails
  <2> QED
    BY <1>5, <2>0, <1>t, SameRow DEF CleanupFails, AddsNothing
<1>6. CASE RecordFailure(s)
  <2>1. /\ events' \in [Hours -> {"none", "failure", "core", "detailed"}]
        /\ \A h \in Hours : AddsNothing(h)
    BY <1>6, <1>t DEF RecordFailure, AddsNothing
  <2> QED
    BY <1>6, <2>1, <1>s DEF RecordFailure
<1>7. CASE SweeperDies(s)
  BY <1>7, <1>s, <1>t DEF SweeperDies, AddsNothing
<1> QED
  BY <1>1, <1>2, <1>3, <1>4, <1>5, <1>6, <1>7

\* The inductive invariant.
THEOREM AuditInvariant == AuditSpec => []AuditInv
<1>1. AuditInit => AuditInv
  <2> SUFFICES ASSUME AuditInit PROVE AuditInv
    OBVIOUS
  <2>1. 0 \in Hours /\ NoState \in State /\ [pc |-> "idle", at |-> 0] \in Sweeper
    BY MaxTimeAssumption DEF Hours, NoState, State, Sweeper
  <2>2. AuditTypeOK
    BY <2>1 DEF AuditInit, AuditTypeOK
  <2>3. ClaimFacts
    BY DEF AuditInit, ClaimFacts, NoState
  <2>4. CleanupFacts
    BY DEF AuditInit, CleanupFacts, OneCleanupPerInterval, NoState, Never
  <2> QED
    BY <2>2, <2>3, <2>4 DEF AuditInv
<1>2. AuditInv /\ [AuditNext]_auditVars => AuditInv'
  <2> SUFFICES ASSUME AuditInv, [AuditNext]_auditVars PROVE AuditInv'
    OBVIOUS
  <2>t. /\ AuditTypeOK /\ hour \in Int /\ Hours \subseteq Int
        /\ \A s \in Sweepers : sweeper[s].at \in Int
    BY HoursAreNumbers DEF AuditInv, AuditTypeOK, Sweeper
  <2>1. CASE ClockTicks
    <3>1. hour' = hour + 1 /\ hour' \in Hours /\ UNCHANGED <<state, events, cleanups, sweeper>>
      BY <2>1, MaxTimeAssumption DEF ClockTicks, AuditInv, AuditTypeOK, Hours
    <3>2. AuditTypeOK'
      BY <3>1, <2>t DEF AuditTypeOK
    <3>3. ClaimFacts'
      BY <3>1, <2>t DEF AuditInv, ClaimFacts
    <3> QED
      BY <3>1, <3>2, <3>3, <2>t, NothingCompleted DEF AddsNothing
  <2>2. CASE RecordEvent \/ OperatorCleanup
    <3>1. /\ events' \in [Hours -> {"none", "failure", "core", "detailed"}]
          /\ \A h \in Hours : AddsNothing(h) \/ h = hour
          /\ UNCHANGED <<hour, state, cleanups, sweeper>>
      <4>1. CASE RecordEvent
        BY <4>1, <2>t DEF RecordEvent, AuditTypeOK, AddsNothing
      <4>2. CASE OperatorCleanup
        BY <4>2, <2>t, CleanedEvents DEF OperatorCleanup, AddsNothing, AuditTypeOK
      <4> QED
        BY <2>2, <4>1, <4>2
    <3>2. AuditTypeOK' /\ ClaimFacts'
      BY <3>1 DEF AuditInv, AuditTypeOK, ClaimFacts
    <3> QED
      BY <3>1, <3>2, <2>t, NothingCompleted
  <2>3. CASE \E s \in Sweepers :
               \/ Poll(s) \/ EnsureState(s) \/ ClaimCleanup(s) \/ CompleteCleanup(s)
               \/ CleanupFails(s) \/ RecordFailure(s) \/ SweeperDies(s)
    BY <2>3, SweeperKeeps
  <2>4. CASE UNCHANGED auditVars
    BY <2>4 DEF auditVars, AuditInv, AuditTypeOK, ClaimFacts, CleanupFacts, OneCleanupPerInterval
  <2> QED
    BY <2>1, <2>2, <2>3, <2>4 DEF AuditNext
<1> QED
  BY <1>1, <1>2, PTL DEF AuditSpec

\* OneCleanupPerInterval: however many processes poll, scheduled cleanups are an interval
\* apart, the row remembers the last, and what that was to remove is gone.
THEOREM CleanupsAreAnIntervalApart == AuditSpec => []OneCleanupPerInterval
<1>1. AuditInv => OneCleanupPerInterval
  BY DEF AuditInv, CleanupFacts
<1> QED
  BY <1>1, AuditInvariant, PTL

-----------------------------------------------------------------------------
(***************************************************************************)
(* The client of the identity provider.  Which keys or token a call has at *)
(* hand depends on what other threads stored before; what saves it is that *)
(* the last attempt is made with what the provider has answered since the  *)
(* call began.  ClientInv says so at each step of a call.                  *)
(***************************************************************************)

\* While the provider has kept its key, a validation that fetched has it; the last decode is
\* made with fetched keys.
ValidationFacts(v, keys) ==
  v.pc \in Validating =>
    /\ v.kid \in KeyIds
    /\ v.steady => keys[v.kid] = v.key /\ v.key # 0
    /\ v.steady /\ (v.pc = "store" \/ (v.pc = "decode" /\ v.try # "first")) => v.keys[v.kid] = v.key

\* While the provider has ended no token, the second question is asked with one that it has
\* issued since.
QueryFacts(v, tokens) == v.pc = "ask" /\ v.steady /\ v.try # "first" => v.token \in tokens

CallFacts(v, keys, tokens) ==
  ValidationFacts(v, keys) /\ QueryFacts(v, tokens) /\ v.pc # "refused"

ClientInv == ClientTypeOK /\ \A t \in Threads : CallFacts(thread[t], published, valid)

\* A call's record after a step of its own.
LEMMA CallStep ==
  ASSUME ClientTypeOK, NEW t \in Threads, NEW w \in Thread, thread' = [thread EXCEPT ![t] = w]
  PROVE  /\ thread' \in [Threads -> Thread] /\ thread'[t] = w
         /\ \A q \in Threads : q # t => thread'[q] = thread[q]
BY DEF ClientTypeOK

\* The record of a call that has ended.
LEMMA QuietFacts == Quiet \in Thread /\ Quiet.pc = "idle"
BY MaxKeysAssumption, MaxTokensAssumption
   DEF Quiet, Thread, Ended, NoKeys, KeySet, Keys, Tokens

\* A step of one call that withdraws neither keys nor tokens.
LEMMA OneCall ==
  ASSUME ClientInv, NEW t \in Threads, NEW w \in Thread, thread' = [thread EXCEPT ![t] = w],
         UNCHANGED <<published, lastKey>>, valid \subseteq valid',
         issued' \in Tokens, valid' \subseteq Tokens, jwks' \in KeySet, current' \in BOOLEAN,
         management' \in Tokens, lock' \in Threads \cup {NoThread},
         CallFacts(w, published', valid')
  PROVE  ClientInv'
<1>1. /\ thread' \in [Threads -> Thread] /\ thread'[t] = w
      /\ \A q \in Threads : q # t => thread'[q] = thread[q]
  BY CallStep DEF ClientInv
<1>2. ClientTypeOK'
  BY <1>1 DEF ClientInv, ClientTypeOK
<1>3. ASSUME NEW q \in Threads, q # t PROVE CallFacts(thread'[q], published', valid')
  BY <1>1, <1>3 DEF ClientInv, CallFacts, ValidationFacts, QueryFacts
<1> QED
  BY <1>1, <1>2, <1>3 DEF ClientInv

\* The steps of a validation.
LEMMA ValidationKeeps ==
  ASSUME ClientInv, NEW t \in Threads,
         \/ \E k \in KeyIds : BeginValidation(t, k)
         \/ LoadKeys(t) \/ FetchKeys(t) \/ StoreKeys(t) \/ Decode(t)
  PROVE  ClientInv'
<1> PICK v \in Thread : v = thread[t]
  BY DEF ClientInv, ClientTypeOK
<1>t. /\ published \in KeySet /\ lastKey \in Keys /\ issued \in Tokens /\ valid \subseteq Tokens
      /\ jwks \in KeySet /\ current \in BOOLEAN /\ management \in Tokens
      /\ lock \in Threads \cup {NoThread} /\ CallFacts(v, published, valid)
  BY DEF ClientInv, ClientTypeOK
<1>s. ASSUME NEW w \in Thread, thread' = [thread EXCEPT ![t] = w], UNCHANGED <<upstream, caches>>,
             CallFacts(w, published, valid)
      PROVE  ClientInv'
  <2>1. CallFacts(w, published', valid')
    BY <1>s DEF upstream, CallFacts, ValidationFacts, QueryFacts
  <2> QED
    BY <1>s, <1>t, <2>1, OneCall DEF upstream, caches
<1>r. ASSUME Return(t), UNCHANGED <<upstream, caches>> PROVE ClientInv'
  BY <1>r, <1>s, QuietFacts DEF Return, CallFacts, ValidationFacts, QueryFacts, Validating
<1>1. ASSUME NEW k \in KeyIds, BeginValidation(t, k) PROVE ClientInv'
  <2> DEFINE w == [Quiet EXCEPT !.pc = "keys", !.kid = k, !.key = published[k]]
  <2>1. /\ w \in Thread /\ w.pc = "keys" /\ w.kid = k /\ w.key = published[k]
    BY <1>t, QuietFacts DEF Thread, Validating, KeySet
  <2>2. thread' = [thread EXCEPT ![t] = w] /\ published[k] # 0 /\ UNCHANGED <<upstream, caches>>
    BY <1>1 DEF BeginValidation
  <2> HIDE DEF w
  <2>3. CallFacts(w, published, valid)
    BY <2>1, <2>2 DEF CallFacts, ValidationFacts, QueryFacts
  <2> QED
    BY <2>1, <2>2, <2>3, <1>s
<1>2. CASE LoadKeys(t)
  <2> DEFINE cached == v.try = "first" /\ jwks # NoKeys /\ current
             pc   == IF ~cached THEN "fetch" ELSE IF jwks[v.kid] # 0 THEN "decode" ELSE "keys"
             try  == IF cached /\ jwks[v.kid] = 0 THEN "missing" ELSE v.try
             keys == IF cached THEN jwks ELSE v.keys
             w    == [v EXCEPT !.pc = pc, !.try = try, !.keys = keys]
  <2>1. /\ pc \in {"fetch", "decode", "keys"} /\ try \in {"first", "missing", "again"}
        /\ keys \in KeySet /\ (pc = "decode" => try = "first")
    BY <1>t DEF Thread
  <2>2. thread' = [thread EXCEPT ![t] = w] /\ v.pc = "keys" /\ UNCHANGED <<upstream, caches>>
    BY <1>2 DEF LoadKeys, On, ClientInv, ClientTypeOK
  <2> HIDE DEF cached, pc, try, keys
  <2>3. /\ w \in Thread /\ w.pc = pc /\ w.try = try /\ w.kid = v.kid /\ w.key = v.key
        /\ w.steady = v.steady
    BY <2>1 DEF Thread, Validating
  <2> HIDE DEF w
  <2>4. CallFacts(w, published, valid)
    BY <2>1, <2>2, <2>3, <1>t DEF CallFacts, ValidationFacts, QueryFacts, Validating
  <2> QED
    BY <2>2, <2>3, <2>4, <1>s
<1>3. CASE FetchKeys(t)
  <2>1. CASE Unavailable(t)
    BY <1>3, <2>1, <1>r DEF FetchKeys, Unavailable
  <2>2. CASE ~Unavailable(t)
    <3> DEFINE w == [v EXCEPT !.pc = "store", !.keys = published]
    <3>1. /\ w \in Thread /\ w.pc = "store" /\ w.keys = published /\ w.kid = v.kid
          /\ w.key = v.key /\ w.steady = v.steady
      BY <1>t DEF Thread, Validating
    <3>2. thread' = [thread EXCEPT ![t] = w] /\ v.pc = "fetch" /\ UNCHANGED <<upstream, caches>>
      BY <1>3, <2>2 DEF FetchKeys, On, ClientInv, ClientTypeOK
    <3> HIDE DEF w
    <3>3. CallFacts(w, published, valid)
      BY <3>1, <3>2, <1>t DEF CallFacts, ValidationFacts, QueryFacts, Validating
    <3> QED
      BY <3>1, <3>2, <3>3, <1>s
  <2> QED
    BY <2>1, <2>2
<1>4. CASE StoreKeys(t)
  <2>0. /\ v.pc = "store" /\ v.kid \in KeyIds /\ v.keys \in KeySet
        /\ v.steady => v.keys[v.kid] = v.key /\ v.key # 0
    BY <1>4, <1>t DEF StoreKeys, On, CallFacts, ValidationFacts, Validating, Thread
  <2>1. /\ jwks' = v.keys /\ current' = TRUE /\ UNCHANGED <<upstream, management, lock>>
    BY <1>4 DEF StoreKeys
  <2>s. ASSUME NEW w \in Thread, thread' = [thread EXCEPT ![t] = w], CallFacts(w, published, valid)
        PROVE  ClientInv'
    <3>1. CallFacts(w, published', valid')
      BY <2>1, <2>s DEF upstream, CallFacts, ValidationFacts, QueryFacts
    <3> QED
      BY <2>0, <2>1, <2>s, <1>t, <3>1, OneCall DEF upstream
  <2>2. CASE v.keys[v.kid] # 0
    <3> DEFINE w == [v EXCEPT !.pc = "decode"]
    <3>1. /\ w \in Thread /\ w.pc = "decode" /\ w.keys = v.keys /\ w.kid = v.kid
          /\ w.key = v.key /\ w.steady = v.steady
      BY DEF Thread, Validating
    <3>2. thread' = [thread EXCEPT ![t] = w]
      BY <1>4, <2>2 DEF StoreKeys, To, ClientInv, ClientTypeOK
    <3> HIDE DEF w
    <3>3. CallFacts(w, published, valid)
      BY <2>0, <3>1, <1>t DEF CallFacts, ValidationFacts, QueryFacts, Validating
    <3> QED
      BY <3>1, <3>2, <3>3, <2>s
  <2>3. CASE v.keys[v.kid] = 0 /\ v.try = "first"
    <3> DEFINE w == [v EXCEPT !.pc = "keys", !.try = "missing"]
    <3>1. /\ w \in Thread /\ w.pc = "keys" /\ w.kid = v.kid
          /\ w.key = v.key /\ w.steady = v.steady
      BY DEF Thread, Validating
    <3>2. thread' = [thread EXCEPT ![t] = w]
      BY <1>4, <2>3 DEF StoreKeys, ClientInv, ClientTypeOK
    <3> HIDE DEF w
    <3>3. CallFacts(w, published, valid)
      BY <2>0, <3>1, <1>t DEF CallFacts, ValidationFacts, QueryFacts, Validating
    <3> QED
      BY <3>1, <3>2, <3>3, <2>s
  <2>4. CASE v.keys[v.kid] = 0 /\ v.try # "first"
    <3>1. ~v.steady
      BY <2>0, <2>4
    <3>2. Refuse(t)
      BY <1>4, <2>4 DEF StoreKeys
    <3>3. thread' = [thread EXCEPT ![t] = Quiet]
      BY <3>1, <3>2, QuietFacts DEF Refuse, Quiet
    <3> QED
      BY <3>3, <2>s, QuietFacts DEF CallFacts, ValidationFacts, QueryFacts, Validating
  <2> QED
    BY <2>2, <2>3, <2>4
<1>5. CASE Decode(t)
  <2>0. v.pc = "decode" /\ UNCHANGED <<upstream, caches>>
    BY <1>5 DEF Decode, On
  <2>1. CASE v.keys[v.kid] = v.key
    BY <1>5, <2>0, <2>1, <1>r DEF Decode
  <2>2. CASE v.keys[v.kid] # v.key /\ v.try # "again"
    <3> DEFINE w == [v EXCEPT !.pc = "keys", !.try = "again"]
    <3>1. /\ w \in Thread /\ w.pc = "keys" /\ w.kid = v.kid
          /\ w.key = v.key /\ w.steady = v.steady
      BY DEF Thread, Validating
    <3>2. thread' = [thread EXCEPT ![t] = w]
      BY <1>5, <2>2 DEF Decode, ClientInv, ClientTypeOK
    <3> HIDE DEF w
    <3>3. CallFacts(w, published, valid)
      BY <2>0, <3>1, <1>t DEF CallFacts, ValidationFacts, QueryFacts, Validating
    <3> QED
      BY <2>0, <3>1, <3>2, <3>3, <1>s
  <2>3. CASE v.keys[v.kid] # v.key /\ v.try = "again"
    <3>1. ~v.steady
      BY <2>0, <2>3, <1>t DEF CallFacts, ValidationFacts, Validating
    <3>2. Refuse(t)
      BY <1>5, <2>3 DEF Decode
    <3>3. thread' = [thread EXCEPT ![t] = Quiet]
      BY <3>1, <3>2, QuietFacts DEF Refuse, Quiet
    <3> QED
      BY <2>0, <3>3, <1>s, QuietFacts DEF CallFacts, ValidationFacts, QueryFacts, Validating
  <2> QED
    BY <2>1, <2>2, <2>3
<1> QED
  BY <1>1, <1>2, <1>3, <1>4, <1>5

\* The steps of a status query.
LEMMA QueryKeeps ==
  ASSUME ClientInv, NEW t \in Threads,
         \/ BeginQuery(t) \/ UseToken(t) \/ RequestToken(t) \/ Login(t) \/ Ask(t) \/ ClearToken(t)
  PROVE  ClientInv'
<1> PICK v \in Thread : v = thread[t]
  BY DEF ClientInv, ClientTypeOK
<1>t. /\ published \in KeySet /\ lastKey \in Keys /\ issued \in Tokens /\ valid \subseteq Tokens
      /\ jwks \in KeySet /\ current \in BOOLEAN /\ management \in Tokens
      /\ lock \in Threads \cup {NoThread} /\ CallFacts(v, published, valid)
  BY DEF ClientInv, ClientTypeOK
<1>s. ASSUME NEW w \in Thread, thread' = [thread EXCEPT ![t] = w],
             UNCHANGED <<upstream, jwks, current>>, management' \in Tokens,
             lock' \in Threads \cup {NoThread}, CallFacts(w, published, valid)
      PROVE  ClientInv'
  <2>1. CallFacts(w, published', valid')
    BY <1>s DEF upstream, CallFacts, ValidationFacts, QueryFacts
  <2> QED
    BY <1>s, <1>t, <2>1, OneCall DEF upstream
<1>r. ASSUME Return(t), UNCHANGED <<upstream, caches>> PROVE ClientInv'
  BY <1>r, <1>s, <1>t, QuietFacts DEF Return, CallFacts, ValidationFacts, QueryFacts,
                                       Validating, caches
<1>n. ASSUME NEW w \in Thread,
             w.pc \in {"token", "login", "clear"} \/ (w.pc = "ask" /\ w.try = "first")
      PROVE  CallFacts(w, published, valid)
  BY <1>n DEF CallFacts, ValidationFacts, QueryFacts, Validating
<1>1. CASE BeginQuery(t)
  <2> DEFINE w == [Quiet EXCEPT !.pc = "token"]
  <2>1. w \in Thread /\ w.pc = "token"
    BY QuietFacts DEF Thread, Querying
  <2>2. thread' = [thread EXCEPT ![t] = w] /\ UNCHANGED <<upstream, caches>>
    BY <1>1 DEF BeginQuery
  <2> HIDE DEF w
  <2>3. CallFacts(w, published, valid)
    BY <2>1, <2>2, <1>n
  <2>4. UNCHANGED <<upstream, jwks, current>> /\ management' = management /\ lock' = lock
    BY <2>2 DEF caches
  <2> QED
    BY <2>1, <2>2, <2>3, <2>4, <1>s, <1>t
<1>2. CASE UseToken(t)
  <2> DEFINE w == [v EXCEPT !.pc = "ask", !.token = management]
  <2>1. w \in Thread /\ w.pc = "ask" /\ w.try = v.try
    BY <1>t DEF Thread, Querying
  <2>2. /\ thread' = [thread EXCEPT ![t] = w] /\ UNCHANGED <<upstream, caches>>
        /\ v.try = "first"
    BY <1>2 DEF UseToken, ClientInv, ClientTypeOK
  <2> HIDE DEF w
  <2>3. CallFacts(w, published, valid)
    BY <2>1, <2>2, <1>n
  <2>4. UNCHANGED <<upstream, jwks, current>> /\ management' = management /\ lock' = lock
    BY <2>2 DEF caches
  <2> QED
    BY <2>1, <2>2, <2>3, <2>4, <1>s, <1>t
<1>3. CASE RequestToken(t)
  <2> DEFINE w == [v EXCEPT !.pc = "login"]
  <2>1. w \in Thread /\ w.pc = "login"
    BY DEF Thread, Querying
  <2>2. /\ thread' = [thread EXCEPT ![t] = w] /\ UNCHANGED <<upstream, jwks, current, management>>
        /\ lock' = t
    BY <1>3 DEF RequestToken, To, ClientInv, ClientTypeOK
  <2> HIDE DEF w
  <2> QED
    BY <2>1, <2>2, <1>n, <1>s, <1>t
<1>4. CASE Login(t)
  <2>0. UNCHANGED <<published, lastKey, jwks, current>> /\ lock' = NoThread
    BY <1>4 DEF Login
  <2>1. CASE Unavailable(t) /\ UNCHANGED <<issued, valid, management>>
    BY <2>0, <2>1, <1>s, <1>t, QuietFacts
    DEF Unavailable, Return, upstream, CallFacts, ValidationFacts, QueryFacts, Validating
  <2>2. CASE ~(Unavailable(t) /\ UNCHANGED <<issued, valid, management>>)
    <3>1. /\ issued < MaxTokens /\ issued' = issued + 1 /\ valid' = valid \cup {issued'}
          /\ management' = issued'
          /\ thread' = [thread EXCEPT ![t].pc = "ask", ![t].token = issued']
      BY <1>4, <2>2 DEF Login
    <3>2. issued' \in Tokens
      BY <1>t, <3>1, MaxTokensAssumption DEF Tokens
    <3> DEFINE w == [v EXCEPT !.pc = "ask", !.token = issued']
    <3>3. w \in Thread /\ w.pc = "ask" /\ w.token = issued'
      BY <3>2 DEF Thread, Querying
    <3>4. thread' = [thread EXCEPT ![t] = w]
      BY <3>1 DEF ClientInv, ClientTypeOK
    <3> HIDE DEF w
    <3>5. CallFacts(w, published', valid')
      BY <3>1, <3>3 DEF CallFacts, ValidationFacts, QueryFacts, Validating
    <3>6. management' \in Tokens /\ valid' \subseteq Tokens /\ valid \subseteq valid'
      BY <1>t, <3>1, <3>2
    <3> QED
      BY <2>0, <3>2, <3>3, <3>4, <3>5, <3>6, <1>t, OneCall
  <2> QED
    BY <2>1, <2>2
<1>5. CASE Ask(t)
  <2>0. v.pc = "ask" /\ UNCHANGED <<upstream, caches>>
    BY <1>5 DEF Ask, On
  <2>1. CASE Return(t)
    BY <2>0, <2>1, <1>r
  <2>2. CASE To(t, "clear")
    <3> DEFINE w == [v EXCEPT !.pc = "clear"]
    <3>1. w \in Thread /\ w.pc = "clear"
      BY DEF Thread, Querying
    <3>2. thread' = [thread EXCEPT ![t] = w]
      BY <2>2 DEF To, ClientInv, ClientTypeOK
    <3> HIDE DEF w
    <3>3. CallFacts(w, published, valid)
      BY <3>1, <1>n
    <3>4. UNCHANGED <<upstream, jwks, current>> /\ management' = management /\ lock' = lock
      BY <2>0 DEF caches
    <3> QED
      BY <3>1, <3>2, <3>3, <3>4, <1>s, <1>t
  <2>3. CASE v.token \notin valid /\ v.try # "first" /\ Refuse(t)
    <3>1. ~v.steady
      BY <2>0, <2>3, <1>t DEF CallFacts, QueryFacts
    <3>2. thread' = [thread EXCEPT ![t] = Quiet]
      BY <3>1, <2>3, QuietFacts DEF Refuse, Quiet
    <3> QED
      BY <2>0, <3>2, <1>r DEF Return
  <2> QED
    BY <1>5, <2>1, <2>2, <2>3 DEF Ask, Answered, Unavailable
<1>6. CASE ClearToken(t)
  <2> DEFINE w == [v EXCEPT !.pc = "token", !.try = "again"]
  <2>1. w \in Thread /\ w.pc = "token"
    BY DEF Thread, Querying
  <2>2. /\ thread' = [thread EXCEPT ![t] = w] /\ UNCHANGED <<upstream, jwks, current, lock>>
        /\ management' = 0
    BY <1>6 DEF ClearToken, ClientInv, ClientTypeOK
  <2>3. management' \in Tokens
    BY <2>2, MaxTokensAssumption DEF Tokens
  <2> HIDE DEF w
  <2>4. CallFacts(w, published, valid)
    BY <2>1, <1>n
  <2>5. UNCHANGED <<upstream, jwks, current>> /\ lock' = lock
    BY <2>2
  <2> QED
    BY <2>1, <2>2, <2>3, <2>4, <2>5, <1>s, <1>t
<1> QED
  BY <1>1, <1>2, <1>3, <1>4, <1>5, <1>6

\* What the provider does takes effect on the calls in progress through steady only.
LEMMA ProviderKeeps ==
  ASSUME ClientInv,
         \/ \E k \in KeyIds : RotateKey(k) \/ WithdrawKey(k)
         \/ \E ended \in SUBSET valid : EndTokens(ended)
  PROVE  ClientInv'
<1>t. /\ ClientTypeOK /\ thread \in [Threads -> Thread]
      /\ \A t \in Threads : thread[t] \in Thread /\ CallFacts(thread[t], published, valid)
  BY DEF ClientInv, ClientTypeOK
<1>1. ASSUME NEW k \in KeyIds, NEW key \in Keys, lastKey' \in Keys, Publish(k, key)
      PROVE  ClientInv'
  <2>1. published' \in KeySet /\ UNCHANGED <<issued, valid, caches>>
    BY <1>1, <1>t DEF Publish, ClientTypeOK, KeySet
  <2>2. ASSUME NEW t \in Threads
        PROVE  thread'[t] \in Thread /\ CallFacts(thread'[t], published', valid')
    <3> PICK v \in Thread : v = thread[t]
      BY <1>t
    <3> DEFINE steady == v.steady /\ (v.pc \in Validating => published'[v.kid] = v.key)
               w == [v EXCEPT !.steady = steady]
    <3>1. steady \in BOOLEAN /\ (steady => v.steady)
          /\ (steady => (v.pc \in Validating => published'[v.kid] = v.key))
      BY DEF Thread
    <3>2. thread'[t] = w
      BY <1>1 DEF Publish
    <3> HIDE DEF steady
    <3>3. /\ w \in Thread /\ w.pc = v.pc /\ w.kid = v.kid /\ w.key = v.key /\ w.try = v.try
          /\ w.keys = v.keys /\ w.token = v.token /\ w.steady = steady
      BY <3>1 DEF Thread
    <3> HIDE DEF w
    <3> QED
      BY <1>t, <2>1, <3>1, <3>2, <3>3 DEF CallFacts, ValidationFacts, QueryFacts
  <2>3. thread' \in [Threads -> Thread]
    <3>1. thread' = [t \in Threads |-> thread'[t]]
      BY <1>1 DEF Publish
    <3> QED
      BY <2>2, <3>1
  <2> QED
    BY <1>1, <1>t, <2>1, <2>2, <2>3 DEF ClientInv, ClientTypeOK, caches
<1>2. ASSUME NEW k \in KeyIds, RotateKey(k) PROVE ClientInv'
  <2>1. lastKey' \in Keys /\ Publish(k, lastKey')
    BY <1>2, <1>t, MaxKeysAssumption DEF RotateKey, ClientTypeOK, Keys
  <2> QED
    BY <2>1, <1>1
<1>3. ASSUME NEW k \in KeyIds, WithdrawKey(k) PROVE ClientInv'
  <2>1. lastKey' \in Keys /\ Publish(k, 0) /\ 0 \in Keys
    BY <1>3, <1>t, MaxKeysAssumption DEF WithdrawKey, ClientTypeOK, Keys
  <2> QED
    BY <2>1, <1>1
<1>4. ASSUME NEW ended \in SUBSET valid, EndTokens(ended) PROVE ClientInv'
  <2>1. UNCHANGED <<published, lastKey, issued, caches>> /\ valid' \subseteq valid
    BY <1>4 DEF EndTokens
  <2>2. ASSUME NEW t \in Threads
        PROVE  thread'[t] \in Thread /\ CallFacts(thread'[t], published', valid')
    <3> PICK v \in Thread : v = thread[t]
      BY <1>t
    <3> DEFINE steady == v.steady /\ v.pc \notin Querying
               w == [v EXCEPT !.steady = steady]
    <3>1. steady \in BOOLEAN /\ (steady => v.steady) /\ (steady => v.pc # "ask")
      BY DEF Thread, Querying
    <3>2. thread'[t] = w
      BY <1>4 DEF EndTokens
    <3> HIDE DEF steady
    <3>3. /\ w \in Thread /\ w.pc = v.pc /\ w.kid = v.kid /\ w.key = v.key /\ w.try = v.try
          /\ w.keys = v.keys /\ w.token = v.token /\ w.steady = steady
      BY <3>1 DEF Thread
    <3> HIDE DEF w
    <3> QED
      BY <1>t, <2>1, <3>1, <3>2, <3>3 DEF CallFacts, ValidationFacts, QueryFacts
  <2>3. thread' \in [Threads -> Thread]
    <3>1. thread' = [t \in Threads |-> thread'[t]]
      BY <1>4 DEF EndTokens
    <3> QED
      BY <2>2, <3>1
  <2> QED
    BY <1>t, <2>1, <2>2, <2>3 DEF ClientInv, ClientTypeOK, caches
<1> QED
  BY <1>2, <1>3, <1>4

\* The inductive invariant of the client.
LEMMA ClientInvariant == ClientSpec => []ClientInv
<1>1. ClientInit => ClientInv
  <2> SUFFICES ASSUME ClientInit PROVE ClientInv
    OBVIOUS
  <2>0. NoKeys \in KeySet /\ 0 \in Keys /\ 0 \in Tokens
    BY MaxKeysAssumption, MaxTokensAssumption DEF NoKeys, KeySet, Keys, Tokens
  <2>1. ClientTypeOK
    BY <2>0, QuietFacts DEF ClientInit, ClientTypeOK
  <2>2. \A t \in Threads : CallFacts(thread[t], published, valid)
    BY QuietFacts DEF ClientInit, CallFacts, ValidationFacts, QueryFacts, Validating
  <2> QED
    BY <2>1, <2>2 DEF ClientInv
<1>2. ClientInv /\ [ClientNext]_clientVars => ClientInv'
  <2> SUFFICES ASSUME ClientInv, [ClientNext]_clientVars PROVE ClientInv'
    OBVIOUS
  <2>1. CASE KeysExpire
    BY <2>1 DEF KeysExpire, upstream, ClientInv, ClientTypeOK, CallFacts, ValidationFacts,
                QueryFacts
  <2>2. CASE UNCHANGED clientVars
    BY <2>2 DEF clientVars, ClientInv, ClientTypeOK, CallFacts, ValidationFacts, QueryFacts
  <2> QED
    BY <2>1, <2>2, ValidationKeeps, QueryKeeps, ProviderKeeps DEF ClientNext
<1> QED
  BY <1>1, <1>2, PTL DEF ClientSpec

\* SteadyProviderServes: whatever keys and tokens the other threads fetch, store or drop
\* meanwhile, and whatever expires, no ID token is rejected while its key stays published,
\* and no query while the provider ends no token.
THEOREM SteadyProvidersServe == ClientSpec => []SteadyProviderServes
<1>1. ClientInv => SteadyProviderServes
  BY DEF ClientInv, CallFacts, SteadyProviderServes
<1> QED
  BY <1>1, ClientInvariant, PTL

\* What is referred to is there, and a run's conversation is of its project.
RowsExist ==
  /\ \A p \in 1..Len(plans) : BelongsTo(plans[p].conversation, plans[p].project)
  /\ \A d \in Deciders : decider[d].choice # "none" => decider[d].plan \in 1..Len(plans)
  /\ \A i \in 1..Len(board) : board[i].plan \in 0..Len(plans) /\ board[i].parent \in 0..Len(board)

PlannerInv == PlannerTypeOK /\ RowsExist /\ PlanDecidedOnce

\* The parts of PlanDecidedOnce: a run and its approvals, a run and its tasks, a task and
\* its rows.
ApprovalAgrees(p) ==
  {a.status : a \in {b \in approvals : b.plan = p}} = {plans[p].status} \ {"DRAFTED"}

OneTaskPerDraft(p) ==
  plans[p].status = "APPROVED" => \A k \in 1..plans[p].drafts :
    \E i \in 1..Len(board) : TasksOf(p, k) = {i}

TaskOfPlan(i) ==
  board[i].plan # 0 =>
    /\ plans[board[i].plan].status = "APPROVED"
    /\ board[i].draft \in 1..plans[board[i].plan].drafts
    /\ board[i].project = plans[board[i].plan].project
    /\ board[i].conversation = plans[board[i].plan].conversation

TaskInProject(i) ==
  /\ BelongsTo(board[i].conversation, board[i].project)
  /\ BelongsTo(board[i].repo, board[i].project)
  /\ board[i].parent # 0 => board[board[i].parent].project = board[i].project

LEMMA DecidedOnceParts ==
  PlanDecidedOnce <=>
    /\ \A p \in 1..Len(plans) : ApprovalAgrees(p) /\ OneTaskPerDraft(p)
    /\ \A i \in 1..Len(board) : TaskOfPlan(i) /\ TaskInProject(i)
BY ZenonT(30) DEF PlanDecidedOnce, ApprovalAgrees, OneTaskPerDraft, TaskOfPlan, TaskInProject

LEMMA DecidedOnceNext ==
  ASSUME (\A p \in 1..Len(plans) : ApprovalAgrees(p) /\ OneTaskPerDraft(p))',
         (\A i \in 1..Len(board) : TaskOfPlan(i) /\ TaskInProject(i))'
  PROVE  PlanDecidedOnce'
BY DecidedOnceParts, PTL

LEMMA ResultsAreTyped ==
  ASSUME NEW route \in ModelRoutes, NEW result \in PlannerResults(route)
  PROVE  /\ result.kind \in {"fake", "model_fallback_fake", "model"}
         /\ result.drafts \in Nat
         /\ result.usage \in UsageRows
<1>1. CASE route = "configured"
  <2>1. CASE result \in {FakeResult("model_fallback_fake")}
    BY <2>1 DEF FakeResult, FakeDrafts, UsageRows
  <2>2. CASE result \in UNION {ModelResults(n) : n \in 1..MaxDrafts}
    <3>1. PICK n \in 1..MaxDrafts : result \in ModelResults(n)
      BY <2>2
    <3>2. QED  BY <3>1, PlannerAssumption DEF ModelResults
  <2>3. QED  BY <1>1, <2>1, <2>2 DEF PlannerResults
<1>2. CASE route # "configured"
  BY <1>2 DEF ModelRoutes, PlannerResults, FakeResult, FakeDrafts, UsageRows
<1>3. QED  BY <1>1, <1>2

LEMMA SameTasks ==
  ASSUME UNCHANGED board, NEW p, NEW k
  PROVE  TasksOf(p, k)' = TasksOf(p, k)
BY DEF TasksOf

LEMMA CreateRunKeepsPlans ==
  ASSUME PlannerInv, NEW project \in Projects, NEW conversation \in Conversations \cup {NoRow},
         CreatePlannerRun(project, conversation)
  PROVE  PlannerInv'
<1>1. PICK r \in PlanRows : /\ plans' = Append(plans, r) /\ r.status = "DRAFTED"
                           /\ BelongsTo(r.conversation, r.project)
  <2>0. PICK route \in ModelRoutes : \E result \in PlannerResults(route) :
          plans' = Append(plans, [project |-> project, conversation |-> conversation,
                                  status |-> "DRAFTED", kind |-> result.kind,
                                  drafts |-> result.drafts, usage |-> result.usage])
    BY DEF CreatePlannerRun
  <2>1. PICK result \in PlannerResults(route) :
          plans' = Append(plans, [project |-> project, conversation |-> conversation,
                                  status |-> "DRAFTED", kind |-> result.kind,
                                  drafts |-> result.drafts, usage |-> result.usage])
    BY <2>0
  <2>2. [project |-> project, conversation |-> conversation, status |-> "DRAFTED",
         kind |-> result.kind, drafts |-> result.drafts, usage |-> result.usage] \in PlanRows
    BY <2>1, ResultsAreTyped DEF PlanRows
  <2>3. BelongsTo(conversation, project)
    BY DEF CreatePlannerRun
  <2>4. QED  BY <2>1, <2>2, <2>3
<1>2. UNCHANGED <<approvals, board, decider>>
  BY DEF CreatePlannerRun
<1>3. /\ Len(plans') = Len(plans) + 1
      /\ \A p \in 1..Len(plans) : plans'[p] = plans[p]
      /\ plans'[Len(plans) + 1] = r
      /\ plans' \in Seq(PlanRows)
      /\ Len(plans) \in Nat
  BY <1>1 DEF PlannerInv, PlannerTypeOK
<1>4. PlannerTypeOK' /\ RowsExist'
  <2>1. PlannerTypeOK'
    BY <1>2, <1>3 DEF PlannerInv, PlannerTypeOK
  <2>2. \A p \in 1..Len(plans') : BelongsTo(plans'[p].conversation, plans'[p].project)
    BY <1>1, <1>3 DEF PlannerInv, RowsExist
  <2>3. QED  BY <1>2, <1>3, <2>1, <2>2 DEF PlannerInv, RowsExist, BelongsTo
<1>5. ASSUME NEW p \in 1..Len(plans')
      PROVE  ApprovalAgrees(p)' /\ OneTaskPerDraft(p)'
  <2>1. CASE p \in 1..Len(plans)
    <3>1. ApprovalAgrees(p) /\ OneTaskPerDraft(p)
      BY <2>1, DecidedOnceParts DEF PlannerInv
    <3>2. plans'[p] = plans[p]
      BY <1>3, <2>1
    <3>3. ApprovalAgrees(p)'
      BY <1>2, <3>1, <3>2 DEF ApprovalAgrees
    <3>4. OneTaskPerDraft(p)'
      BY <1>2, <3>1, <3>2, SameTasks DEF OneTaskPerDraft
    <3>5. QED  BY <3>3, <3>4
  <2>2. CASE p = Len(plans) + 1
    <3>1. \A a \in approvals : a.plan # p
      BY <1>3, <2>2 DEF PlannerInv, PlannerTypeOK
    <3>2. plans'[p].status = "DRAFTED"
      BY <1>1, <1>3, <2>2
    <3>3. QED  BY <1>2, <3>1, <3>2 DEF ApprovalAgrees, OneTaskPerDraft
  <2>3. QED  BY <1>3, <2>1, <2>2
<1>6. ASSUME NEW i \in 1..Len(board')
      PROVE  TaskOfPlan(i)' /\ TaskInProject(i)'
  <2>1. TaskOfPlan(i) /\ TaskInProject(i) /\ board[i].plan \in 0..Len(plans)
    BY <1>2, DecidedOnceParts DEF PlannerInv, RowsExist
  <2>2. QED  BY <1>2, <1>3, <2>1 DEF TaskOfPlan, TaskInProject, BelongsTo
<1>7. PlanDecidedOnce'
  <2>1. (\A p \in 1..Len(plans) : ApprovalAgrees(p) /\ OneTaskPerDraft(p))'
    BY <1>5
  <2>2. (\A i \in 1..Len(board) : TaskOfPlan(i) /\ TaskInProject(i))'
    BY <1>6
  <2>3. QED  BY <2>1, <2>2, DecidedOnceNext
<1>8. QED  BY <1>4, <1>7 DEF PlannerInv

LEMMA DeciderKeepsPlans ==
  ASSUME PlannerInv, UNCHANGED <<plans, approvals, board>>,
         decider' \in [Deciders -> [choice : {"none", "approve", "reject"}, plan : 0..Len(plans)]],
         \A d \in Deciders : decider'[d].choice # "none" => decider'[d].plan \in 1..Len(plans)
  PROVE  PlannerInv'
<1>1. PlannerTypeOK' /\ RowsExist'
  BY DEF PlannerInv, PlannerTypeOK, RowsExist, BelongsTo
<1>2. ASSUME NEW p \in 1..Len(plans)
      PROVE  ApprovalAgrees(p)' /\ OneTaskPerDraft(p)'
  <2>1. ApprovalAgrees(p) /\ OneTaskPerDraft(p)
    BY DecidedOnceParts DEF PlannerInv
  <2>2. QED  BY <2>1, SameTasks DEF ApprovalAgrees, OneTaskPerDraft
<1>3. ASSUME NEW i \in 1..Len(board)
      PROVE  TaskOfPlan(i)' /\ TaskInProject(i)'
  <2>1. TaskOfPlan(i) /\ TaskInProject(i)
    BY DecidedOnceParts DEF PlannerInv
  <2>2. QED  BY <2>1 DEF TaskOfPlan, TaskInProject, BelongsTo
<1>4. PlanDecidedOnce'
  <2>1. (\A p \in 1..Len(plans) : ApprovalAgrees(p) /\ OneTaskPerDraft(p))'
    BY <1>2
  <2>2. (\A i \in 1..Len(board) : TaskOfPlan(i) /\ TaskInProject(i))'
    BY <1>3
  <2>3. QED  BY <2>1, <2>2, DecidedOnceNext
<1>5. QED  BY <1>1, <1>4 DEF PlannerInv

LEMMA ReadPlanKeepsPlans ==
  ASSUME PlannerInv, NEW d \in Deciders, NEW p \in 1..Len(plans), NEW choice \in {"approve", "reject"},
         ReadPlan(d, p, choice)
  PROVE  PlannerInv'
<1>1. [choice |-> choice, plan |-> p] \in [choice : {"none", "approve", "reject"}, plan : 0..Len(plans)]
  BY DEF PlannerInv, PlannerTypeOK
<1>2. QED
  BY <1>1, DeciderKeepsPlans DEF PlannerInv, PlannerTypeOK, RowsExist, ReadPlan

LEMMA FailureKeepsPlans ==
  ASSUME PlannerInv, NEW d \in Deciders, DecisionFails(d)
  PROVE  PlannerInv'
BY DeciderKeepsPlans DEF PlannerInv, PlannerTypeOK, RowsExist, DecisionFails, Undecided

\* A run on which no approval row stands is undecided and has no tasks.
LEMMA UndecidedHasNoTasks ==
  ASSUME PlannerInv, NEW p \in 1..Len(plans), MayDecide(p)
  PROVE  plans[p].status = "DRAFTED" /\ \A i \in 1..Len(board) : board[i].plan # p
<1>1. ApprovalAgrees(p)
  BY DecidedOnceParts DEF PlannerInv
<1>2. plans[p].status = "DRAFTED"
  BY <1>1 DEF ApprovalAgrees, MayDecide
<1>3. \A i \in 1..Len(board) : board[i].plan # p
  <2>1. ASSUME NEW i \in 1..Len(board)  PROVE TaskOfPlan(i)
    BY DecidedOnceParts DEF PlannerInv
  <2>2. p # 0
    BY DEF PlannerInv, PlannerTypeOK
  <2>3. QED  BY <1>2, <2>1, <2>2 DEF TaskOfPlan
<1>4. QED  BY <1>2, <1>3

\* The rows of runs and approvals after a decision.
LEMMA DecideEffect ==
  ASSUME PlannerInv, NEW p \in 1..Len(plans), NEW status \in {"APPROVED", "REJECTED"},
         MayDecide(p), Decide(p, status)
  PROVE  /\ Len(plans') = Len(plans) /\ plans' \in Seq(PlanRows)
         /\ approvals' \subseteq [plan : 1..Len(plans'), status : {"APPROVED", "REJECTED"}]
         /\ plans'[p].status = status
         /\ \A q \in 1..Len(plans) :
              /\ plans'[q].project = plans[q].project
              /\ plans'[q].conversation = plans[q].conversation
              /\ plans'[q].drafts = plans[q].drafts
              /\ q # p => plans'[q].status = plans[q].status
              /\ ApprovalAgrees(q)'
<1> DEFINE row == [plans[p] EXCEPT !.status = status]
<1>1. plans' = [plans EXCEPT ![p] = row]
  BY DEF Decide
<1>2. plans[p] \in PlanRows /\ Len(plans) \in Nat
  BY DEF PlannerInv, PlannerTypeOK
<1>3. /\ row \in PlanRows /\ row.status = status
      /\ row.project = plans[p].project /\ row.conversation = plans[p].conversation
      /\ row.drafts = plans[p].drafts
  BY <1>2 DEF PlanRows
<1> HIDE DEF row
<1>4. /\ Len(plans') = Len(plans) /\ plans' \in Seq(PlanRows)
      /\ plans'[p] = row /\ \A q \in 1..Len(plans) : q # p => plans'[q] = plans[q]
  BY <1>1, <1>3 DEF PlannerInv, PlannerTypeOK
<1>5. approvals' = approvals \cup {[plan |-> p, status |-> status]}
  BY DEF Decide
<1>6. approvals' \subseteq [plan : 1..Len(plans'), status : {"APPROVED", "REJECTED"}]
  BY <1>4, <1>5 DEF PlannerInv, PlannerTypeOK
<1>7. ASSUME NEW q \in 1..Len(plans)  PROVE ApprovalAgrees(q)'
  <2>1. CASE q = p
    <3> DEFINE approval == [plan |-> p, status |-> status]
    <3>0. approval.plan = p /\ approval.status = status /\ approvals' = approvals \cup {approval}
      BY <1>5
    <3> HIDE DEF approval
    <3>1. {b \in approvals' : b.plan = q} = {approval}
      BY <2>1, <3>0 DEF MayDecide
    <3>2. {a.status : a \in {b \in approvals' : b.plan = q}} = {status}
      BY <3>0, <3>1
    <3>3. QED  BY <1>3, <1>4, <2>1, <3>2 DEF ApprovalAgrees
  <2>2. CASE q # p
    <3>1. {b \in approvals' : b.plan = q} = {b \in approvals : b.plan = q}
      BY <1>5, <2>2
    <3>2. ApprovalAgrees(q)
      BY DecidedOnceParts DEF PlannerInv
    <3>3. QED  BY <1>4, <2>2, <3>1, <3>2 DEF ApprovalAgrees
  <2>3. QED  BY <2>1, <2>2
<1>8. QED  BY <1>3, <1>4, <1>6, <1>7

LEMMA RejectKeepsPlans ==
  ASSUME PlannerInv, NEW d \in Deciders, RejectPlannerRun(d)
  PROVE  PlannerInv'
<1> DEFINE run == decider[d].plan
<1>1. run \in 1..Len(plans) /\ MayDecide(run) /\ Decide(run, "REJECTED") /\ UNCHANGED board
      /\ decider' = [decider EXCEPT ![d] = Undecided]
  BY DEF RejectPlannerRun, PlannerInv, RowsExist
<1> HIDE DEF run
<1>2. Len(plans') = Len(plans) /\ plans'[run].status = "REJECTED"
  BY <1>1, DecideEffect
<1>3. PlannerTypeOK'
  <2>1. /\ plans' \in Seq(PlanRows)
        /\ approvals' \subseteq [plan : 1..Len(plans'), status : {"APPROVED", "REJECTED"}]
    BY <1>1, DecideEffect
  <2>2. decider' \in [Deciders -> [choice : {"none", "approve", "reject"}, plan : 0..Len(plans')]]
    BY <1>1, <1>2 DEF PlannerInv, PlannerTypeOK, Undecided
  <2>3. QED  BY <1>1, <2>1, <2>2 DEF PlannerInv, PlannerTypeOK
<1>4. RowsExist'
  <2>1. \A q \in 1..Len(plans') : BelongsTo(plans'[q].conversation, plans'[q].project)
    BY <1>1, <1>2, DecideEffect DEF PlannerInv, RowsExist, BelongsTo
  <2>2. QED
    BY <1>1, <1>2, <2>1 DEF PlannerInv, PlannerTypeOK, RowsExist, Undecided, BelongsTo
<1>5. ASSUME NEW q \in 1..Len(plans')
      PROVE  ApprovalAgrees(q)' /\ OneTaskPerDraft(q)'
  <2>1. ApprovalAgrees(q)' /\ plans'[q].drafts = plans[q].drafts
        /\ (q # run => plans'[q].status = plans[q].status)
    BY <1>1, <1>2, DecideEffect
  <2>2. OneTaskPerDraft(q)
    BY <1>2, DecidedOnceParts DEF PlannerInv
  <2>3. QED  BY <1>1, <1>2, <2>1, <2>2, SameTasks DEF OneTaskPerDraft
<1>6. ASSUME NEW i \in 1..Len(board')
      PROVE  TaskOfPlan(i)' /\ TaskInProject(i)'
  <2>1. TaskOfPlan(i) /\ TaskInProject(i) /\ board[i].plan \in 0..Len(plans) /\ board[i].plan # run
    BY <1>1, DecidedOnceParts, UndecidedHasNoTasks DEF PlannerInv, RowsExist
  <2>2. ASSUME board[i].plan # 0
        PROVE  /\ plans'[board[i].plan].project = plans[board[i].plan].project
               /\ plans'[board[i].plan].conversation = plans[board[i].plan].conversation
               /\ plans'[board[i].plan].drafts = plans[board[i].plan].drafts
               /\ plans'[board[i].plan].status = plans[board[i].plan].status
    <3>1. board[i].plan \in 1..Len(plans)
      BY <2>1, <2>2 DEF PlannerInv, PlannerTypeOK
    <3>2. QED  BY <1>1, <2>1, <3>1, DecideEffect
  <2>3. QED  BY <1>1, <2>1, <2>2 DEF TaskOfPlan, TaskInProject, BelongsTo
<1>7. PlanDecidedOnce'
  <2>1. (\A p \in 1..Len(plans) : ApprovalAgrees(p) /\ OneTaskPerDraft(p))'
    BY <1>5
  <2>2. (\A i \in 1..Len(board) : TaskOfPlan(i) /\ TaskInProject(i))'
    BY <1>6
  <2>3. QED  BY <2>1, <2>2, DecidedOnceNext
<1>8. QED  BY <1>3, <1>4, <1>7 DEF PlannerInv

\* The board after an approval: the tasks of the drafts follow those that were there.
LEMMA BoardGrows ==
  ASSUME PlannerInv, NEW p \in 1..Len(plans), board' = board \o DraftedTasks(p)
  PROVE  /\ Len(board) \in Nat /\ plans[p].drafts \in Nat
         /\ board' \in Seq(TaskRows)
         /\ Len(board') = Len(board) + plans[p].drafts
         /\ \A i \in 1..Len(board) : board'[i] = board[i]
         /\ \A i \in 1..Len(board') : i > Len(board) =>
              /\ board'[i].project = plans[p].project
              /\ board'[i].conversation = plans[p].conversation
              /\ board'[i].parent = 0 /\ board'[i].repo = NoRow
              /\ board'[i].plan = p /\ board'[i].draft = i - Len(board)
<1>1. plans[p] \in PlanRows /\ board \in Seq(TaskRows) /\ Len(board) \in Nat
  BY DEF PlannerInv, PlannerTypeOK
<1>2. plans[p].drafts \in Nat /\ plans[p].project \in Projects
      /\ plans[p].conversation \in Conversations \cup {NoRow} /\ p \in Nat
  BY <1>1 DEF PlanRows
<1> DEFINE row(k) == [project |-> plans[p].project, conversation |-> plans[p].conversation,
                     parent |-> 0, repo |-> NoRow, plan |-> p, draft |-> k]
<1>3. ASSUME NEW k \in Nat
      PROVE  /\ row(k) \in TaskRows
             /\ row(k).project = plans[p].project
             /\ row(k).conversation = plans[p].conversation
             /\ row(k).parent = 0 /\ row(k).repo = NoRow
             /\ row(k).plan = p /\ row(k).draft = k
  BY <1>2 DEF TaskRows
<1>4. DraftedTasks(p) = [k \in 1..plans[p].drafts |-> row(k)]
  BY DEF DraftedTasks
<1> HIDE DEF row
<1>5. DraftedTasks(p) \in Seq(TaskRows) /\ Len(DraftedTasks(p)) = plans[p].drafts
  <2>1. DraftedTasks(p) \in [1..plans[p].drafts -> TaskRows]
    BY <1>2, <1>3, <1>4
  <2>2. QED  BY <1>2, <2>1, SMTT(30)
<1>6. /\ board' \in Seq(TaskRows)
      /\ Len(board') = Len(board) + plans[p].drafts
      /\ \A i \in 1..Len(board) : board'[i] = board[i]
      /\ \A i \in 1..Len(board') : i > Len(board) => board'[i] = DraftedTasks(p)[i - Len(board)]
  BY <1>1, <1>2, <1>5
<1>7. ASSUME NEW i \in 1..Len(board'), i > Len(board)
      PROVE  board'[i] = row(i - Len(board)) /\ i - Len(board) \in Nat
  <2>1. i - Len(board) \in 1..plans[p].drafts
    BY <1>1, <1>2, <1>6, <1>7
  <2>2. QED  BY <1>2, <1>4, <1>6, <1>7, <2>1
<1>8. ASSUME NEW i \in 1..Len(board'), i > Len(board)
      PROVE  /\ board'[i].project = plans[p].project
             /\ board'[i].conversation = plans[p].conversation
             /\ board'[i].parent = 0 /\ board'[i].repo = NoRow
             /\ board'[i].plan = p /\ board'[i].draft = i - Len(board)
  <2>1. board'[i] = row(i - Len(board)) /\ i - Len(board) \in Nat
    BY <1>7, <1>8
  <2>2. QED  BY <1>3, <2>1
<1>9. QED  BY <1>1, <1>2, <1>6, <1>8

LEMMA ApproveKeepsPlans ==
  ASSUME PlannerInv, NEW d \in Deciders, ApprovePlannerRun(d)
  PROVE  PlannerInv'
<1> DEFINE run == decider[d].plan
<1>1. run \in 1..Len(plans) /\ MayDecide(run) /\ Decide(run, "APPROVED")
      /\ board' = board \o DraftedTasks(run)
      /\ decider' = [decider EXCEPT ![d] = Undecided]
  BY DEF ApprovePlannerRun, PlannerInv, RowsExist
<1> HIDE DEF run
<1>2. Len(plans') = Len(plans) /\ plans'[run].status = "APPROVED"
  BY <1>1, DecideEffect
<1>9. /\ Len(board) \in Nat /\ plans[run].drafts \in Nat
      /\ board' \in Seq(TaskRows)
      /\ Len(board') = Len(board) + plans[run].drafts
      /\ \A i \in 1..Len(board) : board'[i] = board[i]
      /\ \A i \in 1..Len(board') : i > Len(board) =>
           /\ board'[i].project = plans[run].project
           /\ board'[i].conversation = plans[run].conversation
           /\ board'[i].parent = 0 /\ board'[i].repo = NoRow
           /\ board'[i].plan = run /\ board'[i].draft = i - Len(board)
  BY <1>1, BoardGrows
<1>3. PlannerTypeOK'
  <2>1. /\ plans' \in Seq(PlanRows)
        /\ approvals' \subseteq [plan : 1..Len(plans'), status : {"APPROVED", "REJECTED"}]
    BY <1>1, DecideEffect
  <2>2. decider' \in [Deciders -> [choice : {"none", "approve", "reject"}, plan : 0..Len(plans')]]
    BY <1>1, <1>2 DEF PlannerInv, PlannerTypeOK, Undecided
  <2>3. QED  BY <1>1, <2>1, <2>2, <1>9 DEF PlannerTypeOK
<1>4. RowsExist'
  <2>1. ASSUME NEW i \in 1..Len(board')
        PROVE  board'[i].plan \in 0..Len(plans') /\ board'[i].parent \in 0..Len(board')
    <3>1. CASE i \in 1..Len(board)
      BY <1>1, <1>2, <3>1, <1>9 DEF PlannerInv, RowsExist
    <3>2. CASE i > Len(board)
      <4>1. board'[i].plan = run /\ board'[i].parent = 0
        BY <1>9, <3>2
      <4>2. Len(plans) \in Nat /\ Len(board') \in Nat
        BY <1>9 DEF PlannerInv, PlannerTypeOK
      <4>3. QED  BY <1>1, <1>2, <4>1, <4>2
    <3>3. QED  BY <1>1, <3>1, <3>2, <1>9
  <2>2. \A e \in Deciders : decider'[e].choice # "none" => decider'[e].plan \in 1..Len(plans')
    BY <1>1, <1>2 DEF PlannerInv, PlannerTypeOK, RowsExist, Undecided
  <2>3. \A q \in 1..Len(plans') : BelongsTo(plans'[q].conversation, plans'[q].project)
    BY <1>1, <1>2, DecideEffect DEF PlannerInv, RowsExist, BelongsTo
  <2>4. QED  BY <2>1, <2>2, <2>3 DEF RowsExist, BelongsTo
<1>5. ASSUME NEW q \in 1..Len(plans')
      PROVE  ApprovalAgrees(q)' /\ OneTaskPerDraft(q)'
  <2>1. ApprovalAgrees(q)' /\ plans'[q].drafts = plans[q].drafts
        /\ (q # run => plans'[q].status = plans[q].status)
    BY <1>1, <1>2, DecideEffect
  <2>2. CASE q = run
    <3>1. ASSUME NEW k \in 1..plans'[q].drafts
          PROVE  \E i \in 1..Len(board') : TasksOf(q, k)' = {i}
      <4>1. Len(board) + k \in 1..Len(board')
        BY <1>1, <2>1, <2>2, <1>9
      <4>2. \A i \in 1..Len(board') :
              board'[i].plan = q /\ board'[i].draft = k <=> i = Len(board) + k
        <5>1. ASSUME NEW i \in 1..Len(board')
              PROVE  board'[i].plan = q /\ board'[i].draft = k <=> i = Len(board) + k
          <6>1. CASE i \in 1..Len(board)
            <7>1. board'[i].plan # q
              BY <1>1, <1>9, <2>2, <6>1, UndecidedHasNoTasks
            <7>2. i # Len(board) + k
              BY <1>9, <6>1
            <7>3. QED  BY <7>1, <7>2
          <6>2. CASE i > Len(board)
            <7>1. board'[i].plan = run /\ board'[i].draft = i - Len(board)
              BY <1>9, <6>2
            <7>2. QED  BY <1>9, <2>2, <7>1
          <6>3. QED  BY <1>9, <6>1, <6>2
        <5>2. QED  BY <5>1
      <4>3. QED  BY <4>1, <4>2 DEF TasksOf
    <3>2. OneTaskPerDraft(q)'
      BY <3>1 DEF OneTaskPerDraft
    <3>3. QED  BY <2>1, <3>2
  <2>3. CASE q # run
    <3>1. ASSUME NEW k  PROVE TasksOf(q, k)' = TasksOf(q, k)
      <4>1. Len(board) \in Nat /\ Len(board') = Len(board) + plans[run].drafts
        BY <1>9
      <4>2. \A i \in 1..Len(board) : i \in 1..Len(board') /\ board'[i] = board[i]
        BY <1>9, <4>1
      <4>3. ASSUME NEW i \in 1..Len(board'), i \notin 1..Len(board)
            PROVE  board'[i].plan = run
        <5>1. i > Len(board)
          BY <4>1, <4>3
        <5>2. QED  BY <1>9, <5>1
      <4>4. \A i \in 1..Len(board') :
              board'[i].plan = q => i \in 1..Len(board) /\ board'[i] = board[i]
        BY <2>3, <4>2, <4>3
      <4>5. QED  BY <4>2, <4>4, Zenon DEF TasksOf
    <3>2. Len(board') >= Len(board) /\ Len(board) \in Nat /\ Len(board') \in Nat
      BY <1>1, <1>9
    <3>3. OneTaskPerDraft(q)
      BY <1>2, DecidedOnceParts DEF PlannerInv
    <3>4. 1..Len(board) \subseteq 1..Len(board')
      BY <3>2
    <3>5. OneTaskPerDraft(q)'
      BY <2>1, <2>3, <3>1, <3>3, <3>4 DEF OneTaskPerDraft
    <3>6. QED  BY <2>1, <3>5
  <2>4. QED  BY <2>1, <2>2, <2>3
<1>6. ASSUME NEW i \in 1..Len(board')
      PROVE  TaskOfPlan(i)' /\ TaskInProject(i)'
  <2>1. CASE i \in 1..Len(board)
    <3>1. /\ TaskOfPlan(i) /\ TaskInProject(i) /\ board[i].plan \in 0..Len(plans)
          /\ board[i].plan # run /\ board[i].parent \in 0..Len(board)
      BY <1>1, <2>1, DecidedOnceParts, UndecidedHasNoTasks DEF PlannerInv, RowsExist
    <3>2. ASSUME board[i].plan # 0
          PROVE  /\ plans'[board[i].plan].project = plans[board[i].plan].project
                 /\ plans'[board[i].plan].conversation = plans[board[i].plan].conversation
                 /\ plans'[board[i].plan].drafts = plans[board[i].plan].drafts
                 /\ plans'[board[i].plan].status = plans[board[i].plan].status
      <4>1. board[i].plan \in 1..Len(plans)
        BY <3>1, <3>2 DEF PlannerInv, PlannerTypeOK
      <4>2. QED  BY <1>1, <3>1, <4>1, DecideEffect
    <3>3. board'[i] = board[i]
      BY <1>1, <2>1, <1>9
    <3>4. board[i].parent # 0 => board'[board[i].parent] = board[board[i].parent]
      BY <1>1, <3>1, <1>9
    <3>5. QED  BY <3>1, <3>2, <3>3, <3>4 DEF TaskOfPlan, TaskInProject, BelongsTo
  <2>2. CASE i > Len(board)
    <3>1. /\ board'[i].project = plans[run].project
          /\ board'[i].conversation = plans[run].conversation
          /\ board'[i].parent = 0 /\ board'[i].repo = NoRow
          /\ board'[i].plan = run /\ board'[i].draft = i - Len(board)
          /\ Len(board') = Len(board) + plans[run].drafts /\ Len(board) \in Nat
          /\ plans[run].drafts \in Nat
      BY <1>1, <2>2, <1>9
    <3>2. /\ plans'[run].project = plans[run].project
          /\ plans'[run].conversation = plans[run].conversation
          /\ plans'[run].drafts = plans[run].drafts
      BY <1>1, DecideEffect
    <3>3. i - Len(board) \in 1..plans[run].drafts
      BY <2>2, <3>1
    <3>4. TaskOfPlan(i)'
      BY <1>2, <3>1, <3>2, <3>3 DEF TaskOfPlan
    <3>5. BelongsTo(plans[run].conversation, plans[run].project)
      BY <1>1 DEF PlannerInv, RowsExist
    <3>6. TaskInProject(i)'
      BY <3>1, <3>5 DEF TaskInProject, BelongsTo
    <3>7. QED  BY <3>4, <3>6
  <2>3. QED  BY <1>1, <2>1, <2>2, <1>9
<1>7. PlanDecidedOnce'
  <2>1. (\A p \in 1..Len(plans) : ApprovalAgrees(p) /\ OneTaskPerDraft(p))'
    BY <1>5
  <2>2. (\A i \in 1..Len(board) : TaskOfPlan(i) /\ TaskInProject(i))'
    BY <1>6
  <2>3. QED  BY <2>1, <2>2, DecidedOnceNext
<1>8. QED  BY <1>3, <1>4, <1>7 DEF PlannerInv

LEMMA CreateTaskKeepsPlans ==
  ASSUME PlannerInv, NEW project \in Projects, NEW conversation \in Conversations \cup {NoRow},
         NEW parent \in 0..Len(board), NEW repo \in Repositories \cup {NoRow},
         CreateTask(project, conversation, parent, repo)
  PROVE  PlannerInv'
<1> DEFINE item == [project |-> project, conversation |-> conversation,
                    parent |-> parent, repo |-> repo, plan |-> 0, draft |-> 0]
<1>1. board' = Append(board, item) /\ UNCHANGED <<plans, approvals, decider>>
  BY DEF CreateTask
<1>2. /\ BelongsTo(conversation, project) /\ BelongsTo(repo, project)
      /\ parent # 0 => board[parent].project = project
  BY DEF CreateTask
<1>3. /\ item \in TaskRows /\ item.plan = 0 /\ item.parent = parent /\ item.project = project
      /\ item.conversation = conversation /\ item.repo = repo
  BY DEF TaskRows, PlannerInv, PlannerTypeOK
<1> HIDE DEF item
<1>4. /\ Len(board) \in Nat /\ Len(board') = Len(board) + 1
      /\ board' \in Seq(TaskRows)
      /\ \A i \in 1..Len(board) : board'[i] = board[i]
      /\ board'[Len(board) + 1] = item
  BY <1>1, <1>3 DEF PlannerInv, PlannerTypeOK
<1>5. PlannerTypeOK'
  BY <1>1, <1>4 DEF PlannerInv, PlannerTypeOK
<1>6. RowsExist'
  <2>1. ASSUME NEW i \in 1..Len(board')
        PROVE  board'[i].plan \in 0..Len(plans') /\ board'[i].parent \in 0..Len(board')
    <3>1. CASE i \in 1..Len(board)
      BY <1>1, <1>4, <3>1 DEF PlannerInv, RowsExist
    <3>2. CASE i = Len(board) + 1
      <4>1. Len(plans) \in Nat
        BY DEF PlannerInv, PlannerTypeOK
      <4>2. QED  BY <1>1, <1>3, <1>4, <3>2, <4>1
    <3>3. QED  BY <1>4, <3>1, <3>2
  <2>2. QED  BY <1>1, <2>1 DEF PlannerInv, RowsExist, BelongsTo
<1>7. ASSUME NEW p \in 1..Len(plans')
      PROVE  ApprovalAgrees(p)' /\ OneTaskPerDraft(p)'
  <2>1. ApprovalAgrees(p) /\ OneTaskPerDraft(p)
    BY <1>1, DecidedOnceParts DEF PlannerInv
  <2>2. ASSUME NEW k  PROVE TasksOf(p, k)' = TasksOf(p, k)
    <3>1. p # 0
      BY <1>1 DEF PlannerInv, PlannerTypeOK
    <3>2. QED  BY <1>3, <1>4, <3>1 DEF TasksOf
  <2>3. 1..Len(board) \subseteq 1..Len(board')
    BY <1>4
  <2>4. ApprovalAgrees(p)'
    BY <1>1, <2>1 DEF ApprovalAgrees
  <2>5. OneTaskPerDraft(p)'
    BY <1>1, <2>1, <2>2, <2>3 DEF OneTaskPerDraft
  <2>6. QED  BY <2>4, <2>5
<1>8. ASSUME NEW i \in 1..Len(board')
      PROVE  TaskOfPlan(i)' /\ TaskInProject(i)'
  <2>1. CASE i \in 1..Len(board)
    <3>1. /\ TaskOfPlan(i) /\ TaskInProject(i) /\ board[i].parent \in 0..Len(board)
      BY <2>1, DecidedOnceParts DEF PlannerInv, RowsExist
    <3>2. board'[i] = board[i]
      BY <1>4, <2>1
    <3>3. board[i].parent # 0 => board'[board[i].parent] = board[board[i].parent]
      BY <1>4, <3>1
    <3>4. QED  BY <1>1, <3>1, <3>2, <3>3 DEF TaskOfPlan, TaskInProject, BelongsTo
  <2>2. CASE i = Len(board) + 1
    <3>1. TaskOfPlan(i)'
      BY <1>3, <1>4, <2>2 DEF TaskOfPlan
    <3>2. parent # 0 => board'[parent].project = project
      BY <1>2, <1>4
    <3>3. TaskInProject(i)'
      BY <1>2, <1>3, <1>4, <2>2, <3>2 DEF TaskInProject, BelongsTo
    <3>4. QED  BY <3>1, <3>3
  <2>3. QED  BY <1>4, <2>1, <2>2
<1>9. PlanDecidedOnce'
  <2>1. (\A p \in 1..Len(plans) : ApprovalAgrees(p) /\ OneTaskPerDraft(p))'
    BY <1>7
  <2>2. (\A i \in 1..Len(board) : TaskOfPlan(i) /\ TaskInProject(i))'
    BY <1>8
  <2>3. QED  BY <2>1, <2>2, DecidedOnceNext
<1>10. QED  BY <1>5, <1>6, <1>9 DEF PlannerInv

LEMMA PlannerStepKeepsInv == PlannerInv /\ [PlannerNext]_plannerVars => PlannerInv'
<1> SUFFICES ASSUME PlannerInv, [PlannerNext]_plannerVars
             PROVE  PlannerInv'
  OBVIOUS
<1>1. CASE UNCHANGED plannerVars
  <2>1. /\ UNCHANGED <<plans, approvals, board>> /\ decider' = decider
    BY <1>1 DEF plannerVars
  <2>2. QED  BY <2>1, DeciderKeepsPlans DEF PlannerInv, PlannerTypeOK, RowsExist
<1>2. ASSUME NEW project \in Projects, NEW c \in Conversations \cup {NoRow},
             CreatePlannerRun(project, c)
      PROVE  PlannerInv'
  BY <1>2, CreateRunKeepsPlans
<1>3. ASSUME NEW d \in Deciders, NEW p \in 1..Len(plans), NEW choice \in {"approve", "reject"},
             ReadPlan(d, p, choice)
      PROVE  PlannerInv'
  BY <1>3, ReadPlanKeepsPlans
<1>4. ASSUME NEW d \in Deciders, ApprovePlannerRun(d) \/ RejectPlannerRun(d) \/ DecisionFails(d)
      PROVE  PlannerInv'
  BY <1>4, ApproveKeepsPlans, RejectKeepsPlans, FailureKeepsPlans
<1>5. ASSUME NEW project \in Projects, NEW c \in Conversations \cup {NoRow},
             NEW parent \in 0..Len(board), NEW r \in Repositories \cup {NoRow},
             CreateTask(project, c, parent, r)
      PROVE  PlannerInv'
  BY <1>5, CreateTaskKeepsPlans
<1>6. QED  BY <1>1, <1>2, <1>3, <1>4, <1>5, ZenonT(30) DEF PlannerNext

LEMMA PlannerInitInv == PlannerInit => PlannerInv
<1> SUFFICES ASSUME PlannerInit  PROVE PlannerInv
  OBVIOUS
<1>1. Len(plans) = 0 /\ Len(board) = 0 /\ 1..0 = {}
  BY DEF PlannerInit
<1>2. PlannerTypeOK
  BY <1>1 DEF PlannerInit, PlannerTypeOK, Undecided
<1>3. RowsExist
  BY <1>1 DEF PlannerInit, RowsExist, Undecided
<1>4. PlanDecidedOnce
  BY <1>1 DEF PlanDecidedOnce
<1>5. QED  BY <1>2, <1>3, <1>4 DEF PlannerInv

\* A planner run is decided once, and an approval makes one task of each of its drafts
\* (PlanDecidedOnce), however many requests, runs, drafts and tasks there are.
THEOREM PlansAreDecidedOnce == PlannerSpec => []PlanDecidedOnce
<1>1. PlannerInit => PlannerInv
  BY PlannerInitInv
<1>2. PlannerInv /\ [PlannerNext]_plannerVars => PlannerInv'
  BY PlannerStepKeepsInv
<1>3. PlannerInv => PlanDecidedOnce
  BY DEF PlannerInv
<1>4. QED  BY <1>1, <1>2, <1>3, PTL DEF PlannerSpec

\* New tasks are tasks of run q only where q is the run that is being approved.
LEMMA OthersKeepTasks ==
  ASSUME Len(board) \in Nat, Len(board') \in Nat, Len(board) =< Len(board'), NEW q, NEW k,
         \A i \in 1..Len(board) : board'[i] = board[i],
         \A i \in 1..Len(board') : i > Len(board) => board'[i].plan # q
  PROVE  TasksOf(q, k)' = TasksOf(q, k)
<1>1. \A i \in 1..Len(board) : i \in 1..Len(board') /\ board'[i] = board[i]
  OBVIOUS
<1>2. \A i \in 1..Len(board') :
        board'[i].plan = q => i \in 1..Len(board) /\ board'[i] = board[i]
  OBVIOUS
<1>3. QED  BY <1>1, <1>2, Zenon DEF TasksOf

\* What a step leaves of run p, whose decision was made before.
Stands(p) ==
  /\ plans'[p] = plans[p]
  /\ \A k \in 1..plans[p].drafts : TasksOf(p, k)' = TasksOf(p, k)

LEMMA DecisionStandsStep ==
  ASSUME PlannerInv, [PlannerNext]_plannerVars
  PROVE  /\ approvals \subseteq approvals'
         /\ \A p \in 1..Len(plans) : plans[p].status # "DRAFTED" => Stands(p)
<1>0. plans \in Seq(PlanRows) /\ board \in Seq(TaskRows)
  BY DEF PlannerInv, PlannerTypeOK
<1>1. CASE UNCHANGED <<plans, approvals, board>>
  BY <1>1, SameTasks DEF Stands
<1>2. ASSUME NEW project \in Projects, NEW c \in Conversations \cup {NoRow},
             CreatePlannerRun(project, c)
      PROVE  approvals \subseteq approvals' /\ \A p \in 1..Len(plans) : Stands(p)
  <2>1. PICK row : plans' = Append(plans, row)
    BY <1>2 DEF CreatePlannerRun
  <2>2. UNCHANGED <<approvals, board>>
    BY <1>2 DEF CreatePlannerRun
  <2>3. \A p \in 1..Len(plans) : plans'[p] = plans[p]
    BY <1>0, <2>1
  <2>4. QED  BY <2>2, <2>3, SameTasks DEF Stands
<1>3. ASSUME NEW d \in Deciders, ApprovePlannerRun(d) \/ RejectPlannerRun(d)
      PROVE  /\ approvals \subseteq approvals'
             /\ \A p \in 1..Len(plans) : plans[p].status # "DRAFTED" => Stands(p)
  <2> DEFINE run == decider[d].plan
  <2>1. /\ run \in 1..Len(plans) /\ MayDecide(run)
        /\ Decide(run, "APPROVED") \/ Decide(run, "REJECTED")
        /\ board' = board \o DraftedTasks(run) \/ UNCHANGED board
    BY <1>3 DEF ApprovePlannerRun, RejectPlannerRun, PlannerInv, RowsExist
  <2> HIDE DEF run
  <2>2. plans[run].status = "DRAFTED"
    BY <2>1, UndecidedHasNoTasks
  <2>3. approvals \subseteq approvals' /\ \A p \in 1..Len(plans) : p # run => plans'[p] = plans[p]
    BY <1>0, <2>1 DEF Decide
  <2>4. ASSUME NEW p \in 1..Len(plans), p # run, NEW k
        PROVE  TasksOf(p, k)' = TasksOf(p, k)
    <3>1. CASE UNCHANGED board
      BY <3>1, SameTasks
    <3>2. CASE board' = board \o DraftedTasks(run)
      <4>1. /\ Len(board) \in Nat /\ Len(board') \in Nat /\ Len(board) =< Len(board')
            /\ \A i \in 1..Len(board) : board'[i] = board[i]
            /\ \A i \in 1..Len(board') : i > Len(board) => board'[i].plan = run
        <5>1. /\ Len(board) \in Nat /\ plans[run].drafts \in Nat
              /\ Len(board') = Len(board) + plans[run].drafts
              /\ \A i \in 1..Len(board) : board'[i] = board[i]
              /\ \A i \in 1..Len(board') : i > Len(board) => board'[i].plan = run
          BY <2>1, <3>2, BoardGrows, Zenon
        <5>2. QED  BY <5>1
      <4>2. \A i \in 1..Len(board') : i > Len(board) => board'[i].plan # p
        BY <2>4, <4>1
      <4>3. QED  BY <4>1, <4>2, OthersKeepTasks
    <3>3. QED  BY <2>1, <3>1, <3>2
  <2>5. QED  BY <2>2, <2>3, <2>4 DEF Stands
<1>4. ASSUME NEW project \in Projects, NEW c \in Conversations \cup {NoRow},
             NEW parent \in 0..Len(board), NEW r \in Repositories \cup {NoRow},
             CreateTask(project, c, parent, r)
      PROVE  approvals \subseteq approvals' /\ \A p \in 1..Len(plans) : Stands(p)
  <2>1. PICK row : board' = Append(board, row) /\ row.plan = 0
    BY <1>4 DEF CreateTask
  <2>2. UNCHANGED <<plans, approvals>>
    BY <1>4 DEF CreateTask
  <2>3. /\ Len(board) \in Nat /\ Len(board') = Len(board) + 1
        /\ \A i \in 1..Len(board) : board'[i] = board[i]
        /\ board'[Len(board) + 1] = row
    BY <1>0, <2>1
  <2>4. ASSUME NEW p \in 1..Len(plans), NEW k
        PROVE  TasksOf(p, k)' = TasksOf(p, k)
    <3>1. \A i \in 1..Len(board') : i > Len(board) => board'[i].plan # p
      BY <1>0, <2>1, <2>3
    <3>2. QED  BY <2>3, <3>1, OthersKeepTasks
  <2>5. QED  BY <2>2, <2>4 DEF Stands
<1>5. QED
  BY <1>1, <1>2, <1>3, <1>4 DEF PlannerNext, plannerVars, ReadPlan, DecisionFails

\* A decision on a planner run stands (DecisionStands): no later request writes the run, takes
\* a task of it away or adds one, for any number of requests, runs, drafts and tasks.
THEOREM DecisionsStand == PlannerSpec => DecisionStands
<1>1. PlannerSpec => []PlannerInv
  BY PlannerInitInv, PlannerStepKeepsInv, PTL DEF PlannerSpec
<1>2. PlannerInv /\ [PlannerNext]_plannerVars =>
        [/\ approvals \subseteq approvals'
         /\ \A p \in 1..Len(plans) : plans[p].status # "DRAFTED" =>
              /\ plans'[p] = plans[p]
              /\ \A k \in 1..plans[p].drafts : TasksOf(p, k)' = TasksOf(p, k)]_plannerVars
  BY DecisionStandsStep DEF Stands
<1> QED
  BY <1>1, <1>2, PTL DEF PlannerSpec, DecisionStands

\* The first line of a tail that ends with a given line, less one.
TailBegins(last) == IF last > TailLines THEN last - TailLines ELSE 0

\* The columns that describe an object: a tail of what the container has printed; a log that
\* fits is there from its first line, and its size is right.
StreamSound(s) ==
  /\ s.first = TailBegins(s.last)
  /\ s.last <= printed
  /\ printed <= TailLines => Readable(s)

\* What a request has of the columns: no newer than they are, unless they were set back, and a
\* sync stores only what differs from the columns it loaded.
RowSound(v) ==
  /\ StreamSound(v.saw)
  /\ ~rewound => v.saw.last <= stream.last
  /\ v.pc = "persist" =>
       /\ StreamSound(v.new) /\ Readable(v.new)
       /\ v.new.first # v.saw.first \/ v.new.last # v.saw.last

\* Entries are owed only behind the cursor, and what was delivered is before it.
EntriesSound(v) ==
  /\ Ascending(v.got)
  /\ v.cursor.source = "control_plane" /\ v.pc # "done" =>
       /\ \A i \in 1 .. Len(v.got) : v.got[i] <= v.cursor.at
       /\ v.owed \subseteq {e \in entries : e > v.cursor.at}
       /\ v.lines = <<>>
  /\ v.cursor.source = "log_stream" \/ v.pc = "done" => v.owed = {}

Continues(v) == v.cursor.source = "log_stream" /\ v.pc # "done"

\* The line that a cursor points to, in a window that is not older than the one it was made for,
\* comes after the lines delivered.
LinesSound(v) ==
  /\ ~rewound => Ascending(v.lines)
  /\ ~rewound /\ Continues(v) =>
       \A i \in 1 .. Len(v.lines) :
         /\ v.lines[i] <= stream.first + v.cursor.at
         /\ v.saw # NoLines => v.lines[i] <= v.saw.first + v.cursor.at
  /\ printed <= TailLines => \A i \in 1 .. Len(v.lines) : v.lines[i] = i
  /\ printed <= TailLines /\ Continues(v) => Len(v.lines) = v.cursor.at
  /\ printed <= TailLines /\ ~rewound /\ Continues(v) =>
       /\ v.cursor.at <= stream.last
       /\ v.saw # NoLines => v.cursor.at <= v.saw.last
  /\ printed <= TailLines /\ ~rewound /\ v.pc = "done" /\ v.saw # NoLines => Len(v.lines) = v.saw.last

ReaderSound(v) ==
  /\ RowSound(v) /\ EntriesSound(v) /\ LinesSound(v)
  /\ v.pc = "idle" => v = NotReading

LogInv ==
  /\ LogTypeOK /\ StreamSound(stream)
  /\ \A r \in Readers : ReaderSound(reader[r])

-----------------------------------------------------------------------------
Rank(S, e) == Cardinality({x \in S : x <= e})

\* An entry's place in the order is the number of entries up to it.
LEMMA RankTyped ==
  ASSUME NEW S \in SUBSET Nat, IsFiniteSet(S), NEW e \in S
  PROVE  Rank(S, e) \in 1..Cardinality(S)
<1> DEFINE T == {x \in S : x <= e}
<1>1. T \in SUBSET S /\ e \in T
  OBVIOUS
<1>2. IsFiniteSet(T) /\ Cardinality(T) <= Cardinality(S)
  BY <1>1, FS_Subset
<1>3. Cardinality(T) \in Nat /\ Cardinality(S) \in Nat
  BY <1>2, FS_CardinalityType
<1>4. Cardinality(T) # 0
  BY <1>1, <1>2, FS_EmptySet
<1> HIDE DEF T
<1>5. Cardinality(T) \in 1..Cardinality(S)
  BY <1>2, <1>3, <1>4
<1>6. QED  BY <1>5 DEF Rank, T

LEMMA RankGrows ==
  ASSUME NEW S \in SUBSET Nat, IsFiniteSet(S), NEW e \in S, NEW f \in S, e < f
  PROVE  Rank(S, e) < Rank(S, f)
<1> DEFINE T == {x \in S : x <= e}
           U == {x \in S : x <= f}
<1>0. e \in Nat /\ f \in Nat /\ \A x \in S : x \in Nat
  OBVIOUS
<1>1. U \in SUBSET S /\ f \in U
  BY <1>0
<1>7. f \notin T
  BY <1>0
<1>8. T \in SUBSET U
  <2>1. ASSUME NEW x \in T  PROVE x \in U
    <3>1. x \in S /\ x <= e
      OBVIOUS
    <3>2. x \in Nat
      BY <1>0, <3>1
    <3>3. x <= f
      BY <1>0, <3>1, <3>2
    <3>4. QED  BY <3>1, <3>3
  <2>2. QED  BY <2>1
<1> HIDE DEF T, U
<1>2. IsFiniteSet(U)
  BY <1>1, FS_Subset
<1>3. IsFiniteSet(T) /\ Cardinality(T) <= Cardinality(U) /\ Cardinality(U) # Cardinality(T)
  BY <1>1, <1>2, <1>7, <1>8, FS_Subset
<1>4. Cardinality(T) \in Nat /\ Cardinality(U) \in Nat
  BY <1>2, <1>3, FS_CardinalityType
<1>5. Cardinality(T) < Cardinality(U)
  BY <1>3, <1>4
<1>6. QED  BY <1>5 DEF Rank, T, U

\* Ranks are a bijection, so every rank has its entry.
LEMMA RankTaken ==
  ASSUME NEW S \in SUBSET Nat, IsFiniteSet(S), NEW i \in 1..Cardinality(S)
  PROVE  \E e \in S : Rank(S, e) = i
<1> DEFINE n == Cardinality(S)
           f == [e \in S |-> Rank(S, e)]
<1>1. n \in Nat
  BY FS_CardinalityType
<1>2. f \in [S -> 1..n]
  BY RankTyped
<1>3. ASSUME NEW a \in S, NEW b \in S, a # b  PROVE f[a] # f[b]
  <2>1. f[a] = Rank(S, a) /\ f[b] = Rank(S, b) /\ f[a] \in 1..n /\ f[b] \in 1..n
    BY <1>2
  <2>2. CASE a < b
    BY <2>1, <2>2, <1>1, RankGrows
  <2>3. CASE b < a
    BY <2>1, <2>3, <1>1, RankGrows
  <2>4. QED  BY <1>3, <2>2, <2>3
<1> HIDE DEF f
<1>4. f \in Injection(S, 1..n)
  BY <1>2, <1>3 DEF Injection, IsInjective
<1>5. IsFiniteSet(1..n) /\ Cardinality(1..n) = n
  BY <1>1, FS_Interval
<1>6. f \in Surjection(S, 1..n)
  BY <1>4, <1>5, FS_Injection
<1>7. PICK e \in S : f[e] = i
  BY <1>6 DEF Surjection
<1>8. QED  BY <1>7 DEF f

\* The entries of _control_plane_entries: each once, in ascending order.
LEMMA InOrderOf ==
  ASSUME NEW S \in SUBSET Nat, IsFiniteSet(S)
  PROVE  /\ InOrder(S) \in Seq(S) /\ Len(InOrder(S)) = Cardinality(S)
         /\ Cardinality(S) \in Nat
         /\ \A i, j \in 1..Len(InOrder(S)) : i < j => InOrder(S)[i] < InOrder(S)[j]
         /\ \A e \in S : \E i \in 1..Len(InOrder(S)) : InOrder(S)[i] = e
<1> DEFINE n == Cardinality(S)
           E(i) == CHOOSE e \in S : Rank(S, e) = i
<1>1. n \in Nat
  BY FS_CardinalityType
<1>2. InOrder(S) = [i \in 1..n |-> E(i)]
  BY DEF InOrder, Rank
<1>3. ASSUME NEW i \in 1..n  PROVE E(i) \in S /\ Rank(S, E(i)) = i
  BY RankTaken
<1> HIDE DEF E
<1>4. InOrder(S) \in [1..n -> S]
  BY <1>2, <1>3
<1>5. InOrder(S) \in Seq(S) /\ Len(InOrder(S)) = n
  BY <1>1, <1>4
<1>6. ASSUME NEW i \in 1..n, NEW j \in 1..n, i < j  PROVE InOrder(S)[i] < InOrder(S)[j]
  <2>1. PICK a \in S, b \in S : a = E(i) /\ b = E(j) /\ Rank(S, a) = i /\ Rank(S, b) = j
    BY <1>3
  <2>2. a \in Nat /\ b \in Nat /\ i \in Nat /\ j \in Nat
    BY <1>1
  <2>3. a # b /\ ~(b < a)
    BY <1>6, <2>1, <2>2, RankGrows
  <2>4. QED  BY <1>2, <2>1, <2>2, <2>3
<1>7. ASSUME NEW e \in S  PROVE \E i \in 1..n : InOrder(S)[i] = e
  <2>1. PICK i \in 1..n : i = Rank(S, e)
    BY RankTyped
  <2>2. PICK a \in S : a = E(i) /\ Rank(S, a) = i
    BY <1>3
  <2>3. a \in Nat /\ e \in Nat /\ i \in Nat
    BY <1>1
  <2>4. ~(a < e) /\ ~(e < a)
    BY <2>1, <2>2, <2>3, RankGrows
  <2>5. QED  BY <1>2, <2>2, <2>3, <2>4
<1>8. QED  BY <1>1, <1>5, <1>6, <1>7

-----------------------------------------------------------------------------
LEMMA AscendingTogether ==
  ASSUME NEW a \in Seq(Nat), NEW b \in Seq(Nat), Ascending(a), Ascending(b),
         \A i \in 1..Len(a), j \in 1..Len(b) : a[i] < b[j]
  PROVE  Ascending(a \o b)
<1>1. Len(a) \in Nat /\ Len(b) \in Nat /\ Len(a \o b) = Len(a) + Len(b)
  OBVIOUS
<1>2. ASSUME NEW i \in 1..Len(a \o b) - 1  PROVE (a \o b)[i] < (a \o b)[i + 1]
  <2>1. i \in Nat /\ i >= 1 /\ i + 1 <= Len(a) + Len(b)
    BY <1>1
  <2>2. CASE i + 1 <= Len(a)
    <3>1. a[i] < a[i + 1]
      BY <1>1, <2>1, <2>2 DEF Ascending
    <3>2. (a \o b)[i] = a[i] /\ (a \o b)[i + 1] = a[i + 1]
      BY <1>1, <2>1, <2>2
    <3>3. QED  BY <3>1, <3>2
  <2>3. CASE i = Len(a)
    <3>1. a[i] < b[1]
      BY <1>1, <2>1, <2>3
    <3>2. (a \o b)[i] = a[i] /\ (a \o b)[i + 1] = b[1]
      BY <1>1, <2>1, <2>3
    <3>3. QED  BY <3>1, <3>2
  <2>4. CASE i > Len(a)
    <3> DEFINE j == i - Len(a)
    <3>1. j \in 1..Len(b) - 1 /\ i = Len(a) + j /\ j \in Nat
      BY <1>1, <2>1, <2>4
    <3>2. b[j] < b[j + 1]
      BY <3>1 DEF Ascending
    <3>3. (a \o b)[i] = b[j] /\ (a \o b)[i + 1] = b[j + 1]
      BY <1>1, <2>1, <2>4
    <3>4. QED  BY <3>2, <3>3
  <2>5. QED  BY <1>1, <2>1, <2>2, <2>3, <2>4
<1>3. QED  BY <1>2 DEF Ascending

LEMMA SequenceOf ==
  ASSUME NEW S, NEW n \in Nat, NEW f \in [1..n -> S]
  PROVE  f \in Seq(S) /\ Len(f) = n
OBVIOUS

LEMMA SequenceIn ==
  ASSUME NEW S, NEW T, NEW s \in Seq(S), S \subseteq T
  PROVE  s \in Seq(T)
<1>1. Len(s) \in Nat /\ s \in [1..Len(s) -> T]
  OBVIOUS
<1>2. QED  BY <1>1, SequenceOf

InEither(a, b, i) ==
  \/ i \in 1..Len(a) /\ (a \o b)[i] = a[i]
  \/ \E j \in 1..Len(b) : i = Len(a) + j /\ (a \o b)[i] = b[j]

LEMMA TogetherAt ==
  ASSUME NEW S, NEW a \in Seq(S), NEW b \in Seq(S), NEW i \in 1..Len(a \o b)
  PROVE  InEither(a, b, i)
<1>1. /\ Len(a) \in Nat /\ Len(b) \in Nat /\ Len(a \o b) = Len(a) + Len(b)
      /\ i \in Nat /\ i >= 1 /\ i <= Len(a) + Len(b)
  OBVIOUS
<1>2. CASE i <= Len(a)
  BY <1>1, <1>2 DEF InEither
<1>3. CASE i > Len(a)
  <2> DEFINE j == i - Len(a)
  <2>1. j \in 1..Len(b) /\ i = Len(a) + j
    BY <1>1, <1>3
  <2>2. (a \o b)[i] = b[j]
    BY <1>1, <1>3
  <2> HIDE DEF j
  <2>3. QED  BY <2>1, <2>2 DEF InEither
<1>4. QED  BY <1>1, <1>2, <1>3 DEF InEither

LEMMA NumbersOf ==
  ASSUME NEW m \in Nat, NEW s \in Seq(1..m)
  PROVE  /\ s \in Seq(Nat) /\ Len(s) \in Nat
         /\ \A i \in 1..Len(s) : s[i] \in Nat /\ s[i] >= 1 /\ s[i] <= m
<1> DEFINE S == 1..m
<1>1. S \subseteq Nat /\ s \in Seq(S) /\ \A x \in S : x \in Nat /\ x >= 1 /\ x <= m
  OBVIOUS
<1> HIDE DEF S
<1>2. s \in Seq(Nat) /\ Len(s) \in Nat /\ \A i \in 1..Len(s) : s[i] \in S
  BY <1>1, SequenceIn
<1>3. QED  BY <1>1, <1>2

LEMMA PrefixOf ==
  ASSUME NEW S, NEW s \in Seq(S), NEW m \in Nat, m <= Len(s)
  PROVE  /\ SubSeq(s, 1, m) \in Seq(S) /\ Len(SubSeq(s, 1, m)) = m
         /\ \A i \in 1..m : SubSeq(s, 1, m)[i] = s[i]
OBVIOUS

\* At most n entries behind the cursor; what is left out of them comes after all of them.
LEMMA PageOf ==
  ASSUME LogTypeOK, NEW c \in Cursor, NEW n \in Nat,
         NEW got, got = ControlPlane(c, n)
  PROVE  /\ got \in Seq(EntryIds) /\ Len(got) \in Nat /\ Len(got) <= n
         /\ \A i, j \in 1..Len(got) : i < j => got[i] < got[j]
         /\ c.source # "control_plane" => Len(got) = 0
         /\ c.source = "control_plane" =>
              /\ \A i \in 1..Len(got) : got[i] > c.at
              /\ \A e \in entries : e > c.at =>
                   \/ \E i \in 1..Len(got) : got[i] = e
                   \/ Len(got) = n /\ \A i \in 1..Len(got) : got[i] < e
<1> DEFINE S == {e \in entries : e > c.at}
           rest == IF c.source = "control_plane" THEN InOrder(S) ELSE <<>>
           m == IF Len(rest) < n THEN Len(rest) ELSE n
<1>0. MaxEntries \in Nat /\ entries \subseteq EntryIds
  BY LogBoundsAssumption DEF LogTypeOK
<1>1. S \in SUBSET EntryIds /\ S \in SUBSET Nat /\ \A e \in S : e > c.at
  <2>1. \A e \in EntryIds : e \in Nat
    BY <1>0 DEF EntryIds
  <2>2. S \in SUBSET EntryIds
    BY <1>0
  <2>3. QED  BY <2>1, <2>2
<1>2. IsFiniteSet(S)
  <2>1. IsFiniteSet(EntryIds)
    BY <1>0, FS_Interval DEF EntryIds
  <2> HIDE DEF S
  <2>2. QED  BY <1>1, <2>1, FS_Subset
<1> HIDE DEF S
<1>3. /\ rest \in Seq(S) /\ Len(rest) \in Nat
      /\ \A i, j \in 1..Len(rest) : i < j => rest[i] < rest[j]
  BY <1>1, <1>2, InOrderOf
<1>4. c.source = "control_plane" => \A e \in S : \E i \in 1..Len(rest) : rest[i] = e
  BY <1>1, <1>2, InOrderOf
<1>5. c.source # "control_plane" => Len(rest) = 0
  OBVIOUS
<1>6. got = SubSeq(rest, 1, m)
  BY DEF ControlPlane, S
<1> HIDE DEF rest
<1>7. m \in Nat /\ m <= n /\ m <= Len(rest)
  BY <1>3
<1>8. (m = n) \/ (m = Len(rest) /\ m < n)
  BY <1>3
<1> HIDE DEF m
<1>9. got \in Seq(S) /\ Len(got) = m /\ \A i \in 1..m : got[i] = rest[i]
  BY <1>3, <1>6, <1>7, PrefixOf
<1>10. ASSUME NEW i \in 1..Len(got), NEW j \in 1..Len(got), i < j  PROVE got[i] < got[j]
  <2>1. i \in 1..Len(rest) /\ j \in 1..Len(rest) /\ got[i] = rest[i] /\ got[j] = rest[j]
    BY <1>3, <1>7, <1>9
  <2>2. QED  BY <1>3, <1>10, <2>1
<1>11. ASSUME c.source = "control_plane", NEW e \in entries, e > c.at
       PROVE  \/ \E i \in 1..Len(got) : got[i] = e
              \/ Len(got) = n /\ \A i \in 1..Len(got) : got[i] < e
  <2>1. PICK k \in 1..Len(rest) : rest[k] = e
    BY <1>4, <1>11 DEF S
  <2>2. CASE k <= m
    <3>1. k \in 1..m
      BY <1>3, <1>7, <2>2
    <3>2. QED  BY <1>9, <2>1, <3>1
  <2>3. CASE k > m
    <3>1. m = n
      BY <1>3, <1>7, <1>8, <2>3
    <3>2. ASSUME NEW i \in 1..m  PROVE got[i] < e
      <4>1. i \in 1..Len(rest) /\ i < k
        BY <1>3, <1>7, <2>3
      <4>2. QED  BY <1>3, <1>9, <2>1, <4>1
    <3>3. QED  BY <1>9, <3>1, <3>2
  <2>4. QED  BY <1>3, <1>7, <2>2, <2>3
<1>12. got \in Seq(EntryIds) /\ \A i \in 1..Len(got) : got[i] > c.at
  <2>1. \A i \in 1..Len(got) : got[i] \in S
    BY <1>9
  <2>2. got \in Seq(EntryIds)
    BY <1>1, <1>9, SequenceIn
  <2>3. QED  BY <1>1, <2>1, <2>2
<1>13. QED  BY <1>5, <1>7, <1>9, <1>10, <1>11, <1>12

\* Where a page begins in the log stream.
Begin(c) == IF c.source = "log_stream" THEN c.at ELSE 0

\* At most n lines of a window, from where the cursor points; fewer only if the window ends.
LEMMA LinesOf ==
  ASSUME NEW s \in Stream, NEW c \in Cursor, NEW n \in Nat,
         NEW lines, lines = LogStream(s, c, n)
  PROVE  /\ lines \in Seq(1..MaxLines) /\ Len(lines) \in Nat /\ Len(lines) <= n
         /\ \A i \in 1..Len(lines) : lines[i] = s.first + Begin(c) + i
         /\ Len(lines) # 0 => Readable(s) /\ Begin(c) + Len(lines) <= s.size
         /\ Readable(s) /\ Len(lines) < n /\ Begin(c) <= s.size => Begin(c) + Len(lines) = s.size
<1> DEFINE b == Begin(c)
           L == 1..MaxLines
           rest == IF Readable(s) /\ b < s.size THEN [i \in 1..s.size - b |-> s.first + b + i] ELSE <<>>
           m == IF Len(rest) < n THEN Len(rest) ELSE n
<1>1. /\ b \in Nat /\ s.size \in Nat /\ s.first \in Nat /\ s.last \in Nat
      /\ s.last <= MaxLines /\ MaxLines \in Nat
  BY LogBoundsAssumption DEF Begin, Cursor, Stream, Lines
<1>2. lines = SubSeq(rest, 1, m)
  BY DEF LogStream, Begin
<1>5. SUFFICES /\ lines \in Seq(L) /\ Len(lines) \in Nat /\ Len(lines) <= n
               /\ \A i \in 1..Len(lines) : lines[i] = s.first + b + i
               /\ Len(lines) # 0 => Readable(s) /\ b + Len(lines) <= s.size
               /\ Readable(s) /\ Len(lines) < n /\ b <= s.size => b + Len(lines) = s.size
  OBVIOUS
<1> HIDE DEF b
<1>3. CASE Readable(s) /\ b < s.size
  <2>1. s.size = s.last - s.first
    BY <1>3 DEF Readable
  <2>2. rest = [i \in 1..s.size - b |-> s.first + b + i]
    BY <1>3
  <2> HIDE DEF rest
  <2>3. s.size - b \in Nat
    BY <1>1, <1>3
  <2>4. rest \in [1..s.size - b -> L]
    BY <1>1, <2>1, <2>2
  <2> HIDE DEF L
  <2>5. rest \in Seq(L) /\ Len(rest) = s.size - b
    BY <2>3, <2>4, SequenceOf
  <2>6. m \in Nat /\ m <= n /\ m <= Len(rest) /\ (m < n => m = Len(rest))
    BY <2>3, <2>5
  <2> HIDE DEF m
  <2>7. lines \in Seq(L) /\ Len(lines) = m /\ \A i \in 1..m : lines[i] = rest[i]
    BY <1>2, <2>5, <2>6, PrefixOf
  <2>8. ASSUME NEW i \in 1..m  PROVE lines[i] = s.first + b + i
    <3>1. i \in 1..s.size - b
      BY <2>3, <2>5, <2>6
    <3>2. QED  BY <2>2, <2>7, <3>1
  <2>9. Len(lines) \in Nat /\ Len(lines) <= n /\ b + Len(lines) <= s.size
    BY <1>1, <2>3, <2>5, <2>6, <2>7
  <2>10. ASSUME Len(lines) < n  PROVE b + Len(lines) = s.size
    BY <1>1, <2>3, <2>5, <2>6, <2>7, <2>10
  <2>11. \A i \in 1..Len(lines) : lines[i] = s.first + b + i
    BY <2>7, <2>8
  <2>12. QED  BY <1>3, <2>7, <2>9, <2>10, <2>11
<1>4. CASE ~(Readable(s) /\ b < s.size)
  <2>1. rest = <<>>
    BY <1>4
  <2> HIDE DEF rest
  <2>2. m = 0
    BY <2>1
  <2>3. lines = <<>>
    BY <1>2, <2>1, <2>2
  <2>4. lines \in Seq(L) /\ Len(lines) = 0
    BY <2>3
  <2>5. QED  BY <1>1, <1>4, <2>4
<1>6. QED  BY <1>3, <1>4

-----------------------------------------------------------------------------
LEMMA TailsGrow ==
  ASSUME NEW a \in Nat, NEW b \in Nat, a <= b
  PROVE  /\ TailBegins(a) \in Nat /\ TailBegins(b) \in Nat
         /\ TailBegins(a) <= TailBegins(b) /\ TailBegins(b) <= b
         /\ b <= TailLines => TailBegins(b) = 0
BY TailLinesAssumption DEF TailBegins

\* A step of one reader that writes nothing else.
LEMMA OneReader ==
  ASSUME LogInv, NEW r \in Readers, NEW w \in Reader,
         reader' = [reader EXCEPT ![r] = w],
         UNCHANGED <<entries, printed, seeded, stream, rewound>>, ReaderSound(w)
  PROVE  LogInv'
<1>1. LogTypeOK'
  BY DEF LogInv, LogTypeOK
<1>2. StreamSound(stream)'
  BY DEF LogInv, StreamSound, Readable
<1>3. ASSUME NEW q \in Readers  PROVE ReaderSound(reader[q])'
  <2>1. ReaderSound(reader'[q])
    BY DEF LogInv, LogTypeOK
  <2> DEFINE v == reader'[q]
  <2>2. ReaderSound(v)
    BY <2>1
  <2>3. (ReaderSound(reader[q]))' <=> ReaderSound(v)
    BY DEF ReaderSound, RowSound, EntriesSound, LinesSound, StreamSound, Readable, Continues
  <2>4. QED  BY <2>2, <2>3
<1>4. QED  BY <1>1, <1>2, <1>3 DEF LogInv

LEMMA ReaderParts ==
  ASSUME LogTypeOK, NEW r \in Readers
  PROVE  /\ reader[r] \in Reader
         /\ reader[r].cursor \in Cursor /\ reader[r].saw \in Stream /\ reader[r].new \in Stream
         /\ reader[r].got \in Seq(EntryIds) /\ reader[r].lines \in Seq(1..MaxLines)
         /\ reader[r].owed \subseteq EntryIds
BY DEF LogTypeOK, Reader

LEMMA LogTyped ==
  ASSUME LogTypeOK
  PROVE  /\ printed \in Nat /\ MaxLines \in Nat /\ printed <= MaxLines
         /\ stream \in Stream /\ NoLines \in Stream
         /\ \A s \in Stream : /\ s.first \in Nat /\ s.last \in Nat /\ s.size \in Nat
                             /\ s.size <= MaxLines /\ s.last <= MaxLines
BY LogBoundsAssumption DEF LogTypeOK, Lines, Stream, NoLines

\* A reader that has not begun.
LEMMA NothingRead ==
  ASSUME LogInv
  PROVE  NotReading \in Reader /\ ReaderSound(NotReading)
<1>1. Start \in Cursor /\ NoLines \in Stream
  BY LogBoundsAssumption DEF Start, Cursor, NoLines, Stream, Lines
<1>2. NotReading \in Reader
  BY <1>1 DEF NotReading, Reader
<1>3. StreamSound(NoLines) /\ NoLines.last <= stream.last
  BY LogTyped, TailLinesAssumption DEF LogInv, StreamSound, NoLines, TailBegins, Readable
<1>4. RowSound(NotReading)
  BY <1>3 DEF RowSound, NotReading
<1>5. EntriesSound(NotReading)
  BY <1>1 DEF EntriesSound, NotReading, Ascending, Start
<1>6. LinesSound(NotReading)
  BY DEF LinesSound, NotReading, Ascending, Continues, Start
<1>7. QED  BY <1>2, <1>4, <1>5, <1>6 DEF ReaderSound

LEMMA AskKeepsLog ==
  ASSUME LogInv, NEW r \in Readers, AskForPage(r)
  PROVE  LogInv'
<1> DEFINE v == reader[r]
<1>1. PICK pc \in {"sync", "page"} :
        reader' = [reader EXCEPT ![r].pc = pc, ![r].saw = stream,
                                 ![r].owed = IF reader[r].pc = "idle" THEN entries ELSE @]
  BY DEF AskForPage
<1> DEFINE w == [v EXCEPT !.pc = pc, !.saw = stream, !.owed = IF v.pc = "idle" THEN entries ELSE @]
<1>2. reader' = [reader EXCEPT ![r] = w]
  BY <1>1
<1>3. v \in Reader /\ stream \in Stream /\ entries \subseteq EntryIds /\ ReaderSound(v)
      /\ StreamSound(stream) /\ v.pc \in {"idle", "again"}
  BY ReaderParts, LogTyped DEF LogInv, LogTypeOK, AskForPage
<1>4. w \in Reader
  BY <1>3 DEF Reader
<1>5. /\ w.pc = pc /\ w.saw = stream /\ w.owed = IF v.pc = "idle" THEN entries ELSE v.owed
      /\ w.cursor = v.cursor /\ w.got = v.got /\ w.lines = v.lines
  BY <1>3 DEF Reader
<1> HIDE DEF w, v
<1>6. RowSound(w)
  BY <1>3, <1>5, LogTyped DEF RowSound, LogInv
<1>7. EntriesSound(w)
  <2>1. CASE v.pc = "again"
    BY <1>3, <1>5, <2>1 DEF EntriesSound, ReaderSound
  <2>2. CASE v.pc = "idle"
    <3>1. v = NotReading
      BY <1>3, <2>2 DEF ReaderSound
    <3>2. \A e \in entries : e > 0
      BY <1>3 DEF EntryIds
    <3>3. QED  BY <1>5, <3>1, <3>2 DEF EntriesSound, NotReading, Start, Ascending
  <2>3. QED  BY <1>3, <2>1, <2>2
<1>8. LinesSound(w)
  BY <1>3, <1>5 DEF LinesSound, ReaderSound, Continues
<1>9. ReaderSound(w)
  BY <1>5, <1>6, <1>7, <1>8 DEF ReaderSound
<1>10. UNCHANGED <<entries, printed, seeded, stream, rewound>>
  BY DEF AskForPage
<1>11. QED  BY <1>2, <1>4, <1>9, <1>10, OneReader

LEMMA WindowSound ==
  ASSUME LogTypeOK
  PROVE  Window \in Stream /\ StreamSound(Window) /\ Readable(Window)
<1>1. printed \in Nat /\ printed <= MaxLines /\ TailLines \in Nat /\ MaxLines \in Nat
  BY LogTyped, TailLinesAssumption
<1> DEFINE first == IF printed > TailLines THEN printed - TailLines ELSE 0
<1>2. first \in Lines /\ printed \in Lines /\ printed - first \in Lines /\ first = TailBegins(printed)
  BY <1>1 DEF Lines, TailBegins
<1>3. Window = [first |-> first, last |-> printed, size |-> printed - first]
  BY DEF Window
<1> HIDE DEF first
<1>4. Window \in Stream
  BY <1>2, <1>3 DEF Stream
<1>5. Window.first = first /\ Window.last = printed /\ Window.size = printed - first
  BY <1>3
<1>6. QED  BY <1>1, <1>2, <1>4, <1>5 DEF StreamSound, Readable

\* What a step does to a reader that has not been given more and has not set the columns.
LEMMA SameReading ==
  ASSUME LogInv, NEW r \in Readers, NEW w \in Reader,
         w.cursor = reader[r].cursor, w.got = reader[r].got, w.lines = reader[r].lines,
         w.owed = reader[r].owed, w.saw \in {reader[r].saw, stream, NoLines},
         reader[r].pc \notin {"idle", "done"}, w.pc \notin {"idle", "persist", "done"},
         reader' = [reader EXCEPT ![r] = w],
         UNCHANGED <<entries, printed, seeded, stream, rewound>>
  PROVE  LogInv'
<1> DEFINE v == reader[r]
<1>1. v \in Reader /\ ReaderSound(v) /\ StreamSound(stream)
  BY ReaderParts DEF LogInv
<1>2. ReaderSound(NotReading) /\ NotReading.saw = NoLines
  BY NothingRead DEF NotReading
<1>3. RowSound(w)
  BY <1>1, <1>2, LogTyped DEF RowSound, ReaderSound, LogInv
<1> HIDE DEF v
<1>4. EntriesSound(w)
  BY <1>1 DEF EntriesSound, ReaderSound, v
<1>5. LinesSound(w)
  BY <1>1 DEF LinesSound, ReaderSound, Continues, v
<1>6. ReaderSound(w)
  BY <1>3, <1>4, <1>5 DEF ReaderSound
<1>7. QED  BY <1>6, OneReader

LEMMA SyncKeepsLog ==
  ASSUME LogInv, NEW r \in Readers, SyncLogs(r)
  PROVE  LogInv'
<1> DEFINE v == reader[r]
<1>1. /\ v \in Reader /\ ReaderSound(v) /\ v.pc = "sync" /\ NoLines \in Stream
      /\ UNCHANGED <<entries, printed, seeded, stream, rewound>>
  BY ReaderParts, LogTyped DEF LogInv, SyncLogs
<1>2. CASE /\ Window.first # v.saw.first \/ Window.last # v.saw.last
           /\ reader' = [reader EXCEPT ![r].pc = "persist", ![r].new = Window]
  <2> DEFINE w == [v EXCEPT !.pc = "persist", !.new = Window]
  <2>1. Window \in Stream /\ StreamSound(Window) /\ Readable(Window)
    BY WindowSound DEF LogInv
  <2>2. reader' = [reader EXCEPT ![r] = w] /\ w \in Reader
    BY <1>1, <1>2, <2>1 DEF Reader
  <2>3. /\ w.pc = "persist" /\ w.new = Window /\ w.saw = v.saw /\ w.owed = v.owed
        /\ w.cursor = v.cursor /\ w.got = v.got /\ w.lines = v.lines
    BY <1>1 DEF Reader
  <2>4. Window.first # v.saw.first \/ Window.last # v.saw.last
    BY <1>2
  <2> HIDE DEF w, v
  <2>5. RowSound(w)
    BY <1>1, <2>1, <2>3, <2>4 DEF RowSound, ReaderSound
  <2>6. EntriesSound(w) /\ LinesSound(w)
    BY <1>1, <2>3 DEF EntriesSound, LinesSound, ReaderSound, Continues
  <2>7. ReaderSound(w)
    BY <2>3, <2>5, <2>6 DEF ReaderSound
  <2>8. QED  BY <1>1, <2>2, <2>7, OneReader
<1>3. CASE reader' = [reader EXCEPT ![r].pc = "page"]
  <2> DEFINE w == [v EXCEPT !.pc = "page"]
  <2>1. reader' = [reader EXCEPT ![r] = w] /\ w \in Reader
    BY <1>1, <1>3 DEF Reader
  <2>2. /\ w.pc = "page" /\ w.saw = v.saw /\ w.owed = v.owed
        /\ w.cursor = v.cursor /\ w.got = v.got /\ w.lines = v.lines
    BY <1>1 DEF Reader
  <2> HIDE DEF w
  <2>3. QED  BY <1>1, <2>1, <2>2, SameReading
<1>4. CASE reader' = [reader EXCEPT ![r].pc = "reload", ![r].saw = NoLines]
  <2> DEFINE w == [v EXCEPT !.pc = "reload", !.saw = NoLines]
  <2>1. reader' = [reader EXCEPT ![r] = w] /\ w \in Reader
    BY <1>1, <1>4 DEF Reader
  <2>2. /\ w.pc = "reload" /\ w.saw = NoLines /\ w.owed = v.owed
        /\ w.cursor = v.cursor /\ w.got = v.got /\ w.lines = v.lines
    BY <1>1 DEF Reader
  <2> HIDE DEF w
  <2>3. QED  BY <1>1, <2>1, <2>2, SameReading
<1>5. QED  BY <1>2, <1>3, <1>4 DEF SyncLogs

LEMMA ReloadKeepsLog ==
  ASSUME LogInv, NEW r \in Readers, ReloadRun(r)
  PROVE  LogInv'
<1> DEFINE v == reader[r]
           w == [v EXCEPT !.pc = "page", !.saw = stream]
<1>1. /\ v \in Reader /\ v.pc = "reload" /\ stream \in Stream
      /\ UNCHANGED <<entries, printed, seeded, stream, rewound>>
  BY ReaderParts, LogTyped DEF LogInv, ReloadRun
<1>2. reader' = [reader EXCEPT ![r] = w] /\ w \in Reader
  BY <1>1 DEF Reader, ReloadRun
<1>3. /\ w.pc = "page" /\ w.saw = stream /\ w.owed = v.owed
      /\ w.cursor = v.cursor /\ w.got = v.got /\ w.lines = v.lines
  BY <1>1 DEF Reader
<1> HIDE DEF w
<1>4. QED  BY <1>1, <1>2, <1>3, SameReading

LEMMA LostKeepsLog ==
  ASSUME LogInv, NEW r \in Readers, PageIsLost(r)
  PROVE  LogInv'
<1> DEFINE v == reader[r]
           w == [v EXCEPT !.pc = "again", !.saw = NoLines, !.new = NoLines]
<1>1. /\ v \in Reader /\ v.pc \in {"sync", "persist", "reload", "page"} /\ NoLines \in Stream
      /\ UNCHANGED <<entries, printed, seeded, stream, rewound>>
  BY ReaderParts, LogTyped DEF LogInv, PageIsLost
<1>2. reader' = [reader EXCEPT ![r] = w] /\ w \in Reader
  BY <1>1 DEF Reader, PageIsLost
<1>3. /\ w.pc = "again" /\ w.saw = NoLines /\ w.owed = v.owed
      /\ w.cursor = v.cursor /\ w.got = v.got /\ w.lines = v.lines
  BY <1>1 DEF Reader
<1> HIDE DEF w
<1>4. QED  BY <1>1, <1>2, <1>3, SameReading

LEMMA AgainKeepsLog ==
  ASSUME LogInv, NEW r \in Readers, ReadAgain(r)
  PROVE  LogInv'
BY NothingRead, OneReader DEF ReadAgain

LEMMA PrintKeepsLog ==
  ASSUME LogInv, PrintLine
  PROVE  LogInv'
<1>1. /\ printed \in Nat /\ printed' = printed + 1 /\ printed' \in Lines
      /\ UNCHANGED <<entries, seeded, stream, rewound, reader>> /\ TailLines \in Nat
  BY LogTyped, TailLinesAssumption DEF LogInv, PrintLine, Lines
<1>2. LogTypeOK'
  BY <1>1 DEF LogInv, LogTypeOK
<1>3. ASSUME NEW s \in Stream, StreamSound(s)  PROVE StreamSound(s)'
  BY <1>1, <1>3, LogTyped DEF StreamSound, Readable, LogInv, TailBegins
<1>4. StreamSound(stream)'
  <2>1. stream \in Stream /\ StreamSound(stream)
    BY LogTyped DEF LogInv
  <2>2. QED  BY <1>1, <2>1, LogTyped DEF StreamSound, Readable, LogInv, TailBegins
<1>5. ASSUME NEW r \in Readers  PROVE ReaderSound(reader[r])'
  <2> DEFINE v == reader[r]
  <2>1. ReaderSound(v) /\ v \in Reader /\ v.saw \in Stream /\ v.new \in Stream
    BY ReaderParts DEF LogInv
  <2>2. v' = v
    BY <1>1
  <2> HIDE DEF v
  <2>3. printed' <= TailLines => printed <= TailLines
    BY <1>1
  <2>4. RowSound(v)'
    BY <1>1, <2>1, <2>2, <2>3, LogTyped DEF RowSound, ReaderSound, StreamSound, Readable, LogInv,
       TailBegins
  <2>5. EntriesSound(v)'
    BY <1>1, <2>1, <2>2 DEF EntriesSound, ReaderSound
  <2>6. LinesSound(v)'
    BY <1>1, <2>1, <2>2, <2>3 DEF LinesSound, ReaderSound, Continues
  <2>7. ReaderSound(v)'
    BY <2>1, <2>2, <2>4, <2>5, <2>6 DEF ReaderSound
  <2>8. QED  BY <2>7 DEF v
<1>6. QED  BY <1>2, <1>4, <1>5 DEF LogInv

LEMMA SubmitKeepsLog ==
  ASSUME LogInv, SubmitRuntime
  PROVE  LogInv'
<1>1. UNCHANGED <<entries, printed, stream, rewound, reader>> /\ seeded' \in BOOLEAN
  BY DEF SubmitRuntime
<1>2. QED  BY <1>1 DEF LogInv, LogTypeOK, ReaderSound, RowSound, EntriesSound, LinesSound,
       StreamSound, Readable, Continues

LEMMA CommitKeepsLog ==
  ASSUME LogInv, NEW e \in EntryIds, CommitEntry(e)
  PROVE  LogInv'
<1>1. entries' = entries \cup {e} /\ UNCHANGED <<printed, seeded, stream, rewound, reader>>
  BY DEF CommitEntry
<1>2. LogTypeOK'
  BY <1>1 DEF LogInv, LogTypeOK
<1>3. StreamSound(stream)'
  BY <1>1 DEF LogInv, StreamSound, Readable
<1>4. ASSUME NEW r \in Readers  PROVE ReaderSound(reader[r])'
  <2> DEFINE v == reader[r]
  <2>1. ReaderSound(v) /\ v' = v
    BY <1>1 DEF LogInv
  <2> HIDE DEF v
  <2>2. RowSound(v)' /\ LinesSound(v)'
    BY <1>1, <2>1 DEF RowSound, LinesSound, ReaderSound, StreamSound, Readable, Continues
  <2>3. EntriesSound(v)'
    BY <1>1, <2>1 DEF EntriesSound, ReaderSound
  <2>4. ReaderSound(v)'
    BY <2>1, <2>2, <2>3 DEF ReaderSound
  <2>5. QED  BY <2>4 DEF v
<1>5. QED  BY <1>2, <1>3, <1>4 DEF LogInv

\* A column that keeps its loaded value is not written: only after a race is the size of one
\* object beside the lines of another, and only if the log no longer fits.
LEMMA PersistKeepsLog ==
  ASSUME LogInv, NEW r \in Readers, PersistStream(r)
  PROVE  LogInv'
<1> DEFINE v   == reader[r]
           new == v.new
           row == [new EXCEPT !.size = IF new.size = v.saw.size THEN stream.size ELSE new.size]
           w   == [v EXCEPT !.pc = "reload", !.saw = NoLines, !.new = NoLines]
<1>1. /\ v \in Reader /\ v.pc = "persist" /\ ReaderSound(v) /\ new \in Stream /\ v.saw \in Stream
      /\ stream \in Stream /\ NoLines \in Stream /\ printed \in Nat /\ StreamSound(stream)
      /\ rewound \in BOOLEAN
  BY ReaderParts, LogTyped DEF LogInv, PersistStream, LogTypeOK
<1>2. /\ stream' = row /\ rewound' = (rewound \/ new.last < stream.last)
      /\ reader' = [reader EXCEPT ![r] = w] /\ UNCHANGED <<entries, printed, seeded>>
  BY DEF PersistStream
<1>3. /\ w \in Reader /\ w.pc = "reload" /\ w.saw = NoLines /\ w.owed = v.owed
      /\ w.cursor = v.cursor /\ w.got = v.got /\ w.lines = v.lines
  BY <1>1 DEF Reader
<1>4. /\ row \in Stream /\ row.first = new.first /\ row.last = new.last
      /\ row.size = IF new.size = v.saw.size THEN stream.size ELSE new.size
  BY <1>1 DEF Stream
<1>5. /\ StreamSound(new) /\ Readable(new) /\ StreamSound(v.saw)
      /\ new.first # v.saw.first \/ new.last # v.saw.last
  BY <1>1 DEF ReaderSound, RowSound
<1>6. \A q \in Readers \ {r} : reader'[q] = reader[q]
  BY <1>2 DEF LogInv, LogTypeOK
<1>7. reader'[r] = w
  BY <1>2 DEF LogInv, LogTypeOK
<1>8. LogTypeOK'
  BY <1>1, <1>2, <1>3, <1>4 DEF LogInv, LogTypeOK
<1> HIDE DEF row, w, new, v
<1>9. StreamSound(row)
  <2>1. ASSUME printed <= TailLines  PROVE Readable(row)
    <3>1. TailLines \in Nat /\ new.first = 0 /\ v.saw.first = 0 /\ Readable(v.saw)
      BY <1>1, <1>5, <2>1, LogTyped, TailLinesAssumption DEF LogInv, StreamSound, TailBegins
    <3>2. new.size = new.last /\ v.saw.size = v.saw.last
      BY <1>1, <1>5, <3>1, LogTyped DEF LogInv, Readable
    <3>3. row.size = new.size
      BY <1>4, <1>5, <3>1, <3>2
    <3>4. QED  BY <1>4, <1>5, <3>3 DEF Readable
  <2>2. QED  BY <1>4, <1>5, <2>1 DEF StreamSound
<1>10. StreamSound(stream)'
  BY <1>2, <1>9 DEF StreamSound, Readable
<1>11. /\ ~rewound' => ~rewound /\ stream.last <= row.last /\ stream.first <= row.first
       /\ row.first \in Nat /\ row.last \in Nat /\ stream.first \in Nat /\ stream.last \in Nat
  <2>1. row.first \in Nat /\ row.last \in Nat /\ stream.first \in Nat /\ stream.last \in Nat
    BY <1>1, <1>4, LogTyped DEF LogInv
  <2>5. ~rewound' => ~rewound /\ ~(new.last < stream.last)
    BY <1>2, Zenon
  <2>2. ~rewound' => ~rewound /\ stream.last <= row.last
    BY <1>4, <2>1, <2>5
  <2>3. row.first = TailBegins(row.last) /\ stream.first = TailBegins(stream.last)
    BY <1>1, <1>9 DEF StreamSound
  <2>4. QED  BY <2>1, <2>2, <2>3, TailsGrow
<1>12. ASSUME NEW q \in Readers, q # r  PROVE ReaderSound(reader[q])'
  <2> DEFINE u == reader[q]
  <2>1. ReaderSound(u) /\ u \in Reader /\ u.saw \in Stream /\ u.cursor \in Cursor
        /\ u.lines \in Seq(1..MaxLines)
    BY ReaderParts DEF LogInv
  <2>2. u' = u
    BY <1>6, <1>12
  <2> HIDE DEF u
  <2>3. RowSound(u)'
    <3>1. u.saw.last \in Nat
      BY <2>1, LogTyped DEF LogInv
    <3>2. ~rewound' => u.saw.last <= stream'.last
      BY <1>2, <1>11, <2>1, <3>1 DEF ReaderSound, RowSound
    <3>3. QED  BY <1>2, <2>1, <2>2, <3>2 DEF RowSound, ReaderSound, StreamSound, Readable
  <2>4. EntriesSound(u)'
    BY <1>2, <2>1, <2>2 DEF EntriesSound, ReaderSound
  <2>5. LinesSound(u)'
    <3>1. u.cursor.at \in Nat /\ \A i \in 1..Len(u.lines) : u.lines[i] \in Nat
      BY <2>1, LogBoundsAssumption DEF Cursor
    <3>2. \A i \in 1..Len(u.lines) :
            ~rewound' /\ u.lines[i] <= stream.first + u.cursor.at
              => u.lines[i] <= stream'.first + u.cursor.at
      BY <1>2, <1>11, <3>1
    <3>3. ~rewound' /\ u.cursor.at <= stream.last => u.cursor.at <= stream'.last
      BY <1>2, <1>11, <3>1
    <3>4. ~rewound' => ~rewound
      BY <1>11
    <3>5. QED  BY <1>2, <2>1, <2>2, <3>2, <3>3, <3>4 DEF LinesSound, ReaderSound, Continues
  <2>6. QED  BY <2>1, <2>2, <2>3, <2>4, <2>5 DEF ReaderSound, u
<1>13. ReaderSound(reader[r])'
  <2> DEFINE u == reader[r]
  <2>1. u' = w /\ v.cursor \in Cursor /\ v.lines \in Seq(1..MaxLines)
    BY <1>7, ReaderParts DEF LogInv, v
  <2> HIDE DEF u
  <2>2. RowSound(u)'
    <3>1. StreamSound(NoLines)' /\ NoLines.last <= stream'.last
      BY <1>1, <1>2, <1>11, TailLinesAssumption DEF StreamSound, NoLines, TailBegins, Readable
    <3>2. QED  BY <1>3, <2>1, <3>1 DEF RowSound, StreamSound, Readable
  <2>3. EntriesSound(u)'
    BY <1>1, <1>2, <1>3, <2>1 DEF EntriesSound, ReaderSound
  <2>4. LinesSound(u)'
    <3>1. v.cursor.at \in Nat /\ \A i \in 1..Len(v.lines) : v.lines[i] \in Nat
      BY <2>1, LogBoundsAssumption DEF Cursor
    <3>2. \A i \in 1..Len(v.lines) :
            ~rewound' /\ v.lines[i] <= stream.first + v.cursor.at
              => v.lines[i] <= stream'.first + v.cursor.at
      BY <1>2, <1>11, <3>1
    <3>3. ~rewound' /\ v.cursor.at <= stream.last => v.cursor.at <= stream'.last
      BY <1>2, <1>11, <3>1
    <3>4. ~rewound' => ~rewound
      BY <1>11
    <3>5. QED
      BY <1>1, <1>2, <1>3, <2>1, <3>2, <3>3, <3>4 DEF LinesSound, ReaderSound, Continues
  <2>5. QED  BY <1>3, <2>1, <2>2, <2>3, <2>4 DEF ReaderSound, u
<1>14. QED  BY <1>8, <1>10, <1>12, <1>13 DEF LogInv

\* What a page has of the entries and of the stream, before it is cut to the limit.
PageGives(count, seen, got, lines, c) ==
  /\ count \in Nat /\ count >= 1 /\ got \in Seq(EntryIds) /\ Len(got) \in Nat
  /\ Len(got) <= count + 1 /\ lines \in Seq(1..MaxLines) /\ Len(lines) \in Nat
  /\ Len(lines) <= count + 1 - Len(got)
  /\ c \in Cursor /\ Begin(c) \in Nat /\ seen \in Stream /\ StreamSound(seen)
  /\ \A i \in 1..Len(lines) : lines[i] = seen.first + Begin(c) + i
  /\ Len(lines) # 0 => seen # NoLines /\ Readable(seen) /\ Begin(c) + Len(lines) <= seen.size
  /\ (Readable(seen) /\ Len(lines) < count + 1 - Len(got) /\ Begin(c) <= seen.size)
       => Begin(c) + Len(lines) = seen.size

LEMMA PageFacts ==
  ASSUME LogInv, NEW r \in Readers, reader[r].pc = "page",
         NEW count \in 1..MaxLimit, NEW seen \in {NoLines, reader[r].saw},
         NEW got, got = ControlPlane(reader[r].cursor, count + 1),
         NEW lines, lines = LogStream(seen, reader[r].cursor, count + 1 - Len(got)),
         NEW c, c = reader[r].cursor
  PROVE  PageGives(count, seen, got, lines, c)
<1> DEFINE v == reader[r]
           n == count + 1 - Len(got)
<1>1. v.saw \in Stream /\ NoLines \in Stream /\ c \in Cursor /\ seen \in Stream
  BY ReaderParts, LogTyped DEF LogInv
<1>2. StreamSound(seen)
  BY NothingRead DEF LogInv, ReaderSound, RowSound, NotReading
<1>3. count \in Nat /\ count >= 1 /\ count + 1 \in Nat
  BY MaxLimitAssumption
<1>4. got \in Seq(EntryIds) /\ Len(got) \in Nat /\ Len(got) <= count + 1
  BY <1>1, <1>3, PageOf DEF LogInv
<1>5. n \in Nat
  BY <1>3, <1>4
<1> HIDE DEF n
<1>6. /\ lines \in Seq(1..MaxLines) /\ Len(lines) \in Nat /\ Len(lines) <= n
      /\ \A i \in 1..Len(lines) : lines[i] = seen.first + Begin(c) + i
      /\ Len(lines) # 0 => Readable(seen) /\ Begin(c) + Len(lines) <= seen.size
      /\ Readable(seen) /\ Len(lines) < n /\ Begin(c) <= seen.size => Begin(c) + Len(lines) = seen.size
  <2>1. lines = LogStream(seen, c, n)
    BY DEF n
  <2>2. QED  BY <1>1, <1>5, <2>1, LinesOf
<1>7. Begin(c) \in Nat
  BY <1>1, LogBoundsAssumption DEF Begin, Cursor
<1>8. Len(lines) # 0 => seen # NoLines
  BY <1>6, <1>7 DEF NoLines
<1>9. QED  BY <1>1, <1>2, <1>3, <1>4, <1>6, <1>7, <1>8 DEF n, PageGives

\* The lines delivered, where the next ones begin: in either part of the log.
Preceding(v, b) ==
  /\ v.lines \in Seq(1..MaxLines) /\ Len(v.lines) \in Nat
  /\ \A i \in 1..Len(v.lines) : v.lines[i] \in Nat
  /\ ~rewound => /\ Ascending(v.lines)
                 /\ \A i \in 1..Len(v.lines) :
                      /\ v.lines[i] <= stream.first + b
                      /\ v.saw # NoLines => v.lines[i] <= v.saw.first + b
  /\ printed <= TailLines => /\ \A i \in 1..Len(v.lines) : v.lines[i] = i
                            /\ Len(v.lines) = b
  /\ printed <= TailLines /\ ~rewound => b <= stream.last /\ (v.saw # NoLines => b <= v.saw.last)

LEMMA LinesBefore ==
  ASSUME LogInv, NEW r \in Readers, reader[r].pc = "page",
         NEW v, v = reader[r], NEW b, b = Begin(v.cursor)
  PROVE  Preceding(v, b)
<1>1. /\ v \in Reader /\ ReaderSound(v) /\ v.lines \in Seq(1..MaxLines) /\ v.saw \in Stream
      /\ v.cursor \in Cursor
  BY ReaderParts DEF LogInv
<1>2. Len(v.lines) \in Nat /\ \A i \in 1..Len(v.lines) : v.lines[i] \in Nat
  BY <1>1, LogBoundsAssumption, NumbersOf
<1>3. CASE v.cursor.source = "log_stream"
  <2>1. Continues(v) /\ b = v.cursor.at
    BY <1>3 DEF Continues, Begin
  <2>2. QED  BY <1>1, <1>2, <2>1 DEF ReaderSound, LinesSound, Preceding
<1>4. CASE v.cursor.source = "control_plane"
  <2>1. v.lines = <<>> /\ b = 0
    BY <1>1, <1>4 DEF ReaderSound, EntriesSound, Begin
  <2>2. stream.last \in Nat /\ v.saw.last \in Nat
    BY <1>1, LogTyped DEF LogInv
  <2>3. QED  BY <1>1, <2>1, <2>2 DEF Ascending, Preceding
<1>5. QED  BY <1>1, <1>3, <1>4 DEF Cursor

\* The entries of a page: in order after those delivered before, and what is owed still is
\* behind the last of them.
EntriesFollow(v, count, got) ==
  LET page  == IF Len(got) > count THEN SubSeq(got, 1, count) ELSE got
      taken == v.got \o page
      owed  == v.owed \ {page[i] : i \in 1..Len(page)}
  IN /\ Len(page) = IF Len(got) > count THEN count ELSE Len(got)
     /\ taken \in Seq(EntryIds) /\ Ascending(taken) /\ owed \subseteq EntryIds
     /\ Len(got) <= count => owed = {}
     /\ Len(got) >= count =>
          /\ v.cursor.source = "control_plane" /\ got[count] \in EntryIds
          /\ \A i \in 1..Len(taken) : taken[i] <= got[count]
          /\ owed \subseteq {e \in entries : e > got[count]}

LEMMA EntriesOfPage ==
  ASSUME LogInv, NEW r \in Readers, reader[r].pc = "page", NEW count \in 1..MaxLimit,
         NEW v, v = reader[r], NEW got, got = ControlPlane(v.cursor, count + 1)
  PROVE  EntriesFollow(v, count, got)
<1> DEFINE page  == IF Len(got) > count THEN SubSeq(got, 1, count) ELSE got
           taken == v.got \o page
           owed  == v.owed \ {page[i] : i \in 1..Len(page)}
<1> DEFINE c == v.cursor
           k == IF Len(got) > count THEN count ELSE Len(got)
<1>1. /\ ReaderSound(v) /\ c \in Cursor /\ v.got \in Seq(EntryIds) /\ v.owed \subseteq EntryIds
      /\ v.pc = "page" /\ count \in Nat /\ count >= 1
  BY ReaderParts, MaxLimitAssumption DEF LogInv
<1>2. /\ got \in Seq(EntryIds) /\ Len(got) \in Nat /\ Len(got) <= count + 1
      /\ \A i, j \in 1..Len(got) : i < j => got[i] < got[j]
      /\ c.source # "control_plane" => Len(got) = 0
      /\ c.source = "control_plane" =>
           /\ \A i \in 1..Len(got) : got[i] > c.at
           /\ \A e \in entries : e > c.at =>
                \/ \E i \in 1..Len(got) : got[i] = e
                \/ Len(got) = count + 1 /\ \A i \in 1..Len(got) : got[i] < e
  <2> DEFINE n == count + 1
  <2>1. n \in Nat /\ got = ControlPlane(c, n) /\ LogTypeOK
    BY <1>1 DEF LogInv
  <2> HIDE DEF n, c
  <2>2. /\ got \in Seq(EntryIds) /\ Len(got) \in Nat /\ Len(got) <= n
        /\ \A i, j \in 1..Len(got) : i < j => got[i] < got[j]
        /\ c.source # "control_plane" => Len(got) = 0
        /\ c.source = "control_plane" =>
             /\ \A i \in 1..Len(got) : got[i] > c.at
             /\ \A e \in entries : e > c.at =>
                  \/ \E i \in 1..Len(got) : got[i] = e
                  \/ Len(got) = n /\ \A i \in 1..Len(got) : got[i] < e
    BY <1>1, <2>1, PageOf
  <2>3. QED  BY <2>2 DEF n
<1>3. /\ Ascending(v.got)
      /\ c.source = "control_plane" => /\ \A i \in 1..Len(v.got) : v.got[i] <= c.at
                                       /\ v.owed \subseteq {e \in entries : e > c.at}
      /\ c.source = "log_stream" => v.owed = {}
  BY <1>1 DEF ReaderSound, EntriesSound
<1>4. c.source \in {"control_plane", "log_stream"} /\ c.at \in Nat
  BY <1>1, LogBoundsAssumption DEF Cursor
<1> HIDE DEF c
<1>5. k \in Nat /\ k <= Len(got) /\ k <= count
  BY <1>1, <1>2
<1>6. page \in Seq(EntryIds) /\ Len(page) = k /\ \A i \in 1..k : page[i] = got[i]
  BY <1>1, <1>2, PrefixOf
<1>15. /\ taken = v.got \o page /\ owed = v.owed \ {page[i] : i \in 1..Len(page)}
       /\ k = IF Len(got) > count THEN count ELSE Len(got)
  OBVIOUS
<1> HIDE DEF page, taken, owed, k
<1>7. /\ v.got \in Seq(Nat) /\ Len(v.got) \in Nat /\ \A i \in 1..Len(v.got) : v.got[i] \in Nat
      /\ page \in Seq(Nat) /\ \A i \in 1..Len(got) : got[i] \in Nat
  BY <1>1, <1>2, <1>6, NumbersOf, LogBoundsAssumption DEF EntryIds
<1>8. ASSUME NEW i \in 1..Len(got), Len(got) >= count, i <= count  PROVE got[i] <= got[count]
  <2>1. count \in 1..Len(got) /\ i \in Nat
    BY <1>1, <1>2, <1>8
  <2>2. i = count \/ i < count
    BY <1>1, <1>8, <2>1
  <2>3. QED  BY <1>2, <1>7, <2>1, <2>2
<1>9. taken \in Seq(EntryIds) /\ Ascending(taken)
  <2>1. taken \in Seq(EntryIds)
    BY <1>1, <1>6, <1>15
  <2>2. Ascending(page)
    <3>1. ASSUME NEW i \in 1..Len(page) - 1  PROVE page[i] < page[i + 1]
      <4>1. i \in 1..Len(got) /\ i + 1 \in 1..Len(got) /\ i < i + 1 /\ i \in 1..k /\ i + 1 \in 1..k
        BY <1>2, <1>5, <1>6
      <4>2. QED  BY <1>2, <1>6, <4>1
    <3>2. QED  BY <3>1 DEF Ascending
  <2>3. ASSUME NEW i \in 1..Len(v.got), NEW j \in 1..Len(page)  PROVE v.got[i] < page[j]
    <3>1. j \in 1..Len(got) /\ page[j] = got[j] /\ c.source = "control_plane"
      BY <1>2, <1>4, <1>5, <1>6
    <3>2. v.got[i] <= c.at /\ got[j] > c.at
      BY <1>2, <1>3, <3>1
    <3>3. PICK x \in Nat, y \in Nat, z \in Nat : x = v.got[i] /\ y = page[j] /\ z = c.at
      BY <1>4, <1>7, <3>1
    <3>4. x <= z /\ y > z
      BY <3>1, <3>2, <3>3
    <3>5. x < y
      BY <3>4
    <3>6. QED  BY <3>3, <3>5
  <2>4. QED  BY <1>3, <1>7, <1>15, <2>1, <2>2, <2>3, AscendingTogether
<1>10. ASSUME NEW e \in owed
       PROVE  Len(got) = count + 1 /\ got[count] < e /\ e \in entries
  <2>1. e \in entries /\ e > c.at /\ c.source = "control_plane" /\ \A i \in 1..k : got[i] # e
    BY <1>3, <1>4, <1>6, <1>15
  <2>2. e \in Nat
    BY <1>1, <1>15, LogBoundsAssumption DEF EntryIds
  <2>3. CASE Len(got) = count + 1 /\ \A i \in 1..Len(got) : got[i] < e
    BY <1>1, <2>1, <2>3
  <2>4. ASSUME NEW i \in 1..Len(got), got[i] = e
        PROVE  Len(got) = count + 1 /\ got[count] < e
    <3>1. i > k
      BY <1>5, <2>1, <2>4
    <3>2. Len(got) = count + 1 /\ i = count + 1
      BY <1>1, <1>2, <1>5, <3>1 DEF k
    <3>3. count \in 1..Len(got) /\ count < i
      BY <1>1, <3>2
    <3>4. QED  BY <1>2, <2>4, <3>2, <3>3
  <2>5. QED  BY <1>2, <2>1, <2>3, <2>4
<1>11. Len(got) <= count => owed = {}
  BY <1>1, <1>10
<1>12. ASSUME Len(got) >= count
       PROVE  /\ c.source = "control_plane" /\ got[count] \in EntryIds
              /\ \A i \in 1..Len(taken) : taken[i] <= got[count]
              /\ owed \subseteq {e \in entries : e > got[count]}
  <2>1. c.source = "control_plane" /\ count \in 1..Len(got)
    BY <1>1, <1>2, <1>12
  <2>2. got[count] \in EntryIds /\ got[count] \in Nat /\ got[count] > c.at
    BY <1>2, <1>7, <2>1
  <2>3. ASSUME NEW i \in 1..Len(taken)  PROVE taken[i] <= got[count]
    <3>1. CASE i \in 1..Len(v.got) /\ taken[i] = v.got[i]
      <4>1. v.got[i] <= c.at
        BY <1>3, <2>1, <3>1
      <4>2. v.got[i] \in Nat
        BY <1>7, <3>1
      <4>3. QED  BY <1>4, <2>2, <3>1, <4>1, <4>2
    <3>2. ASSUME NEW j \in 1..Len(page), taken[i] = page[j]
          PROVE  taken[i] <= got[count]
      <4>1. j \in 1..Len(got) /\ j <= count /\ page[j] = got[j]
        BY <1>1, <1>2, <1>5, <1>6
      <4>2. QED  BY <1>8, <1>12, <3>2, <4>1
    <3>3. v.got \in Seq(EntryIds) /\ page \in Seq(EntryIds) /\ i \in 1..Len(v.got \o page)
      BY <1>1, <1>6, <1>15
    <3>4. \/ i \in 1..Len(v.got) /\ (v.got \o page)[i] = v.got[i]
          \/ \E j \in 1..Len(page) : i = Len(v.got) + j /\ (v.got \o page)[i] = page[j]
      <4> DEFINE a == v.got
      <4>1. a \in Seq(EntryIds) /\ i \in 1..Len(a \o page)
        BY <3>3
      <4> HIDE DEF a
      <4>2. InEither(a, page, i)
        BY <3>3, <4>1, TogetherAt
      <4>3. QED  BY <4>2 DEF a, InEither
    <3>5. QED  BY <1>15, <3>1, <3>2, <3>4, Zenon
  <2>4. QED  BY <1>10, <2>1, <2>2, <2>3
<1>13. owed \subseteq EntryIds
  BY <1>1, <1>15
<1>14. QED  BY <1>6, <1>9, <1>11, <1>12, <1>13, <1>15 DEF page, taken, owed, c, EntriesFollow

\* Lines that follow each other in a window, after lines delivered before.
Follow(m, a, extra, f, g, b) ==
  LET sent == a \o extra
  IN /\ sent \in Seq(1..m) /\ Len(sent) = Len(a) + Len(extra)
     /\ (Ascending(a) /\ (Len(extra) # 0 => \A i \in 1..Len(a) : a[i] <= f + b)) => Ascending(sent)
     /\ (f <= g /\ \A i \in 1..Len(a) : a[i] <= g + b)
          => \A i \in 1..Len(sent) : sent[i] <= g + (b + Len(extra))
     /\ (f = 0 /\ Len(a) = b /\ \A i \in 1..Len(a) : a[i] = i)
          => \A i \in 1..Len(sent) : sent[i] = i

LEMMA LinesContinue ==
  ASSUME NEW m \in Nat, NEW a \in Seq(1..m), NEW extra \in Seq(1..m),
         NEW f \in Nat, NEW g \in Nat, NEW b \in Nat,
         \A i \in 1..Len(extra) : extra[i] = f + b + i
  PROVE  Follow(m, a, extra, f, g, b)
<1> DEFINE L == 1..m
           sent == a \o extra
<1>1. a \in Seq(L) /\ extra \in Seq(L) /\ a \in Seq(Nat) /\ extra \in Seq(Nat)
      /\ Len(a) \in Nat /\ Len(extra) \in Nat /\ \A i \in 1..Len(a) : a[i] \in Nat
  BY NumbersOf
<1> HIDE DEF L
<1>2. sent \in Seq(L) /\ Len(sent) = Len(a) + Len(extra)
  BY <1>1
<1> HIDE DEF sent
<1>3. ASSUME NEW i \in 1..Len(sent)
      PROVE  \/ i \in 1..Len(a) /\ sent[i] = a[i]
             \/ \E j \in 1..Len(extra) : i = Len(a) + j /\ sent[i] = f + b + j
  <2>1. i \in 1..Len(a \o extra)
    BY DEF sent
  <2>2. InEither(a, extra, i)
    BY <1>1, <2>1, TogetherAt
  <2>3. QED  BY <2>2 DEF InEither, sent
<1>4. ASSUME Ascending(a), Len(extra) # 0 => \A i \in 1..Len(a) : a[i] <= f + b
      PROVE  Ascending(sent)
  <2>1. ASSUME NEW i \in 1..Len(extra) - 1  PROVE extra[i] < extra[i + 1]
    <3>1. i \in 1..Len(extra) /\ i + 1 \in 1..Len(extra) /\ i \in Nat
      BY <1>1
    <3>2. extra[i] = f + b + i /\ extra[i + 1] = f + b + (i + 1)
      BY <3>1
    <3>3. QED  BY <3>1, <3>2
  <2>2. ASSUME NEW i \in 1..Len(a), NEW j \in 1..Len(extra)  PROVE a[i] < extra[j]
    <3>1. extra[j] = f + b + j /\ j \in Nat /\ j >= 1 /\ a[i] \in Nat /\ a[i] <= f + b
      BY <1>1, <1>4
    <3>2. QED  BY <3>1
  <2>3. Ascending(extra)
    BY <2>1 DEF Ascending
  <2>4. QED  BY <1>1, <1>4, <2>2, <2>3, AscendingTogether DEF sent
<1>5. ASSUME f <= g, \A i \in 1..Len(a) : a[i] <= g + b, NEW i \in 1..Len(sent)
      PROVE  sent[i] <= g + (b + Len(extra))
  <2>1. CASE i \in 1..Len(a) /\ sent[i] = a[i]
    <3>1. a[i] \in Nat /\ a[i] <= g + b
      BY <1>1, <1>5, <2>1
    <3>2. QED  BY <1>1, <2>1, <3>1
  <2>2. ASSUME NEW j \in 1..Len(extra), sent[i] = f + b + j
        PROVE  sent[i] <= g + (b + Len(extra))
    BY <1>1, <1>5, <2>2
  <2>3. QED  BY <1>3, <2>1, <2>2
<1>6. ASSUME f = 0, Len(a) = b, \A i \in 1..Len(a) : a[i] = i, NEW i \in 1..Len(sent)
      PROVE  sent[i] = i
  BY <1>1, <1>3, <1>6
<1>7. QED  BY <1>2, <1>4, <1>5, <1>6 DEF L, sent, Follow

\* The lines of a page continue those delivered before: k of the lines that were found.
LinesFollow(seen, count, got, lines, k, sent, b) ==
  /\ sent \in Seq(1..MaxLines)
  /\ ~rewound => Ascending(sent) /\ \A i \in 1..Len(sent) : sent[i] <= stream.first + (b + k)
  /\ printed <= TailLines => Len(sent) = b + k /\ \A i \in 1..Len(sent) : sent[i] = i
  /\ Len(lines) # 0 => b + Len(lines) <= MaxLines
  /\ (printed <= TailLines /\ ~rewound /\ Len(lines) # 0) => b + Len(lines) <= stream.last
  /\ (printed <= TailLines /\ ~rewound /\ seen # NoLines /\ k = Len(lines)
        /\ Len(got) + Len(lines) <= count) => Len(sent) = seen.last

LEMMA LinesOfPage ==
  ASSUME LogInv, NEW r \in Readers, reader[r].pc = "page", NEW count \in 1..MaxLimit,
         NEW v, v = reader[r], NEW seen \in {NoLines, v.saw},
         NEW got, got = ControlPlane(v.cursor, count + 1),
         NEW lines, lines = LogStream(seen, v.cursor, count + 1 - Len(got)),
         NEW k \in Nat, k <= Len(lines),
         NEW extra \in Seq(1..MaxLines), Len(extra) = k, \A i \in 1..k : extra[i] = lines[i],
         NEW sent, sent = v.lines \o extra,
         NEW b, b = Begin(v.cursor)
  PROVE  LinesFollow(seen, count, got, lines, k, sent, b)
<1>1. /\ count \in Nat /\ Len(got) \in Nat /\ Len(lines) \in Nat /\ b \in Nat
      /\ seen \in Stream /\ StreamSound(seen)
      /\ \A i \in 1..Len(lines) : lines[i] = seen.first + b + i
      /\ Len(lines) # 0 => seen # NoLines /\ Readable(seen) /\ b + Len(lines) <= seen.size
      /\ (Readable(seen) /\ Len(lines) < count + 1 - Len(got) /\ b <= seen.size)
           => b + Len(lines) = seen.size
  <2> DEFINE c == v.cursor
  <2>1. c = reader[r].cursor /\ seen \in {NoLines, reader[r].saw} /\ b = Begin(c)
        /\ got = ControlPlane(reader[r].cursor, count + 1)
        /\ lines = LogStream(seen, reader[r].cursor, count + 1 - Len(got))
    OBVIOUS
  <2> HIDE DEF c
  <2>2. PageGives(count, seen, got, lines, c)
    BY <2>1, PageFacts
  <2>3. QED  BY <2>1, <2>2 DEF PageGives
<1>2. /\ v.lines \in Seq(1..MaxLines) /\ Len(v.lines) \in Nat
      /\ \A i \in 1..Len(v.lines) : v.lines[i] \in Nat
      /\ ~rewound => /\ Ascending(v.lines)
                     /\ \A i \in 1..Len(v.lines) :
                          /\ v.lines[i] <= stream.first + b
                          /\ v.saw # NoLines => v.lines[i] <= v.saw.first + b
      /\ printed <= TailLines => /\ \A i \in 1..Len(v.lines) : v.lines[i] = i
                                /\ Len(v.lines) = b
      /\ printed <= TailLines /\ ~rewound => b <= stream.last /\ (v.saw # NoLines => b <= v.saw.last)
  <2>1. Preceding(v, b)
    BY LinesBefore
  <2>2. QED  BY <2>1 DEF Preceding
<1>3. /\ stream.first \in Nat /\ stream.last \in Nat /\ seen.first \in Nat /\ seen.last \in Nat
      /\ seen.size \in Nat /\ seen.size <= MaxLines /\ MaxLines \in Nat /\ printed \in Nat
      /\ TailLines \in Nat
  <2>1. seen \in Stream /\ LogTypeOK
    BY <1>1 DEF LogInv
  <2>2. QED  BY <2>1, LogTyped, TailLinesAssumption
<1>4. ~rewound => seen.last <= stream.last /\ seen.first <= stream.first
  <2>1. ~rewound => v.saw.last <= stream.last
    BY DEF LogInv, ReaderSound, RowSound
  <2>2. NoLines.last <= stream.last
    BY <1>3 DEF NoLines
  <2>3. ~rewound => seen.last <= stream.last
    BY <2>1, <2>2
  <2>4. seen.first = TailBegins(seen.last) /\ stream.first = TailBegins(stream.last)
    BY <1>1 DEF StreamSound, LogInv
  <2>5. QED  BY <1>3, <2>3, <2>4, TailsGrow
<1>5. printed <= TailLines => /\ seen.first = 0 /\ Readable(seen) /\ seen.size = seen.last
  BY <1>1, <1>3, TailsGrow DEF StreamSound, Readable, TailBegins
<1>6. /\ \A i \in 1..Len(extra) : extra[i] = seen.first + b + i
      /\ Len(extra) # 0 => seen # NoLines /\ seen = v.saw
  <2>1. ASSUME NEW i \in 1..Len(extra)  PROVE extra[i] = seen.first + b + i
    <3>1. i \in 1..k /\ i \in 1..Len(lines)
      BY <1>1
    <3>2. QED  BY <1>1, <3>1
  <2>2. Len(extra) # 0 => Len(lines) # 0
    BY <1>1
  <2>3. QED  BY <1>1, <2>1, <2>2
<1>7. /\ sent \in Seq(1..MaxLines) /\ Len(sent) = Len(v.lines) + Len(extra)
      /\ (Ascending(v.lines) /\ (Len(extra) # 0 => \A i \in 1..Len(v.lines) : v.lines[i] <= seen.first + b))
           => Ascending(sent)
      /\ (seen.first <= stream.first /\ \A i \in 1..Len(v.lines) : v.lines[i] <= stream.first + b)
           => \A i \in 1..Len(sent) : sent[i] <= stream.first + (b + Len(extra))
      /\ (seen.first = 0 /\ Len(v.lines) = b /\ \A i \in 1..Len(v.lines) : v.lines[i] = i)
           => \A i \in 1..Len(sent) : sent[i] = i
  <2> DEFINE a == v.lines
             f == seen.first
             g == stream.first
  <2>1. /\ a \in Seq(1..MaxLines) /\ f \in Nat /\ g \in Nat /\ sent = a \o extra
        /\ MaxLines \in Nat /\ b \in Nat /\ \A i \in 1..Len(extra) : extra[i] = f + b + i
    BY <1>1, <1>2, <1>3, <1>6
  <2> HIDE DEF a, f, g
  <2>2. Follow(MaxLines, a, extra, f, g, b)
    BY <2>1, LinesContinue
  <2>3. QED  BY <2>1, <2>2 DEF a, f, g, Follow
<1>8. ~rewound => Ascending(sent)
  BY <1>2, <1>6, <1>7
<1>9. ~rewound => \A i \in 1..Len(sent) : sent[i] <= stream.first + (b + k)
  BY <1>2, <1>4, <1>7
<1>10. printed <= TailLines => Len(sent) = b + k /\ \A i \in 1..Len(sent) : sent[i] = i
  BY <1>2, <1>5, <1>7
<1>11. Len(lines) # 0 => b + Len(lines) <= MaxLines
  <2> DEFINE m == b + Len(lines)
  <2>1. m \in Nat /\ (Len(lines) # 0 => m <= seen.size)
    BY <1>1
  <2> HIDE DEF m
  <2>2. Len(lines) # 0 => m <= MaxLines
    BY <1>3, <2>1
  <2>3. QED  BY <2>2 DEF m
<1>12. (printed <= TailLines /\ ~rewound /\ Len(lines) # 0) => b + Len(lines) <= stream.last
  <2> DEFINE m == b + Len(lines)
  <2>1. m \in Nat /\ (Len(lines) # 0 => m <= seen.size)
    BY <1>1
  <2> HIDE DEF m
  <2>2. (printed <= TailLines /\ ~rewound /\ Len(lines) # 0) => m <= stream.last
    BY <1>3, <1>4, <1>5, <2>1
  <2>3. QED  BY <2>2 DEF m
<1>13. ASSUME printed <= TailLines, ~rewound, seen # NoLines, k = Len(lines),
              Len(got) + Len(lines) <= count
       PROVE  Len(sent) = seen.last
  <2>1. b <= seen.size
    BY <1>2, <1>5, <1>13
  <2>2. Len(lines) < count + 1 - Len(got)
    BY <1>1, <1>13
  <2>3. b + Len(lines) = seen.size
    BY <1>1, <1>5, <1>13, <2>1, <2>2
  <2>4. QED  BY <1>5, <1>10, <1>13, <2>3
<1>14. QED  BY <1>7, <1>8, <1>9, <1>10, <1>11, <1>12, <1>13 DEF LinesFollow

\* What a page leaves of its reader.
LEMMA PageKeepsReader ==
  ASSUME LogInv, NEW r \in Readers, reader[r].pc = "page", NEW count \in 1..MaxLimit,
         NEW v, v = reader[r], NEW seen \in {NoLines, v.saw}, NEW stub \in BOOLEAN,
         stub => v.saw = NoLines, NEW w, w = AfterPage(v, count, seen, stub)
  PROVE  w \in Reader /\ ReaderSound(w)
<1> DEFINE got   == ControlPlane(v.cursor, count + 1)
           page  == IF Len(got) > count THEN SubSeq(got, 1, count) ELSE got
           lines == LogStream(seen, v.cursor, count + 1 - Len(got))
           more  == Len(got) + Len(lines) + (IF stub THEN 1 ELSE 0) > count
           b     == Begin(v.cursor)
           k     == IF more THEN count - Len(page) ELSE Len(lines)
           extra == IF more THEN SubSeq(lines, 1, count - Len(page)) ELSE lines
           sent  == v.lines \o extra
           taken == v.got \o page
           owed  == v.owed \ {page[i] : i \in 1..Len(page)}
           next  == IF more THEN NextCursor(v.cursor, count, got) ELSE Start
           saw   == IF more THEN NoLines ELSE seen
<1>1. v \in Reader /\ ReaderSound(v)
  BY ReaderParts DEF LogInv
<1>17. w = [v EXCEPT !.pc = IF more THEN "again" ELSE "done", !.cursor = next, !.got = taken,
                   !.owed = owed, !.lines = sent, !.saw = saw]
  BY DEF AfterPage
<1>18. got = ControlPlane(v.cursor, count + 1) /\ lines = LogStream(seen, v.cursor, count + 1 - Len(got))
  OBVIOUS
<1> HIDE DEF got, lines
<1>2. /\ count \in Nat /\ count >= 1 /\ got \in Seq(EntryIds) /\ Len(got) \in Nat
      /\ Len(got) <= count + 1 /\ lines \in Seq(1..MaxLines) /\ Len(lines) \in Nat
      /\ Len(lines) <= count + 1 - Len(got) /\ b \in Nat /\ seen \in Stream /\ StreamSound(seen)
      /\ stub => Len(lines) = 0
  <2> DEFINE c == v.cursor
  <2>1. c = reader[r].cursor /\ seen \in {NoLines, reader[r].saw} /\ b = Begin(c)
        /\ got = ControlPlane(reader[r].cursor, count + 1)
        /\ lines = LogStream(seen, reader[r].cursor, count + 1 - Len(got))
    BY <1>18
  <2> HIDE DEF c, b
  <2>2. PageGives(count, seen, got, lines, c)
    BY <2>1, PageFacts
  <2>3. QED  BY <2>1, <2>2 DEF PageGives
<1>3. /\ Len(page) = IF Len(got) > count THEN count ELSE Len(got)
      /\ taken \in Seq(EntryIds) /\ Ascending(taken) /\ owed \subseteq EntryIds
      /\ Len(got) <= count => owed = {}
      /\ Len(got) >= count =>
           /\ v.cursor.source = "control_plane" /\ got[count] \in EntryIds
           /\ \A i \in 1..Len(taken) : taken[i] <= got[count]
           /\ owed \subseteq {e \in entries : e > got[count]}
  <2>1. EntriesFollow(v, count, got)
    BY <1>18, EntriesOfPage
  <2>2. QED  BY <2>1 DEF EntriesFollow
<1> HIDE DEF taken, owed
<1>5. k \in Nat /\ k <= Len(lines)
  BY <1>2, <1>3
<1>6. extra \in Seq(1..MaxLines) /\ Len(extra) = k /\ \A i \in 1..k : extra[i] = lines[i]
  <2> DEFINE L == 1..MaxLines
  <2>1. lines \in Seq(L)
    BY <1>2
  <2> HIDE DEF L
  <2>2. extra \in Seq(L) /\ Len(extra) = k /\ \A i \in 1..k : extra[i] = lines[i]
    BY <1>2, <1>5, <2>1, PrefixOf
  <2>3. QED  BY <2>2 DEF L
<1>4. /\ w.pc = IF more THEN "again" ELSE "done"
      /\ w.cursor = next /\ w.got = taken /\ w.owed = owed /\ w.lines = sent /\ w.saw = saw
      /\ w = [v EXCEPT !.pc = w.pc, !.cursor = next, !.got = taken, !.owed = owed, !.lines = sent,
                       !.saw = saw]
  <2> HIDE DEF sent, next, saw
  <2>1. QED  BY <1>1, <1>17 DEF Reader
<1> HIDE DEF k, extra, sent
<1>7. LinesFollow(seen, count, got, lines, k, sent, b)
  BY <1>5, <1>6, <1>18, LinesOfPage DEF sent
<1>8. b <= MaxEntries + MaxLines /\ v.cursor \in Cursor
  BY <1>1, LogBoundsAssumption DEF Reader, Cursor, Begin
<1> HIDE DEF b, next
<1>9. ASSUME next \in Cursor  PROVE w \in Reader
  <2>1. /\ taken \in Seq(EntryIds) /\ owed \subseteq EntryIds /\ sent \in Seq(1..MaxLines)
        /\ saw \in Stream /\ w.pc \in {"again", "done"}
    BY <1>2, <1>3, <1>4, <1>7, LogTyped DEF LinesFollow, LogInv
  <2> HIDE DEF saw
  <2>2. QED  BY <1>1, <1>4, <1>9, <2>1 DEF Reader
<1>10. RowSound(w)
  <2>1. RowSound(v) /\ RowSound(NotReading) /\ NotReading.saw = NoLines
    BY <1>1, NothingRead DEF ReaderSound, NotReading
  <2>2. saw \in {v.saw, NoLines} /\ w.pc # "persist"
    BY <1>4
  <2> HIDE DEF saw
  <2>3. QED  BY <1>4, <2>1, <2>2 DEF RowSound
<1>11. Ascending(w.got)
  BY <1>3, <1>4
<1>12. w.pc # "idle"
  BY <1>4
<1> HIDE DEF saw
\* The last entry that fits is the cursor, and no line is delivered yet.
<1>13. CASE more /\ Len(got) >= count
  <2>1. next = EntryCursor(got[count])
    BY <1>13 DEF next, NextCursor
  <2>2. /\ w.pc = "again" /\ v.cursor.source = "control_plane" /\ got[count] \in EntryIds
        /\ \A i \in 1..Len(taken) : taken[i] <= got[count]
        /\ owed \subseteq {e \in entries : e > got[count]}
    BY <1>3, <1>4, <1>13
  <2>3. k = 0 /\ v.lines = <<>> /\ v.pc = "page"
    <3>1. Len(page) = count
      BY <1>2, <1>3, <1>13
    <3>2. v.lines = <<>>
      BY <1>1, <2>2 DEF ReaderSound, EntriesSound
    <3>3. QED  BY <1>2, <1>13, <3>1, <3>2 DEF k
  <2>4. sent = <<>>
    BY <1>6, <2>3 DEF sent
  <2>5. /\ next \in Cursor /\ next.source = "control_plane" /\ next.at = got[count]
    <3> DEFINE e == got[count]
    <3>1. e \in EntryIds /\ next = EntryCursor(e)
      BY <2>1, <2>2
    <3> HIDE DEF e
    <3>2. e \in 0..MaxEntries + MaxLines
      BY <3>1, LogBoundsAssumption DEF EntryIds
    <3>3. QED  BY <3>1, <3>2 DEF Cursor, EntryCursor, e
  <2>6. EntriesSound(w)
    BY <1>4, <1>11, <2>2, <2>4, <2>5 DEF EntriesSound
  <2>7. LinesSound(w)
    <3>1. w.lines = <<>> /\ Ascending(<<>>) /\ Len(<<>>) = 0
      BY <1>4, <2>4 DEF Ascending
    <3>2. ~Continues(w) /\ w.pc # "done"
      BY <1>4, <2>2, <2>5 DEF Continues
    <3>3. QED  BY <3>1, <3>2 DEF LinesSound
  <2>8. QED  BY <1>9, <1>10, <1>12, <2>5, <2>6, <2>7 DEF ReaderSound
\* The cursor is the line after the last that fits, counted in the window.
<1>14. CASE more /\ Len(got) < count
  <2>0. ~stub
    BY <1>2, <1>14
  <2>1. Len(page) = Len(got) /\ k = count - Len(got) /\ owed = {} /\ k < Len(lines)
    BY <1>2, <1>3, <1>14, <2>0 DEF k
  <2>2. next = LineCursor(b + k) /\ w.pc = "again" /\ w.saw = NoLines
    <3>1. next = LineCursor(k + b)
      BY <1>2, <1>14, <2>1 DEF next, NextCursor, b, Begin
    <3>2. k + b = b + k
      BY <1>2, <1>5
    <3>3. QED  BY <1>4, <1>14, <3>1, <3>2 DEF saw
  <2>3. /\ b + k \in Nat /\ b + k <= MaxLines
        /\ (printed <= TailLines /\ ~rewound) => b + k <= stream.last
    <3>1. stream.last \in Nat /\ MaxLines \in Nat
      BY LogTyped DEF LogInv
    <3>2. /\ b + Len(lines) <= MaxLines
          /\ (printed <= TailLines /\ ~rewound) => b + Len(lines) <= stream.last
      BY <1>2, <1>5, <1>7, <2>1 DEF LinesFollow
    <3>3. QED  BY <1>2, <1>5, <2>1, <3>1, <3>2
  <2>4. /\ next \in Cursor /\ next.source = "log_stream" /\ next.at = b + k
    BY <2>2, <2>3, LogBoundsAssumption DEF Cursor, LineCursor
  <2>5. EntriesSound(w)
    BY <1>4, <1>11, <2>1, <2>4 DEF EntriesSound
  <2>6. LinesSound(w)
    BY <1>4, <1>7, <2>2, <2>3, <2>4 DEF LinesSound, LinesFollow, Continues
  <2>7. QED  BY <1>9, <1>10, <1>12, <2>4, <2>5, <2>6 DEF ReaderSound
\* The last page: nothing is owed, and the lines go on to the end of what it has read.
<1>15. CASE ~more
  <2>1. k = Len(lines) /\ Len(got) + Len(lines) <= count /\ Len(got) <= count
    BY <1>2, <1>15 DEF k
  <2>2. next = Start /\ w.pc = "done" /\ w.saw = seen /\ owed = {}
    BY <1>3, <1>4, <1>15, <2>1 DEF next, saw
  <2>3. next \in Cursor /\ next.source = "control_plane"
    BY <2>2, LogBoundsAssumption DEF Cursor, Start
  <2>4. EntriesSound(w)
    BY <1>4, <1>11, <2>2, <2>3 DEF EntriesSound
  <2>5. LinesSound(w)
    <3>1. ~rewound => Ascending(w.lines)
      BY <1>4, <1>7 DEF LinesFollow
    <3>2. printed <= TailLines => \A i \in 1..Len(w.lines) : w.lines[i] = i
      BY <1>4, <1>7 DEF LinesFollow
    <3>3. printed <= TailLines /\ ~rewound /\ w.saw # NoLines => Len(w.lines) = w.saw.last
      BY <1>4, <1>7, <2>1, <2>2 DEF LinesFollow
    <3>4. ~Continues(w)
      BY <2>2 DEF Continues
    <3>5. QED  BY <3>1, <3>2, <3>3, <3>4 DEF LinesSound
  <2>6. QED  BY <1>9, <1>10, <1>12, <2>3, <2>4, <2>5 DEF ReaderSound
<1>16. QED  BY <1>13, <1>14, <1>15, <1>2

LEMMA ReadKeepsLog ==
  ASSUME LogInv, NEW r \in Readers, ReadPage(r)
  PROVE  LogInv'
<1>1. PICK count \in 1..MaxLimit, seen \in {NoLines, reader[r].saw}, stub \in BOOLEAN :
        /\ stub => reader[r].saw = NoLines
        /\ reader' = [reader EXCEPT ![r] = AfterPage(reader[r], count, seen, stub)]
  BY DEF ReadPage
<1> DEFINE w == AfterPage(reader[r], count, seen, stub)
<1>2. w \in Reader /\ ReaderSound(w)
  BY <1>1, PageKeepsReader DEF ReadPage
<1> HIDE DEF w
<1>3. reader' = [reader EXCEPT ![r] = w] /\ UNCHANGED <<entries, printed, seeded, stream, rewound>>
  BY <1>1 DEF w, ReadPage
<1>4. QED  BY <1>2, <1>3, OneReader

LEMMA LogStarts ==
  ASSUME LogInit
  PROVE  LogInv
<1>1. /\ entries = {} /\ printed = 0 /\ seeded = FALSE /\ stream = NoLines /\ rewound = FALSE
      /\ reader = [r \in Readers |-> NotReading]
  BY DEF LogInit
<1>2. NoLines \in Stream /\ Start \in Cursor /\ printed \in Lines
  BY <1>1, LogBoundsAssumption DEF NoLines, Stream, Lines, Start, Cursor
<1>3. NotReading \in Reader
  BY <1>2 DEF NotReading, Reader
<1>4. LogTypeOK
  BY <1>1, <1>2, <1>3 DEF LogTypeOK
<1>5. StreamSound(NoLines) /\ StreamSound(stream) /\ NoLines.last <= stream.last
  BY <1>1, TailLinesAssumption DEF StreamSound, NoLines, TailBegins, Readable
<1>6. RowSound(NotReading)
  BY <1>5 DEF RowSound, NotReading
<1>7. EntriesSound(NotReading) /\ LinesSound(NotReading)
  BY DEF EntriesSound, LinesSound, NotReading, Ascending, Start, Continues
<1>8. QED  BY <1>1, <1>4, <1>5, <1>6, <1>7 DEF LogInv, ReaderSound

LEMMA LogKept ==
  ASSUME LogInv, [LogNext]_logVars
  PROVE  LogInv'
<1>1. CASE PrintLine
  BY <1>1, PrintKeepsLog
<1>5. CASE SubmitRuntime
  BY <1>5, SubmitKeepsLog
<1>2. ASSUME NEW e \in EntryIds, CommitEntry(e)  PROVE LogInv'
  BY <1>2, CommitKeepsLog
<1>3. ASSUME NEW r \in Readers,
             \/ AskForPage(r) \/ SyncLogs(r) \/ PersistStream(r) \/ ReloadRun(r) \/ ReadPage(r)
             \/ PageIsLost(r) \/ ReadAgain(r)
      PROVE  LogInv'
  BY <1>3, AskKeepsLog, SyncKeepsLog, PersistKeepsLog, ReloadKeepsLog, ReadKeepsLog, LostKeepsLog,
     AgainKeepsLog
<1>4. CASE UNCHANGED logVars
  <2>1. LogInv' <=> LogInv
    BY <1>4 DEF logVars, LogInv, LogTypeOK, ReaderSound, RowSound, EntriesSound, LinesSound,
       StreamSound, Readable, Continues
  <2>2. QED  BY <2>1
<1>6. QED  BY <1>1, <1>2, <1>3, <1>4, <1>5 DEF LogNext

\* The log that readers page through stays sound, and so does what each of them has.
LEMMA LogInvariant == LogSpec => []LogInv
BY LogStarts, LogKept, PTL DEF LogSpec

LEMMA ReadOnceHolds ==
  ASSUME LogInv
  PROVE  LogReadOnce
<1>1. ASSUME NEW r \in Readers
      PROVE  LET got   == reader[r].got
                 lines == reader[r].lines
             IN /\ Ascending(got)
                /\ reader[r].pc = "done" \/ lines # <<>> => reader[r].owed = {}
                /\ ~rewound => Ascending(lines)
                /\ printed <= TailLines => \A i \in 1..Len(lines) : lines[i] = i
                /\ printed <= TailLines /\ ~rewound /\ reader[r].pc = "done" /\ reader[r].saw # NoLines
                     => Len(lines) = reader[r].saw.last
  <2> DEFINE v == reader[r]
  <2>1. EntriesSound(v) /\ LinesSound(v) /\ v.cursor.source \in {"control_plane", "log_stream"}
    BY ReaderParts DEF LogInv, ReaderSound, Cursor
  <2> HIDE DEF v
  <2>2. v.pc = "done" \/ v.lines # <<>> => v.owed = {}
    BY <2>1 DEF EntriesSound
  <2>3. QED  BY <2>1, <2>2 DEF EntriesSound, LinesSound, v
<1>2. QED  BY <1>1 DEF LogReadOnce

\* A reader that follows the cursors of list_cloud_run_log_window (_entry_cursor) gets each entry
\* that was committed when it began once and in order, and then lines in order; as long as the log
\* fits into the provider's tail none is left out.  For any number of readers, page sizes and tails.
THEOREM LogIsReadOnce == LogSpec => []LogReadOnce
BY LogInvariant, ReadOnceHolds, PTL

-----------------------------------------------------------------------------
(***************************************************************************)
(* The services side by side.                                              *)
(***************************************************************************)

\* Seen through the variables of one service, a behaviour of the instance that TLC checks is a
\* behaviour of that service; so what is proved of each of the five specifications holds of
\* MCSpec, with the same constants.
THEOREM ServicesSideBySide ==
  MCSpec => Spec /\ ClientSpec /\ AuditSpec /\ LogSpec /\ PlannerSpec
<1>1. MCInit => Init /\ ClientInit /\ AuditInit /\ LogInit /\ PlannerInit
  BY DEF MCInit
<1>2. [MCNext]_allVars => [Next]_vars /\ [ClientNext]_clientVars /\ [AuditNext]_auditVars
                         /\ [LogNext]_logVars /\ [PlannerNext]_plannerVars
  <2>1. UNCHANGED allVars
          => UNCHANGED <<vars, clientVars, auditVars, logVars, plannerVars>>
    BY DEF allVars
  <2> QED
    BY <2>1 DEF MCNext
<1> QED
  BY <1>1, <1>2, PTL DEF MCSpec, Spec, ClientSpec, AuditSpec, LogSpec, PlannerSpec

\* Rows, caches and cursors keep to the values that they may hold (TypesOK), whatever the
\* handlers, threads, processes and readers of the five services do.
THEOREM ServicesTypeCorrect == MCSpec => []TypesOK
<1>1. ClientInv => ClientTypeOK
  BY DEF ClientInv
<1>2. AuditInv => AuditTypeOK
  BY DEF AuditInv
<1>3. LogInv => LogTypeOK
  BY DEF LogInv
<1>4. PlannerInv => PlannerTypeOK
  BY DEF PlannerInv
<1>5. PlannerSpec => []PlannerInv
  BY PlannerInitInv, PlannerStepKeepsInv, PTL DEF PlannerSpec
<1>6. TypeOK /\ ClientTypeOK /\ AuditTypeOK /\ LogTypeOK /\ PlannerTypeOK => TypesOK
  BY DEF TypesOK
<1> QED
  BY <1>1, <1>2, <1>3, <1>4, <1>5, <1>6, ServicesSideBySide, BudgetTypeCorrect,
     ClientInvariant, AuditInvariant, LogInvariant, PTL

=============================================================================
