--------------------------- MODULE AuditRetention ---------------------------
(***************************************************************************)
(* The daily retention cleanup (services/audit_operations.py).  Every API  *)
(* process polls; one claims the day's cleanup, and a claim that stays     *)
(* open for too long may be taken over.  The events are deleted, and the   *)
(* cleanup's own is added, in the commit that completes the claim.         *)
(***************************************************************************)
EXTENDS Integers

CONSTANTS
  Sweepers,        \* API processes
  NoSweeper,
  Interval,        \* AUDIT_CLEANUP_INTERVAL
  ClaimTimeout,    \* AUDIT_CLEANUP_CLAIM_TIMEOUT
  CoreRetention,   \* AUDIT_CORE_RETENTION
  DetailRetention, \* IDENTITY_DETAIL_RETENTION
  MaxTime          \* bound on the clock

ASSUME NoSweeperAssumption == NoSweeper \notin Sweepers
ASSUME PeriodsAssumption ==
  /\ Interval \in Nat \ {0} /\ ClaimTimeout \in Nat
  /\ DetailRetention \in Nat /\ CoreRetention \in Nat /\ DetailRetention <= CoreRetention
ASSUME MaxTimeAssumption == MaxTime \in Nat

VARIABLES
  hour,       \* the clock
  state,      \* the audit_retention_state row
  events,     \* by creation time: the most that is kept of an audit event of that hour
  cleanups,   \* history: the scheduled cleanups that were committed, by their cleanup_at
  sweeper     \* what each process is doing

auditVars == <<hour, state, events, cleanups, sweeper>>

Hours == 0 .. MaxTime
Never == -1

State   == [exists : BOOLEAN, completed : Hours \cup {Never},
            claim : Sweepers \cup {NoSweeper}, claimed : Hours \cup {Never}]
NoState == [exists |-> FALSE, completed |-> Never, claim |-> NoSweeper, claimed |-> Never]
Sweeper == [pc : {"idle", "insert", "claim", "clean", "failed"}, at : Hours]

AuditInit ==
  /\ hour = 0
  /\ state = NoState
  /\ events = [h \in Hours |-> "none"]
  /\ cleanups = [h \in Hours |-> 0]
  /\ sweeper = [s \in Sweepers |-> [pc |-> "idle", at |-> 0]]

ContinueSweep(s, pc) == sweeper' = [sweeper EXCEPT ![s].pc = pc]
StopSweep(s)         == sweeper' = [sweeper EXCEPT ![s] = [pc |-> "idle", at |-> 0]]

-----------------------------------------------------------------------------
ClockTicks ==
  /\ hour < MaxTime
  /\ hour' = hour + 1
  /\ UNCHANGED <<state, events, cleanups, sweeper>>

\* An event with network details; the workspace and secret access logs have none.
RecordEvent ==
  /\ events[hour] # "detailed"
  /\ \E kind \in {"detailed", "core"} : events' = [events EXCEPT ![hour] = kind]
  /\ UNCHANGED <<hour, state, cleanups, sweeper>>

\* run_audit_retention_cleanup, with the clock read before: its event is created at that time.
Cleaned(at) ==
  LET kept == [h \in Hours |-> IF h < at - CoreRetention THEN "none"
                               ELSE IF h < at - DetailRetention /\ events[h] = "detailed" THEN "core"
                               ELSE events[h]]
  IN [kept EXCEPT ![at] = IF @ = "detailed" THEN @ ELSE "core"]

\* An operator's cleanup asks for no claim; its event may have network details.
OperatorCleanup ==
  /\ events' = Cleaned(hour)
  /\ UNCHANGED <<hour, state, cleanups, sweeper>>

\* A poll reads the clock and looks for the row.
Poll(s) ==
  /\ sweeper[s].pc = "idle"
  /\ sweeper' = [sweeper EXCEPT ![s] = [pc |-> IF state.exists THEN "claim" ELSE "insert", at |-> hour]]
  /\ UNCHANGED <<hour, state, events, cleanups>>

\* Another process may have inserted it: IntegrityError, and the claim is tried.
EnsureState(s) ==
  /\ sweeper[s].pc = "insert"
  /\ state' = IF state.exists THEN state ELSE [NoState EXCEPT !.exists = TRUE]
  /\ ContinueSweep(s, "claim")
  /\ UNCHANGED <<hour, events, cleanups>>

Due(at)       == state.completed = Never \/ state.completed <= at - Interval
Claimable(at) == state.claim = NoSweeper \/ state.claimed <= at - ClaimTimeout

ClaimCleanup(s) ==
  LET at == sweeper[s].at
  IN /\ sweeper[s].pc = "claim"
     /\ IF Due(at) /\ Claimable(at)
          THEN state' = [state EXCEPT !.claim = s, !.claimed = at] /\ ContinueSweep(s, "clean")
          ELSE StopSweep(s) /\ UNCHANGED state
     /\ UNCHANGED <<hour, events, cleanups>>

Completed(s) ==
  LET at == sweeper[s].at
  IN /\ state' = [state EXCEPT !.completed = at, !.claim = NoSweeper, !.claimed = Never]
     /\ events' = Cleaned(at)
     /\ cleanups' = [cleanups EXCEPT ![at] = @ + 1]

\* Bug: the completion does not ask whose claim it is.
CompleteAlways(s) ==
  /\ sweeper[s].pc = "clean"
  /\ Completed(s)
  /\ StopSweep(s)
  /\ UNCHANGED hour

\* The deletions and the completion are one commit, rolled back if the claim was taken over.
CompleteCleanup(s) ==
  /\ sweeper[s].pc = "clean"
  /\ IF state.claim = s THEN Completed(s) ELSE UNCHANGED <<state, events, cleanups>>
  /\ StopSweep(s)
  /\ UNCHANGED hour

\* An exception: the claim stays open until it can be taken over.
CleanupFails(s) ==
  /\ sweeper[s].pc = "clean"
  /\ ContinueSweep(s, "failed")
  /\ UNCHANGED <<hour, state, events, cleanups>>

\* Its event is created at the time that was read before, however long ago that is.
RecordFailure(s) ==
  /\ sweeper[s].pc = "failed"
  /\ StopSweep(s)
  /\ events' = [events EXCEPT ![sweeper[s].at] = IF @ = "none" THEN "failure" ELSE @]
  /\ UNCHANGED <<hour, state, cleanups>>

\* The process dies, or stops on an exception before it has claimed.
SweeperDies(s) ==
  /\ sweeper[s].pc # "idle"
  /\ StopSweep(s)
  /\ UNCHANGED <<hour, state, events, cleanups>>

AuditNext ==
  \/ ClockTicks \/ RecordEvent \/ OperatorCleanup
  \/ \E s \in Sweepers :
       \/ Poll(s) \/ EnsureState(s) \/ ClaimCleanup(s) \/ CompleteCleanup(s)
       \/ CleanupFails(s) \/ RecordFailure(s) \/ SweeperDies(s)

AuditSpec == AuditInit /\ [][AuditNext]_auditVars

-----------------------------------------------------------------------------
AuditTypeOK ==
  /\ hour \in Hours
  /\ state \in State
  /\ events \in [Hours -> {"none", "failure", "core", "detailed"}]
  /\ cleanups \in [Hours -> Nat]
  /\ sweeper \in [Sweepers -> Sweeper]

\* run_scheduled_audit_retention_if_due: however many processes poll, and although a slow
\* one is overtaken, scheduled cleanups are a whole interval apart, the last of them is the
\* one that the row remembers, and what it was to remove is gone: events after their retention
\* and network details after theirs, but for the report of a failed cleanup, which may come late.
OneCleanupPerInterval ==
  /\ \A h \in Hours : cleanups[h] <= 1
  /\ \A g, h \in Hours : g < h /\ cleanups[g] = 1 /\ cleanups[h] = 1 => g + Interval <= h
  /\ \A h \in Hours : cleanups[h] = 1 => h <= state.completed
  /\ state.completed # Never =>
       /\ cleanups[state.completed] = 1
       /\ \A h \in Hours : events[h] \in {"core", "detailed"} => h >= state.completed - CoreRetention
       /\ \A h \in Hours : events[h] = "detailed" => h >= state.completed - DetailRetention
=============================================================================
