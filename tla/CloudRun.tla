------------------------------ MODULE CloudRun ------------------------------
(***************************************************************************)
(* The lifecycle of cloud runs in the API's control plane                  *)
(* (services/cloud_runner.py): submission, leases of remote workers, the   *)
(* local worker, cancellation, the sweep of expired leases, and the        *)
(* finalization of a result.                                               *)
(*                                                                         *)
(* A request handler is a SESSION.  The database gives a session two kinds *)
(* of writes.  A conditional UPDATE (claim, cancel, finalization) tests and *)
(* writes the row in one step and locks it until the commit.  Everything   *)
(* else is an ORM write: the handler loads the row, decides on what it     *)
(* loaded, and flushes the changed columns WHERE id = ... with no version  *)
(* check.  So a handler is a sequence of steps, one per commit and one per *)
(* read whose answer a later write relies on, and handlers interleave.     *)
(* sess[s].saw is the row as the handler loaded it.  Any handler may die   *)
(* between two steps (Abort): what it committed stays.                     *)
(***************************************************************************)
EXTENDS Integers, FiniteSets

CONSTANTS
  Runs,           \* cloud_runs rows that may be created
  MnsRuns,        \* queue_provider = aliyun_mns, no runtime: a message carries the token
  EciRuns,        \* runtime_provider = aliyun_eci: a container is started with the token
  Workers,        \* worker ids of remote workers
  Agent,          \* the worker id a protected run's token is bound to
  Local,          \* worker id of the local worker
  NoWorker,       \* worker_id IS NULL
  Sessions,       \* request handlers in flight at once
  MaxAttempts,    \* max_attempts
  TokenRequired   \* worker_callback_token_required: Dev Auth is not accepted

ASSUME RunsAssumption     == /\ Runs # {} /\ MnsRuns \subseteq Runs /\ EciRuns \subseteq Runs
                             /\ MnsRuns \cap EciRuns = {}
ASSUME WorkersAssumption  == /\ Agent \in [Runs -> Workers]
                             /\ Local \notin Workers /\ NoWorker \notin Workers
                             /\ Local # NoWorker
ASSUME AttemptsAssumption == MaxAttempts \in Nat \ {0}
ASSUME ModeAssumption     == TokenRequired \in BOOLEAN

VARIABLES
  run,       \* the cloud_runs table
  hold,      \* status of the budget reservation of each run
  patches,   \* number of patch_artifacts rows created for each run
  handed,    \* runs whose callback token has reached the outside
  sess       \* request handlers

vars == <<run, hold, patches, handed, sess>>

Terminal == {"patch_ready", "failed", "cancelled"}
Protected == MnsRuns \cup EciRuns

(***************************************************************************)
(* A lease id is opaque and fresh; the model names it by the attempt that  *)
(* issued it and the worker it was returned to.                            *)
(***************************************************************************)
NoLease == <<0, NoWorker>>
Leases  == (0 .. MaxAttempts) \X (Workers \cup {NoWorker})

Row == [ status   : {"absent", "queued", "running"} \cup Terminal,
         cancel   : BOOLEAN,                      \* cancel_requested
         done     : BOOLEAN,                      \* completed_at IS NOT NULL
         worker   : Workers \cup {Local, NoWorker},
         lease    : Leases,
         expires  : {"none", "live", "expired"},  \* lease_expires_at against the clock
         attempts : 0 .. MaxAttempts,
         token    : {"none", "live", "expired", "used"},
         patch    : BOOLEAN ]                     \* patch_artifact_id IS NOT NULL

Absent == [ status |-> "absent", cancel |-> FALSE, done |-> FALSE, worker |-> NoWorker,
            lease |-> NoLease, expires |-> "none", attempts |-> 0, token |-> "none",
            patch |-> FALSE ]

Steps == {"idle", "tokenise", "send", "sent", "withdraw", "claim", "beat", "sweep",
          "consume", "take", "execute", "reload", "finalize", "discard",
          "cancel_queued", "cancel_running"}

Session == [ pc : Steps, run : Runs, worker : Workers \cup {Local, NoWorker},
             lease : Leases, saw : Row ]

SomeRun == CHOOSE r \in Runs : TRUE
Idle == [ pc |-> "idle", run |-> SomeRun, worker |-> NoWorker, lease |-> NoLease,
          saw |-> Absent ]

Init == /\ run = [r \in Runs |-> Absent]
        /\ hold = [r \in Runs |-> "none"]
        /\ patches = [r \in Runs |-> 0]
        /\ handed = {}
        /\ sess = [s \in Sessions |-> Idle]

-----------------------------------------------------------------------------
(***************************************************************************)
(* Helpers.                                                                *)
(***************************************************************************)

\* The ORM writes a column only when the value assigned differs from the value loaded.
Flushed(loaded, assigned, stored) == IF assigned = loaded THEN stored ELSE assigned

At(s, step) == sess[s].pc = step
Idles(s) == At(s, "idle")

\* Session s starts a handler for run r; Load is for a handler whose later writes rely
\* on the row it has just read.
Handler(step, r, w, l, row) == [pc |-> step, run |-> r, worker |-> w, lease |-> l, saw |-> row]
Begin(s, step, r, w)   == sess' = [sess EXCEPT ![s] = Handler(step, r, w, NoLease, Absent)]
Load(s, step, r, w, l) == sess' = [sess EXCEPT ![s] = Handler(step, r, w, l, run[r])]

Goto(s, step) == sess' = [sess EXCEPT ![s].pc = step]
Finish(s)     == sess' = [sess EXCEPT ![s] = Idle]

\* The guarded UPDATE of the reservation: only a RESERVED one is closed.
Close(r, how) ==
  hold' = [hold EXCEPT ![r] = IF hold[r] = "reserved" THEN how ELSE hold[r]]

\* Bug: a row without a token hash is open to every worker in every deployment.
TokenOkIfHashless(r, w) ==
  \/ run[r].token = "none"
  \/ run[r].token = "live" /\ w = Agent[r] /\ r \in handed

\* A protected run is bound to its agent's token; a hashless one is open to any
\* worker unless the deployment requires tokens.
TokenOk(r, w) ==
  IF run[r].token = "none"
    THEN ~TokenRequired
    ELSE run[r].token = "live" /\ w = Agent[r] /\ r \in handed

\* Bug: the worker is compared, its lease id is not.
LeaseIsWorkers(r, l) ==
  run[r].worker = l[2] /\ run[r].status = "running" /\ ~run[r].done /\ run[r].expires = "live"

\* A worker presents a lease it was given, perhaps long ago; it must be the current one.
LeaseIsCurrent(r, l) ==
  /\ run[r].lease = l
  /\ run[r].worker = l[2]
  /\ run[r].status = "running"
  /\ ~run[r].done
  /\ run[r].expires = "live"

\* Bug: max_attempts is not part of the claim.
ClaimableForever(r) == run[r].status = "queued" /\ ~run[r].cancel

Claimable(r) ==
  /\ run[r].status = "queued"
  /\ ~run[r].cancel
  /\ run[r].attempts < MaxAttempts

-----------------------------------------------------------------------------
(***************************************************************************)
(* enqueue_cloud_run.  The first transaction reserves the budget and       *)
(* creates the run already queued; a second one binds the worker token;    *)
(* the provider is called outside of any transaction, and its answer may   *)
(* be lost after it took effect.                                           *)
(***************************************************************************)
Submit(s, r) ==
  /\ Idles(s)
  /\ run[r].status = "absent"
  /\ run' = [run EXCEPT ![r].status = "queued"]
  /\ hold' = [hold EXCEPT ![r] = "reserved"]
  /\ IF r \in Protected THEN Begin(s, "tokenise", r, NoWorker)
                        ELSE UNCHANGED sess
  /\ UNCHANGED <<patches, handed>>

\* Writes worker_id and the token columns by id, then reloads the row.
Tokenise(s) ==
  LET r   == sess[s].run
      new == [run[r] EXCEPT !.worker = Agent[r], !.token = "live"]
  IN /\ At(s, "tokenise")
     /\ run' = [run EXCEPT ![r] = new]
     /\ sess' = [sess EXCEPT ![s].pc = "send", ![s].saw = new]
     /\ UNCHANGED <<hold, patches, handed>>

\* The message is sent, or the container is started - or the call is lost.
CallProvider(s) ==
  /\ At(s, "send")
  /\ handed' \in {handed, handed \cup {sess[s].run}}
  /\ Goto(s, "sent")
  /\ UNCHANGED <<run, hold, patches>>

\* Success: only provider metadata is stored.
ProviderAccepted(s) ==
  /\ At(s, "sent")
  /\ sess[s].run \in handed
  /\ Finish(s)
  /\ UNCHANGED <<run, hold, patches, handed>>

\* Failure: the queue path keeps the row it had, the runtime path rolls back and reloads.
ProviderFailed(s) ==
  /\ At(s, "sent")
  /\ sess' = [sess EXCEPT ![s].pc = "withdraw",
                          ![s].saw = IF sess[s].run \in EciRuns THEN run[sess[s].run] ELSE @]
  /\ UNCHANGED <<run, hold, patches, handed>>

\* Bug: the failure does not stamp completed_at.
WithdrawOpen(s) ==
  LET r == sess[s].run
  IN /\ At(s, "withdraw")
     /\ run' = [run EXCEPT ![r].status = Flushed(sess[s].saw.status, "failed", @)]
     /\ Close(r, IF r \in EciRuns THEN "settled" ELSE "released")
     /\ Finish(s)
     /\ UNCHANGED <<patches, handed>>

\* queue_enqueue_failed refunds the reservation; runtime_submission_failed settles it.
Withdraw(s) ==
  LET r == sess[s].run
  IN /\ At(s, "withdraw")
     /\ run' = [run EXCEPT ![r].status = Flushed(sess[s].saw.status, "failed", @),
                           ![r].done = TRUE]
     /\ Close(r, IF r \in EciRuns THEN "settled" ELSE "released")
     /\ Finish(s)
     /\ UNCHANGED <<patches, handed>>

-----------------------------------------------------------------------------
(***************************************************************************)
(* Leases: claim_next_cloud_run_lease, heartbeat_cloud_run_lease and       *)
(* requeue_expired_cloud_run_leases.                                       *)
(***************************************************************************)

\* The candidate is selected and its token checked on the row as loaded ...
SelectCandidate(s, w, r) ==
  /\ Idles(s)
  /\ Claimable(r)
  /\ TokenOk(r, w)
  /\ Begin(s, "claim", r, w)
  /\ UNCHANGED <<run, hold, patches, handed>>

\* ... and claimed by a conditional UPDATE; a lost race changes nothing.
ClaimLease(s) ==
  LET r == sess[s].run
      w == sess[s].worker
  IN /\ At(s, "claim")
     /\ IF Claimable(r)
          THEN run' = [run EXCEPT ![r].status = "running", ![r].worker = w,
                                  ![r].lease = <<run[r].attempts + 1, w>>,
                                  ![r].expires = "live", ![r].attempts = @ + 1]
          ELSE run' = run
     /\ Finish(s)
     /\ UNCHANGED <<hold, patches, handed>>

Heartbeat(s, r, l) ==
  /\ Idles(s)
  /\ LeaseIsCurrent(r, l)
  /\ TokenOk(r, l[2])
  /\ Begin(s, "beat", r, l[2])
  /\ UNCHANGED <<run, hold, patches, handed>>

\* Writes a new lease_expires_at by run id, whatever became of the lease since.
ExtendLease(s) ==
  /\ At(s, "beat")
  /\ run' = [run EXCEPT ![sess[s].run].expires = "live"]
  /\ Finish(s)
  /\ UNCHANGED <<hold, patches, handed>>

\* Bug: completed runs are swept.
SweepCompleted(s, r) ==
  /\ ~TokenRequired
  /\ Idles(s)
  /\ run[r].expires = "expired"
  /\ Load(s, "sweep", r, NoWorker, NoLease)
  /\ UNCHANGED <<run, hold, patches, handed>>

\* Bug: runs whose cancellation was requested are left to their worker.
SweepUncancelled(s, r) ==
  /\ ~TokenRequired
  /\ Idles(s)
  /\ run[r].status = "running" /\ ~run[r].done /\ run[r].expires = "expired"
  /\ ~run[r].cancel
  /\ Load(s, "sweep", r, NoWorker, NoLease)
  /\ UNCHANGED <<run, hold, patches, handed>>

\* The sweep selects expired leases; the route exists only where Dev Auth is accepted.
Sweep(s, r) ==
  /\ ~TokenRequired
  /\ Idles(s)
  /\ run[r].status = "running" /\ ~run[r].done /\ run[r].expires = "expired"
  /\ Load(s, "sweep", r, NoWorker, NoLease)
  /\ UNCHANGED <<run, hold, patches, handed>>

Requeue(s) ==
  LET r   == sess[s].run
      saw == sess[s].saw
  IN /\ At(s, "sweep")
     /\ saw.attempts < MaxAttempts
     /\ run' = [run EXCEPT ![r].status = "queued",
                           ![r].worker = Flushed(saw.worker, NoWorker, @),
                           ![r].lease = Flushed(saw.lease, NoLease, @),
                           ![r].expires = "none"]
     /\ Finish(s)
     /\ UNCHANGED <<hold, patches, handed>>

\* Bug: a run without attempts left goes back to the queue, too.
ExhaustRequeues(s) ==
  LET r == sess[s].run
  IN /\ At(s, "sweep")
     /\ sess[s].saw.attempts >= MaxAttempts
     /\ run' = [run EXCEPT ![r].status = "queued", ![r].worker = NoWorker,
                           ![r].lease = NoLease, ![r].expires = "none"]
     /\ Finish(s)
     /\ UNCHANGED <<hold, patches, handed>>

Exhaust(s) ==
  LET r == sess[s].run
  IN /\ At(s, "sweep")
     /\ sess[s].saw.attempts >= MaxAttempts
     /\ run' = [run EXCEPT ![r].status = "failed", ![r].done = TRUE]
     /\ Close(r, "settled")
     /\ Finish(s)
     /\ UNCHANGED <<patches, handed>>

-----------------------------------------------------------------------------
(***************************************************************************)
(* complete_cloud_run_lease checks the lease, commits the use of the       *)
(* token, and only then finalizes, without looking at the lease again.     *)
(***************************************************************************)
Complete(s, r, l) ==
  /\ Idles(s)
  /\ LeaseIsCurrent(r, l)
  /\ TokenOk(r, l[2])
  /\ Load(s, "consume", r, l[2], l)
  /\ UNCHANGED <<run, hold, patches, handed>>

ConsumeToken(s) ==
  LET r == sess[s].run
  IN /\ At(s, "consume")
     /\ run' = [run EXCEPT ![r].token = IF sess[s].saw.token = "none" THEN @ ELSE "used"]
     /\ sess' = [sess EXCEPT ![s].pc = "reload", ![s].saw = Absent]
     /\ UNCHANGED <<hold, patches, handed>>

(***************************************************************************)
(* process_cloud_run: the local worker claims without a lease, executes in *)
(* the request, and finalizes.                                             *)
(***************************************************************************)
ProcessLocally(s, r) ==
  /\ Idles(s)
  /\ run[r].status = "queued"
  /\ Begin(s, "take", r, Local)
  /\ UNCHANGED <<run, hold, patches, handed>>

ClaimLocally(s) ==
  LET r == sess[s].run
  IN /\ At(s, "take")
     /\ IF run[r].status = "queued"
          THEN /\ run' = [run EXCEPT ![r].status = "running", ![r].worker = Local]
               /\ Goto(s, "execute")
          ELSE run' = run /\ Finish(s)
     /\ UNCHANGED <<hold, patches, handed>>

\* The executor returns (its exceptions are turned into a failed result).
Executed(s) ==
  /\ At(s, "execute")
  /\ Goto(s, "reload")
  /\ UNCHANGED <<run, hold, patches, handed>>

\* An HTTPException before the executor: the run is failed by id.
PreflightFailed(s) ==
  LET r == sess[s].run
  IN /\ At(s, "execute")
     /\ run' = [run EXCEPT ![r].status = "failed", ![r].done = TRUE]
     /\ Close(r, "settled")
     /\ Finish(s)
     /\ UNCHANGED <<patches, handed>>

-----------------------------------------------------------------------------
(***************************************************************************)
(* _finalize_claimed_cloud_run_result, shared by both workers.             *)
(***************************************************************************)
Reload(s) ==
  LET r == sess[s].run
  IN /\ At(s, "reload")
     /\ IF run[r].cancel THEN Load(s, "discard", r, sess[s].worker, sess[s].lease)
                         ELSE Goto(s, "finalize")
     /\ UNCHANGED <<run, hold, patches, handed>>

\* Bugs: the finalization's UPDATE tests the status only, or misses the cancellation.
FinalizableAgain(r) == run[r].status = "running" /\ ~run[r].cancel
FinalizableCancelled(r) == run[r].status = "running" /\ ~run[r].done

\* _claim_cloud_run_finalization: the conditional UPDATE that opens the last transaction.
Finalizable(r) == run[r].status = "running" /\ ~run[r].done /\ ~run[r].cancel

\* The row as the finalization's transaction leaves it.
Finalized(r, status, withPatch) ==
  [run[r] EXCEPT !.status = status, !.done = TRUE, !.patch = withPatch \/ @]

\* A patch is stored for a patch_ready result, and for one that failed only its tests.
\* When the task refuses PATCH_READY, a lease's request dies with its transaction (Abort),
\* but the local worker catches the exception and commits a failed run with its patch.
Finalize(s, status, withPatch) ==
  LET r == sess[s].run
  IN /\ At(s, "finalize")
     /\ status = "patch_ready" => withPatch
     /\ Finalizable(r)
     /\ run' = [run EXCEPT ![r] = Finalized(r, status, withPatch)]
     /\ patches' = [patches EXCEPT ![r] = IF withPatch THEN @ + 1 ELSE @]
     /\ Close(r, "settled")
     /\ Finish(s)
     /\ UNCHANGED handed

FinalizationLost(s) ==
  LET r == sess[s].run
  IN /\ At(s, "finalize")
     /\ ~Finalizable(r)
     /\ IF run[r].cancel
          THEN Load(s, "discard", r, sess[s].worker, sess[s].lease)
          ELSE Finish(s)
     /\ UNCHANGED <<run, hold, patches, handed>>

\* _mark_claimed_cloud_run_cancelled: an ORM write by id.
Discard(s) ==
  LET r   == sess[s].run
      saw == sess[s].saw
  IN /\ At(s, "discard")
     /\ run' = [run EXCEPT ![r].status = Flushed(saw.status, "cancelled", @),
                           ![r].done = TRUE,
                           ![r].patch = Flushed(saw.patch, FALSE, @),
                           ![r].token = IF saw.token \in {"live", "expired"} THEN "used" ELSE @]
     /\ Close(r, "settled")
     /\ Finish(s)
     /\ UNCHANGED <<patches, handed>>

-----------------------------------------------------------------------------
(***************************************************************************)
(* cancel_cloud_run.  The status is read first, and chooses which guarded  *)
(* UPDATE is tried; a terminal run is returned as it is.                   *)
(***************************************************************************)
Cancel(s, r) ==
  /\ Idles(s)
  /\ \/ run[r].status = "queued"  /\ Begin(s, "cancel_queued", r, NoWorker)
     \/ run[r].status = "running" /\ Begin(s, "cancel_running", r, NoWorker)
  /\ UNCHANGED <<run, hold, patches, handed>>

CancelQueued(s) ==
  LET r == sess[s].run
  IN /\ At(s, "cancel_queued")
     /\ run[r].status = "queued"
     /\ run' = [run EXCEPT ![r].status = "cancelled", ![r].cancel = TRUE, ![r].done = TRUE,
                           ![r].token = IF @ = "none" THEN @ ELSE "used"]
     /\ Close(r, "released")
     /\ Finish(s)
     /\ UNCHANGED <<patches, handed>>

CancelLostRace(s) ==
  LET r == sess[s].run
  IN /\ At(s, "cancel_queued")
     /\ run[r].status # "queued"
     /\ IF run[r].status \in Terminal THEN Finish(s) ELSE Goto(s, "cancel_running")
     /\ UNCHANGED <<run, hold, patches, handed>>

\* Bug: the refund of a queued run's cancellation is given to a running one.
CancelRunningRefunds(s) ==
  LET r == sess[s].run
  IN /\ At(s, "cancel_running")
     /\ run' = [run EXCEPT ![r].cancel =
                  @ \/ (run[r].status = "running" /\ ~run[r].done)]
     /\ Close(r, "released")
     /\ Finish(s)
     /\ UNCHANGED <<patches, handed>>

CancelRunning(s) ==
  LET r == sess[s].run
  IN /\ At(s, "cancel_running")
     /\ run' = [run EXCEPT ![r].cancel =
                  @ \/ (run[r].status = "running" /\ ~run[r].done)]
     /\ Finish(s)
     /\ UNCHANGED <<hold, patches, handed>>

-----------------------------------------------------------------------------
(***************************************************************************)
(* The environment: the clock, and crashes.                                *)
(***************************************************************************)
LeaseExpires(r) ==
  /\ run[r].expires = "live"
  /\ run' = [run EXCEPT ![r].expires = "expired"]
  /\ UNCHANGED <<hold, patches, handed, sess>>

TokenExpires(r) ==
  /\ run[r].token = "live"
  /\ run' = [run EXCEPT ![r].token = "expired"]
  /\ UNCHANGED <<hold, patches, handed, sess>>

Abort(s) ==
  /\ ~Idles(s)
  /\ Finish(s)
  /\ UNCHANGED <<run, hold, patches, handed>>

-----------------------------------------------------------------------------
Enqueueing(s) == \/ \E r \in Runs : Submit(s, r)
                 \/ Tokenise(s) \/ CallProvider(s) \/ ProviderAccepted(s)
                 \/ ProviderFailed(s) \/ Withdraw(s)

Leasing(s) == \/ \E w \in Workers, r \in Runs :
                   \/ SelectCandidate(s, w, r)
                   \/ \E n \in 1 .. MaxAttempts : Heartbeat(s, r, <<n, w>>) \/ Complete(s, r, <<n, w>>)
              \/ ClaimLease(s) \/ ExtendLease(s) \/ ConsumeToken(s)

Sweeping(s) == (\E r \in Runs : Sweep(s, r)) \/ Requeue(s) \/ Exhaust(s)

LocalWorking(s) == \/ \E r \in Runs : ProcessLocally(s, r)
                   \/ ClaimLocally(s) \/ Executed(s) \/ PreflightFailed(s)

Finalizing(s) == \/ Reload(s)
                 \/ \E status \in {"patch_ready", "failed"}, withPatch \in BOOLEAN :
                      Finalize(s, status, withPatch)
                 \/ FinalizationLost(s) \/ Discard(s)

Cancelling(s) == \/ \E r \in Runs : Cancel(s, r)
                 \/ CancelQueued(s) \/ CancelLostRace(s) \/ CancelRunning(s)

Next == \/ \E s \in Sessions : \/ Enqueueing(s) \/ Leasing(s) \/ Sweeping(s)
                               \/ LocalWorking(s) \/ Finalizing(s) \/ Cancelling(s)
                               \/ Abort(s)
        \/ \E r \in Runs : LeaseExpires(r) \/ TokenExpires(r)

Spec == Init /\ [][Next]_vars

(***************************************************************************)
(* Fairness.  A handler that has begun ends, if only by dying.  Where an   *)
(* operator keeps calling the sweep route and workers keep polling, a      *)
(* sweep and a claim that stay possible are not starved or killed forever. *)
(* Workers pause between heartbeats and do not heartbeat one lease         *)
(* forever: in the end it lapses in a pause.  Nothing is assumed of        *)
(* completions.                                                            *)
(***************************************************************************)
NoHeartbeat == \A s \in Sessions : ~At(s, "beat")

InHandler(s) == ~Idles(s) /\ (Enqueueing(s) \/ Leasing(s) \/ Sweeping(s) \/ LocalWorking(s)
                              \/ Finalizing(s) \/ Cancelling(s) \/ Abort(s))

Fairness ==
  /\ \A s \in Sessions : WF_vars(InHandler(s))
  /\ []<>NoHeartbeat
  /\ \A r \in Runs :
       /\ SF_vars(NoHeartbeat /\ LeaseExpires(r))
       /\ SF_vars(\E s \in Sessions : Sweep(s, r))
       /\ SF_vars(\E s \in Sessions : sess[s].run = r /\ (Requeue(s) \/ Exhaust(s)))
       /\ SF_vars(\E s \in Sessions, w \in Workers : SelectCandidate(s, w, r))
       /\ SF_vars(\E s \in Sessions : sess[s].run = r /\ ClaimLease(s))

FairSpec == Spec /\ Fairness

(***************************************************************************)
(* Orderly handlers.  A submission and a sweep write the status by id,     *)
(* whatever became of the row they loaded.  OwnersAlone says of a state    *)
(* that a submission overlaps with nothing that could write its run's      *)
(* status, and a sweep with no handler that is about to end its run and    *)
(* with no other sweep.  Everything else - claims, heartbeats,             *)
(* completions, the local worker, cancellations, discards - may overlap    *)
(* in any way, and the clock and crashes come when they like.              *)
(***************************************************************************)
Submitting == {"tokenise", "send", "sent", "withdraw"}
Ending     == {"consume", "execute", "reload", "finalize", "discard"}
Bystanding == {"idle", "beat", "cancel_running"}

OwnersAlone ==
  \A s, t \in Sessions : s # t /\ sess[s].run = sess[t].run =>
    /\ sess[s].pc \in Submitting => sess[t].pc \in Bystanding
    /\ sess[s].pc = "sweep" => sess[t].pc \notin Ending \cup {"sweep"}

OrderlySpec     == Init /\ [][Next /\ OwnersAlone']_vars
FairOrderlySpec == OrderlySpec /\ Fairness
-----------------------------------------------------------------------------
(***************************************************************************)
(* Properties.                                                             *)
(***************************************************************************)

\* Every column, reservation and handler stays within the values the code gives it.
TypeOK == /\ run \in [Runs -> Row]
          /\ hold \in [Runs -> {"none", "reserved", "released", "settled"}]
          /\ patches \in [Runs -> Nat]
          /\ handed \subseteq Runs
          /\ sess \in [Sessions -> Session]

\* Every path that ends a run - finalization, cancellation, exhausted attempts, failed
\* preflight or submission, even by a stale write - stamps completed_at in the
\* transaction that closes the reservation: the budget is held exactly while the run is
\* not completed, and no terminal run holds any.
HeldWhileOpen ==
  \A r \in Runs : /\ run[r].done <=> hold[r] \in {"released", "settled"}
                  /\ run[r].status \in Terminal => run[r].done

\* However many completions, sweeps and retries overlap, finalization stores at most one
\* patch for a run, and a run whose budget was refunded in full never stored one.
OnePatchPerRun ==
  \A r \in Runs : /\ patches[r] <= 1
                  /\ hold[r] = "released" => patches[r] = 0

\* Once closed, a reservation is never closed again, in particular not refunded by a late
\* cancellation of a run that a stale write put back in the queue.
ReservationClosesOnce ==
  [][\A r \in Runs : hold[r] \in {"released", "settled"} => hold'[r] = hold[r]]_vars

\* A cancellation that a running run's row accepted is authoritative: from then on no
\* finalization stores a patch, though every handler decided on a row it read earlier.
CancelPrecludesPatch ==
  [][\A r \in Runs : run[r].cancel => patches'[r] = patches[r]]_vars

\* Where tokens are required, only the worker a run was bound to ever gets a lease on it,
\* and never before the run's token exists.
LeaseOnlyToAgent ==
  \A r \in Runs : run[r].lease # NoLease =>
                    /\ run[r].lease[2] = Agent[r]
                    /\ run[r].token # "none"

\* A run's terminal status is its outcome: no later write changes it.
TerminalIsFinal ==
  [][\A r \in Runs : run[r].status \in Terminal => run'[r].status = run[r].status]_vars

\* A completion takes effect only while the lease it presented is the run's lease.
OnlyCurrentLeaseFinalizes ==
  [][\A s \in Sessions :
       LET r == sess[s].run IN
         (At(s, "finalize") /\ ~run[r].done /\ run'[r].done /\ sess'[s] = Idle)
           => run[r].lease = sess[s].lease]_vars

\* Work is only executed against a reservation that is still held.
RunningIsFunded ==
  \A r \in Runs : run[r].status = "running" => hold[r] = "reserved"

\* A leased run whose worker went silent does not stay with it: sooner or later the sweep
\* takes it back or fails it, unless it ends some other way.
SilentWorkerLosesRun ==
  \A r \in Runs :
    (run[r].status = "running" /\ run[r].expires = "expired" /\ ~run[r].done)
      ~> (run[r].status # "running" \/ run[r].expires # "expired" \/ run[r].done)

\* max_attempts ends the retries: a hashless run in the queue is finished in the end even
\* if every worker that claims it goes silent, unless it is cancelled or taken locally.
RetriesEnd ==
  \A r \in Runs \ Protected :
    run[r].status = "queued" ~> (run[r].done \/ run[r].cancel \/ run[r].worker = Local)

(***************************************************************************)
(* The promises of RunSettlement, read off the tables.                     *)
(***************************************************************************)
Settlement == INSTANCE RunSettlement WITH
                account   <- hold,
                published <- [r \in Runs |-> patches[r] > 0],
                revoked   <- [r \in Runs |-> run[r].cancel]

ImplementsSettlement == Settlement!Spec

(***************************************************************************)
(* The life of a run, read off its row and its reservation.                *)
(***************************************************************************)
Lifecycle == INSTANCE RunLifecycle WITH
               NoHolder <- NoWorker,
               stage    <- [r \in Runs |-> run[r].status],
               lease    <- [r \in Runs |-> run[r].lease],
               attempts <- [r \in Runs |-> run[r].attempts],
               account  <- hold

ImplementsLifecycle == Lifecycle!Spec
=============================================================================
