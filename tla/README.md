# AI-SCDC control plane: TLA+ specifications and proofs

AI-SCDC is a FastAPI control plane (`src/apps/api`) that plans software tasks, runs
them locally or in the cloud, collects patches, tests, reviews and approvals, and
publishes pull requests. Remote workers lease cloud runs over HTTP; Aliyun queue,
container, object-storage and key services sit behind provider classes. State lives in
one relational database (SQLite by default, `db/session.py`), reached through SQLModel
sessions, one per request.

## 1. The system

### How the parts share state

Every request handler is a sequence of transactions on its own session. No isolation
level is configured and rows carry no version column, so the code has two kinds of write:

* a *guarded UPDATE* (`update(X).where(id, status == ...)`, then `rowcount`), which tests
  and writes in one step and locks the row until the commit;
* an *ORM write*: load the row, decide, assign, commit. SQLAlchemy flushes only the
  columns that changed, `WHERE id = ...`; whatever happened to the row meanwhile is
  overwritten in those columns and kept in the others.

This holds for SQLite in its default journal mode (reads take no lasting lock) and for
PostgreSQL at READ COMMITTED. Most hazards of this code are an ORM write decided on a
row that another handler has changed, or a process that dies between two commits.

### Inventory

| Component | State it keeps | Operations | What is hard | What makes it correct |
|---|---|---|---|---|
| Cloud run lifecycle (`cloud_runner.py`) | `cloud_run` rows: status, lease, attempts, cancel request, token; patch artifacts | enqueue, claim/heartbeat/complete a lease, sweep expired leases, local processing, cancel | leases that expire under a completion, overlapping sweeps, cancellation against finalization, provider errors that are ambiguous | one settlement, one patch, cancellation is authoritative, terminal is final, retries end |
| Budget (`budgeting.py`, `usage_ledger.py`) | wallet, spend limit, reservations, usage entries | grant, reserve, release, settle | wallet balance is read, changed in Python and written back; limits are checked before the reservation is written | money is conserved, limits are kept, a run is billed once |
| Queue and runtimes (`cloud_queue_providers.py`, `remote_runtime.py`) | message ids, receipts, container ids | enqueue, receive, delete, submit, clean up | redelivery, lost answers, receipts that outlive their message | a message is deleted only after its run ended, and in the end it is |
| Task workflow (`task_state.py`, `local_runner.py`, `test_review_debug.py`, `patch_approval.py`) | task status (18 values), local runs, test runs, reviews, approvals | transition, run, test, review, debug, approve | status read before long work and written after it, crash in `SELF_TESTING` | transitions follow the table, an approval refers to the tested patch |
| Pull requests (`github_pull_request.py`) | pull request records | publish, refresh | a crash after GitHub accepted and before the commit | one pull request per approved patch |
| Remote worker (`remote_worker.py`) | working directory, lease, receipt, result | boot or receive, claim, payload, four heartbeats, checkout, commands, uploads, complete | it may die anywhere, hear of a cancellation late, or go on after its lease was taken back | a patch rests on complete uploads of the last lease, a cancellation that was heard is reported |
| Artifact plane (`artifact_plane.py`, `object_storage.py`) | stored objects, artifact rows | upload, verify, read | an upload whose answer is lost, an upload under an old lease | completion refers only to complete uploads |
| Cloud run logs (`cloud_run_logs.py`, `cloud_run_log_sync.py`) | log entries, the log stream columns of a run | append, page, synchronize | cursors against later entries and a stream that another reader replaces | every entry and line once, in order |
| User sessions (`user_session_credentials.py`, `auth_context.py`, `identity_device_sessions.py`) | session rows, rotating secrets | create, rotate, authenticate, revoke | two requests rotate at once, replay of the old secret | one live secret, revocation is final |
| Login and logout (`identity_login.py`, `identity_logout.py`, `provider_logout_continuations.py`) | login transactions, device sessions, continuations with sealed hints | start, callback, onboard, link, recent authentication, sign out, continue at the provider | callbacks repeated or late, two sign-outs, provider calls between transactions | a transaction yields one session, a customer has one account, a hint is spent once |
| Identity status (`identity_status_synchronization.py`, `external_identity_restoration.py`, `account_link_recovery.py`) | external identity: status, claim token, due time; recoveries | claim, ask, apply, back off, restore, link | answers overtaken by answers, logins and restorations | a blocked identity stays blocked until restored, and loses its sessions in the end |
| Audit (`audit_operations.py`, ...) | audit events, the retention state row | record, export, prune | several processes prune, slow claims are taken over | one cleanup a day, nothing is pruned before its time |
| Identity provider client (`authing_ciam_provider.py`) | signing keys, management token (shared by threads) | validate, query, refresh | fetches that overtake each other, tokens dropped by another thread | a steady provider is never refused |
| Secrets (`secret_vault.py`, `aliyun_kms.py`) | envelopes, key versions | seal, open | cryptography, requests | what was sealed can be opened |
| Planner runs and tasks (`repository.py`, `model_planner.py`) | planner runs, drafts, approvals, tasks | plan, approve, reject, create a task | two decisions that read the same status | a run is decided once, each draft of an approved one becomes one task |
| Model settings, gateway | provider settings | route, call | HTTP failures | - |
| Executors (`docker_sandbox.py`) | none in the database | clone, run, diff | I/O | - |
| Worker CLI, desktop client, protocol schemas | files, view state | - | - | - |

Calls go from routes to services; services share rows, not messages. `cloud_runner`
calls `budgeting` inside its own transactions, and the queue and runtime providers
between them. Remote workers call back over HTTP with a lease id and, for protected
runs, a one-time token. The full list, with the status of each part, is `components` in
`PROJECT.json`; `hazards` lists what is hard to test, at its line.

## 2. Modules

| Module | What it is |
|---|---|
| `RunSettlement` | abstract: what is promised about a run that cannot be taken back |
| `RunLifecycle` | abstract: the life of a run as its owner is told it |
| `CloudRun` | the lifecycle of cloud runs, one action per commit of each handler |
| `Budget` | the money of one workspace: wallet, limits, reservations, usage |
| `UserSession` | one session row with its rotating secret, and the browser that holds its cookie |
| `TaskWorkflow` | one task from a patch to a pull request: tests, reviews, approvals, publication |
| `RemoteWorker` | one protected run, its worker processes, its queue message or container, and the operator's clean-up |
| `Identity` | one customer at the identity provider: login transactions, account, sessions, status, restoration |
| `ProviderLogout` | the sign-out of one device session and its continuation at the provider |
| `AuthingClient` | what the threads of one process share when they call the provider |
| `AuditRetention` | the daily cleanup that several processes compete for |
| `LogWindow` | the log of one run, read page by page while it grows and is synchronized |
| `PlannerRun` | planner runs, the decision on them, and the tasks that come of them |
| `MCCloudRun`, `MCBudget`, `MCUserSession`, `MCTaskWorkflow`, `MCRemoteWorker` | the instances that TLC checks |
| `MCIdentity`, `MCServices` | instances of two and of five modules side by side |
| `CloudRunProofs`, `BudgetProofs`, `UserSessionProofs`, `TaskWorkflowProofs`, `RemoteWorkerProofs`, `IdentityProofs`, `ProviderLogoutProofs`, `ServiceProofs` | theorems, for every value of the constants |

The models are written alike. The variables are the rows (restricted to the columns
that decide something) and, for every request handler in flight, a record: the step `pc`
it is at and what it has read. An action is one transaction together with the reads that
decide it, or the read alone when a later write relies on it. Handlers interleave between
their actions. A handler that raises or dies disappears; what it committed stays.
`CloudRun` takes reservations to be closed by a conditional UPDATE and knows nothing of
amounts; `Budget` shows what that does to the money; `TaskWorkflow` meets `CloudRun` where
the finalization of a run moves the task; `RemoteWorker` sees the API's handlers of
`CloudRun` from outside, as single steps, and interleaves the worker, the queue, the
container service and the operator with them; `Identity` creates the sessions whose
secrets `UserSession` rotates and whose sign-out `ProviderLogout` continues.

`MCIdentity` and `MCServices` check modules that share no state in one run: a behaviour is
one of one of them while the others stay in their initial states, so the state spaces add
up and are not multiplied, and every property is checked exactly as in a run of its own
(`IdentitySideBySide` and `ServicesSideBySide` prove that these instances imply the
specifications they are made of).

Some variables never change: `crew` in `Budget` (the handlers that serve the workspace),
`net` in `UserSession` (what its network may do), `mode` in `TaskWorkflow` (how
handlers are run) and in `RemoteWorker` (queue or container), `overlap` and `legacy` in
`Identity` (may closing transactions overlap; is there a legacy user with the customer's
e-mail). One run thus checks a property under the conditions it holds in next to
the properties that need none.

### CloudRun

`run` is the `cloud_run` table; `hold` the status of each run's reservation; `patches` the
number of patch artifacts created; `handed` the runs whose token has left the API; `sess`
the handlers in flight, records `[pc, run, worker, lease, saw]` where `saw` is the row as
the handler loaded it.

| Handler | Actions |
|---|---|
| `enqueue_cloud_run` | `Submit`, `Tokenise`, `CallProvider`, then `ProviderAccepted` or `ProviderFailed`, `Withdraw` |
| `claim_next_cloud_run_lease` | `SelectCandidate`, `ClaimLease` |
| `heartbeat_cloud_run_lease` | `Heartbeat`, `ExtendLease` |
| `requeue_expired_cloud_run_leases` | `Sweep`, then `Requeue` or `Exhaust` |
| `complete_cloud_run_lease` | `Complete`, `ConsumeToken`, then the finalization |
| `process_cloud_run` | `ProcessLocally`, `ClaimLocally`, then `PreflightFailed` or `Executed` and the finalization |
| `_finalize_claimed_cloud_run_result` | `Reload`, then `Finalize`, `FinalizationLost`, `Discard` |
| `cancel_cloud_run` | `Cancel`, then `CancelQueued`, `CancelLostRace`, `CancelRunning` |

`Flushed` is the unit of work's rule for stale writes: a column is written only when the
assigned value differs from the loaded one. `LeaseExpires` and `TokenExpires` are the
clock. Sweeping one row at a time is the sweep's loop with `limit = 1`; a batch commits
its rows together, which allows no outcome that overlapping sweeps of one row do not.

Abstractions: a lease id is named by its attempt and its worker (ids are fresh, and one
claim issues one); the outcome of an execution is chosen nondeterministically; log
entries, events and provider metadata are left out, and of task transitions only that a
task that refuses `PATCH_READY` makes the local worker commit a failed run with its patch
(`Finalize` with `failed` and a patch). Runs of `remote_stub` are left out: its token
reaches nobody.

`RunSettlement` has three functions on runs: the reservation (`account`), whether a patch
is `published`, whether a cancellation was accepted (`revoked`). A run is reserved, may be
revoked, and is then published or forgone; publishing settles and is impossible once
revoked. `CloudRun` implements it with `account <- hold`,
`published[r] <- patches[r] > 0`, `revoked[r] <- run[r].cancel`.

`RunLifecycle` has four functions on runs: the status (`stage`), the `lease`, the number of
`attempts`, and the reservation (`account`). A run is enqueued; a waiting run is granted to
a worker under a new attempt, or taken by the local worker, while its reservation is held;
a run whose holder is given up waits again, as long as attempts are left; and it ends once,
by the step that closes its reservation, refunded only out of the queue. `CloudRun` does
not implement it in every interleaving: a submission that fails and a sweep write the
status by id, whatever became of the row they loaded. It does under `OrderlySpec`, whose
states satisfy `OwnersAlone`: a submission meets no handler that could write its run's
status, and a sweep neither another sweep nor a handler that is about to end its run. All
other handlers, crashes and the clock overlap as they like. Nothing in the code enforces
the condition; it says which two handlers rely on their row staying as they read it, and
that no other handler does.

### Budget

`wallet` and `limit` are the rows of one workspace, `resv` and `usage` the reservation and
the usage entries of each of its runs, `granted` the sum of all grants (a history
variable), `month` the calendar.

| Handler | Actions |
|---|---|
| `grant_manual_credit` | `ReadForGrant`, `Grant` |
| limits of the workspace | `SetLimit` |
| `reserve_cloud_run_budget` | `CheckLimit`, `ReadWallet`, `Reserve` |
| `release_cloud_run_reservation` | `BeginRelease`, `Release` |
| `settle_cloud_run_budget` | `BeginSettle`, `Settle` |

Each handler reads in its first steps and commits balance and rows together in its last;
`Abort` is one that ends before. The conditional UPDATE of
`_transition_reserved_reservation` locks the reservation before the wallet is read. Limits
are checked by the reading step, because that is when the code does it. `NextMonth` may
come between any two steps.

Abstractions: amounts are small integers; currencies and the wallet's status are left out;
the entries of one run are summed.

### UserSession

`row` is the session row. A secret is its number in the order of issue; the row keeps the
current one and its predecessor, and what the clock has decided about it (`grace`, `due`,
`hour`, `idle`). `jar` is the browser's cookie, `req` the requests in flight, from `Send`
over one action per outcome of `resolve_user_session_credential` (`TurnAway`, `FindIdle`,
`FindReplay`, `Accept`, `Rotate` or `RotationLost`, `Renew`, ...) to `Respond` and
`Deliver` or `Lose`. Recent authentication, sign-out and revocation from another device
write the same row. Rotation tests the secret it replaces in its UPDATE; expiry, the
reaction to a replay and sign-out write by id.

Abstractions: the clock is four Booleans, each set when its interval ends; the network
is one of the members of `Networks`: whether responses may be lost or reordered, and whether one may
stay under way longer than the two minutes in which the old secret is accepted.

### TaskWorkflow

`status` is the task's; `kind`, `tests`, `review`, `approved`, `record` are the rows of
each of its patch artifacts, `github` the pull requests that exist for it. A handler that has
read the status and not yet written the next one is in one of the `Windows`, with the
status it will write in `new`; `Load` enters a window and `WriteStatus` writes by id.

| Handler | Actions |
|---|---|
| `transition_task`, `request_human_approval` | `Ask` or `RequestHumanApproval`, `Move` |
| `start_local_task_run` | `RunLocally`, then `LocalPatch` or `LocalFailure` |
| end of a cloud run | `EndCloudRun`, then `CloudPatch`, `KeepRefusedPatch` or `DropRefusedPatch` |
| `start_patch_test_run` | `StartTests`, `BeginTests`, `EndTests`, `RecordTests`; without a worktree `ReplayTests`, `RecordReplay` |
| `start_patch_review` | `Review`, `RecordReview` |
| `approve_patch_artifact` | `Approve`, `RecordApproval` |
| `create_pull_request_for_approval` | `Publish`, `CreateRecord`, `CallGitHub` or `CallFails`, `MarkFailed` or `MarkFinalizing`, `Finalize`, `RecordCreated`; `Resume` for a retry |

A review, an approval and a record are each unique per artifact: of two handlers that
overlap the constraint refuses the second, whose transaction is rolled back. The answer of
GitHub may be lost after the pull request was created.

Abstractions: findings of a review other than the tests' result are a nondeterministic
refusal; events, audit rows and debug attempts are written with the modelled rows and
decide nothing; `Transitions` is the code's table, whole.

### RemoteWorker

`run` is the row of one protected run with its receipt and the status of its container,
`stored` the artifacts recorded under each lease, `queue` the message at MNS and the
number of its last delivery, `container` the container group at ECI, `proc` the worker
processes, `api` the completion each of them has asked for, `op` the operator's requests.

| Code | Actions |
|---|---|
| `enqueue_cloud_run`, from the call to its provider | `SendMessage`, `CreateContainer`, `SeedObjects`, `RecordSubmission`, `RefuseSubmission` |
| queue consumer, `run_remote_worker_from_env` | `Receive`, `Boot` |
| `run_once` | `Claim`, `Payload`, `FirstHeartbeat`, `Checkout`, `HeartbeatAfterCheckout`, `HeartbeatInCommands`, `RunCommands`, `LastHeartbeat`, `Upload`, `Complete` |
| `_finalize_claimed_cloud_run_result`, `_ack_mns_queue_receipt_after_terminal_commit` | `Finalize`, `Acknowledge`, `RecordAck` |
| `retry_retained_mns_queue_receipt_delete` | `RetryReceipt`, `RetryDelete`, `RecordRetry` |
| `cleanup_aliyun_eci_terminal_runtime_job` | `Cleanup`, `DeleteContainer`, `RecordCleanup` |
| clock and others | `LeaseExpires`, `TokenExpires`, `Sweep`, `Cancel`, `Reappear` (visibility timeout), deaths of worker, API and request |

A call of the worker is one step, the handler's; its answer may be lost, after which the
worker does what `run_once` does for an error of that call. Every call to MNS or ECI
between two commits is a step of its own. Abstractions: the message's body, digests and
paths; the outcome of checkout and commands is chosen; the four artifacts and the manifest
are a count. `MaxDeliveries` bounds redelivery.

### Identity

`identity` is the `external_identity` row (whom it is linked to, status, claim token, due),
`tx` the login transactions, `sess` the device sessions named by the transaction that
creates them, `recovery` the `account_link_recovery` row, `provider` the truth at Authing.
`accounts` and `made` are history.

| Code | Actions |
|---|---|
| `start_login`, `start_recent_authentication` | `StartLogin`, `StartRecentAuthentication` |
| `complete_login_callback` | `Callback`, `ClaimTransaction`, `Exchange`, `AskStatus`, `LoadIdentity`, then `RejectInactive`, `Deny`, `LogIn`, `Onboard`, `RequireAccountLink` or `CompleteRecentAuthentication`; `Reject` |
| `reject_provider_callback` | `ProviderRefuses`, `Reject` |
| `synchronize_due_identity_status` and the sweep over active sessions | `CheckFallsDue`, `ClaimCheck`, `Answer` or `NoAnswer`, `ApplyConfirmedClaim` or `RecordFailedClaim` |
| `restore_external_identity` | `FindRestorable`, `AskForRestoration`, `Restore` |
| `create_account_link` | `FindLinkable`, `CreateAccountLink` |
| session routes | `RevokeSession`, `RevokeOtherSessions` |

The closing transaction of a callback is two steps, the load of the row (`LoadIdentity`)
and the decision with its commit, because the code decides on what it loaded;
`RecordConfirmed` writes the columns that differ from it. Restoration and status answers
test the row in their UPDATE and are one step. Abstractions: "missing" is "disabled";
e-mail matching is the flag `legacy`; the expiry of a transaction and another browser's
callback are a nondeterministic rejection; rollout and account scope are `Deny`;
workspaces, audit rows and invitations are left out.

### ProviderLogout

`device` is the session's status, `cont` the continuations (status, hint, browser secret),
`spent` how often a row's hint went to the provider.

| Code | Actions |
|---|---|
| login, `replace_provider_logout_continuation` | `SignIn`, `ReplaceContinuation` |
| `sign_out_current_device` | `BeginSignOut`, `RevokeDevice`, `PrepareRedirect` or `SkipRedirect` |
| `continue_provider_logout` | `Follow` (the cookie is checked), `ConsumeContinuation` |
| others | `RevokedElsewhere`, `SecretExpires`, `SignOutDies` |

Abstraction: a browser secret is named by the sign-out that made it.

### AuthingClient

`jwks`, `current` and `management` are the caches, `lock` is `_cache_lock`, `thread` the
calls in progress. `validate_id_token` is `BeginValidation`, `LoadKeys`, `FetchKeys`
(outside the lock), `StoreKeys`, `Decode`, with one refresh after an unknown key or a bad
signature; `identity_status` is `BeginQuery`, `UseToken` or `RequestToken` and `Login`
(under the lock), `Ask`, and `ClearToken` after a 401, with one retry. The provider rotates
and withdraws keys (also under the old key id) and ends tokens at any time. Keys and tokens
are numbers in the order of issue; claims and HTTP are left out.

### AuditRetention

`state` is the one `audit_retention_state` row, `events` what is kept of the events of each
hour, `sweeper` the processes: `Poll`, `EnsureState`, `ClaimCleanup`, `CompleteCleanup`, or
`CleanupFails` and `RecordFailure`; `OperatorCleanup` asks for no claim. The deletions and
the completion are one commit, undone when the claim was taken over; the commit also adds the
cleanup's own event (`Cleaned`). `events` has the most that is kept of an hour: nothing, the
report of a failed cleanup, an event, or one with network details. Such a report bears the
time at which the failed cleanup began and may be written after a later cleanup, so it is
told apart from the other events. A claim token is named by its process, which has one claim
at a time.

### LogWindow

`entries` are the committed control-plane entries in the order of (created_at, id),
`printed` the lines of the container, `stream` the window of them that the log_stream_*
columns describe, `seeded` whether the columns are set at all: `SubmitRuntime` is the commit
that stores the runtime_job_id and a log of one line about the submission, which counts on a
page but is none of the container's lines; before it there is nothing to synchronize. A
request is `AskForPage`, `SyncLogs` (the provider returns the last `TailLines`
lines and the object is written), `PersistStream` or `ReloadRun`, `ReadPage`; `PageIsLost`
and `ReadAgain` are the client that repeats a request or begins anew. An entry may be
committed at any place of the order, before or behind a cursor. `Readable` is the size
check of `read_text`: columns of one object and bytes of another give no lines. `InOrder` is
the query's ORDER BY, `AfterPage` what a page leaves of its reader. The container's lines have
one length, and the submission's line is taken to have the size of no window (of two objects
of one size the ORM would keep the column, which a race can leave beside the other object).
The provider is aliyun_eci; the fixed lines of remote_stub and redaction are left out.

### PlannerRun

`plans` are the planner runs with the number of their drafts and of their usage rows,
`approvals` the approval rows, `board` the tasks, each with its `task_created` event (which
names the run and the draft), `decider` the requests that have read a status.

| Code | Actions |
|---|---|
| `create_planner_run`, `create_model_planner_result` | `CreatePlannerRun` (one transaction; `PlannerResults` is what the route, the keys, the gateway and the answer may yield) |
| `approve_planner_run`, `reject_planner_run` | `ReadPlan`, then `ApprovePlannerRun`, `RejectPlannerRun` or `DecisionFails` |
| `create_task` | `CreateTask` |

Between the read of the status and the commit anything may happen; what keeps two
decisions apart is the unique constraint of `approval` (`MayDecide`). Projects,
conversations and repositories are constants, because none ever changes its project; the
texts of goals and drafts, audit rows and permissions are left out. Drafts are written
with their run and never change.

## 3. Runs

| Run | Instance | Shows |
|---|---|---|
| `CloudRunDev` | 1 run, 2 workers, 3 handlers, 3 attempts | types, one patch, refinement of `RunSettlement` |
| `CloudRunToken` | 1 MNS and 1 ECI run, 2 workers, 2 handlers, tokens required | a reservation is held exactly as long as its run is open, failed submissions included; leases go to the bound agent |
| `CloudRunOrderly` | 1 run, 2 workers, 3 handlers, 3 attempts, `OrderlySpec`, fair | refinement of `RunLifecycle` (so statuses are final), results come from current leases, execution is funded, retries end |
| `CloudRunLive` | 1 run, 1 worker, 2 handlers, fair | a worker that goes silent loses its run |
| `CloudRunStaleLease` | 1 run, 2 handlers | first disagreement below |
| `Services` | `Budget`: 2 runs, 1 or 2 handlers, 2 months; `AuthingClient`: 2 threads, 2 key ids, 2 keys, 2 tokens; `AuditRetention`: 2 processes, 4 hours; `LogWindow`: 2 readers, 2 entries, 3 lines, a tail of 2; `PlannerRun`: 2 projects, 2 planner runs, 2 decisions, 2 drafts, 2 tasks | balance, conservation, the monthly limit without overlap; a steady provider is not refused; one cleanup per interval, which leaves nothing past its retention; logs are read once and whole; a planner run is decided once |
| `BudgetOverspent` | 2 runs, 2 handlers | second disagreement below |
| `UserSession` | 3 requests, 3 rotations, 3 networks | one successor per secret, no false alarm, no refusal of an honest browser, the browser keeps up |
| `TaskWorkflow` | 2 artifacts, 2 tests each, 2 handlers, 3 modes | what approvals and pull requests rest on, one pull request per approval, a truthful status, attended tests, and what a lock on the task would add |
| `RemoteWorker` | 2 processes, 1 operator, 2 attempts, 3 deliveries, queue and container | receipts, containers, what a patch rests on, cancellations that were heard |
| `RemoteWorkerForgets` | the same with 2 deliveries | third disagreement below |
| `Identity` | `Identity`: 2 transactions, 2 handlers, fair; `ProviderLogout`: 2 continuations, 2 sign-outs, 2 returning browsers | everything takes effect once, blocks stay, a disabled customer loses access, hints are spent once |

### Bounds

* `CloudRun`: handlers of different runs touch different rows (each step names one run),
  so one run with three handlers shows every race of three requests, such as a sweep, a
  claim and a completion; two runs are used where the kinds of runs differ. Three attempts
  are the default of `max_attempts`.
* `Budget`: the estimate is 2, grants are 1 and 2 up to 4, so that balances meet the
  estimate exactly, miss it by one and cover it twice; usage is 0, less and more than the
  estimate; monthly limits are absent, or admit one run and not two; run limits are absent
  or refuse every run. Two handlers are all that a lost update
  needs. Two months separate the creation of a reservation from its settlement.
* `UserSession`: three requests, because a rotation, a request that still carries the old
  secret and one that already carries the new one may be under way together; secrets 0 to
  3, because a second rotation within the two minutes puts the first secret out of use.
* `TaskWorkflow`: two artifacts, because one status is shared by several; two tests, so
  that a latest one exists; two handlers. Users may set `APPROVED` (which skips the review),
  `CI_RUNNING` and `FIX_REQUESTED` (which lead an approved task back to a new patch), so
  that the properties about evidence are not saved by the status. `cloud_fake` is left out
  of the instance: its tests pass like those of a `docker_local` run without a record.

* `RemoteWorker`: two processes, because the races of worker and worker are those of one
  that goes on after its lease was taken back and the one that has the lease now; two
  attempts, for the same reason; three deliveries, so that a receipt is stale when it is
  used and again when it is retried. The operator's two kinds of request touch different
  columns and race with the API's, so one operator is enough for `RemoteWorker`'s
  properties; theorems have any number.
* `Identity`: two handlers are a callback and the handler that comes between its steps, or
  two callbacks; the second transaction is the recent authentication of the first, a
  second login, or the account link after a recovery.
* `ProviderLogout`: two rows (one replaces the other), two sign-outs, two browsers.
* `AuthingClient`: two keys under two ids or one, and two tokens: an old and a new one of
  each. With two threads each can be between fetch and store of the other.
* `AuditRetention`: an interval of 2 and a claim that times out after 1, so that a claim is
  overtaken within an interval; four hours hold two cleanups.
* `LogWindow`: pages of one or two of two entries, so that a page ends before, at and after the last
  entry; three lines and a tail of two, so that the window moves.
* `PlannerRun`: two planner runs, so that a decision could take the other's approval or
  tasks; two decisions, which is what a race needs; a conversation of one project and a
  repository of the other, so that a row of the wrong project can be named; runs of one and
  of two drafts, and two tasks, so that a run of two drafts can be approved.

Sizes: `Services` has 3.3 million states (about two minutes), `Identity` 0.4 million
(one minute, most of it liveness), the others take less than a minute or little more.

The theorems of section 4 remove these bounds for the properties they prove. Deadlock is
not checked where runs, sessions and tasks end. Requests and handlers are
interchangeable, so most safety runs use symmetry over them; `Services` is faster without,
and runs with liveness may not.

### Fairness

`CloudRun` and `Identity` state fairness (`Fairness`).

`CloudRun`: a handler that has begun ends, if only by
dying. The sweep has no scheduler in the code: an operator calls its route, and workers
poll, so both are assumed to be repeated for as long as they stay possible (strong
fairness, per run). Workers pause between heartbeats and do not heartbeat one lease for
ever. Nothing is assumed of completions, the local worker or cancellations. The route of
the sweep answers 403 where Dev Auth is not accepted (`worker_route_auth.py`): there,
nothing takes a run from a silent worker.

`Identity`: every request ends. The background thread of the API (`main.py`, `lifespan`) runs
`maintain_identity_status_synchronization` for as long as the process lives; it visits the
customers with an active session, and a check falls due by the clock. A
query may fail, die or be overtaken any number of times, but not always: hence strong
fairness of the claim, of an answer to a claim that still holds, and of its application.
Nothing is assumed of customers, operators or callbacks.

### Where code and documents disagree

* `CloudRunStaleLease`: completion checks the lease, commits, and finalizes without
  looking at it again; worker A's completion is accepted after the run was leased to B.
  `CloudRunOrderly` shows that the property holds where sweeps keep clear of completions.
* `BudgetOverspent`: two submissions read the same balance, and each writes it less one
  estimate; both are reserved, one is paid for. `Services` shows that money is lost or made
  only by a handler whose read is stale (`MoneyIsConserved`).
* `RemoteWorkerForgets`: the request that submits a run commits the message id after the
  message was sent. A worker that receives it earlier is granted the lease, but its receipt
  is dropped, and its completion leaves the message in the queue with no receipt to delete
  it by.

Other effects of overlap are recorded as hazards, with the properties that hold without
it; no document promises otherwise. A sweep that overlaps with a completion rewinds a
finished run, and one that overlaps with another sweep strands a queued run without
attempts; a cancellation that loses its race reports success; two
submissions pass the monthly limit together; responses that arrive out of order leave the
browser with a dead cookie; a status is overwritten by a handler that read an earlier one,
so that a cancelled task may become `ASSIGNED` again or two artifacts of one task may be
published (TLC finds both when `mode.locked` is taken out of `FinalIsFinal` and
`OnePublicationPerTask`); a login callback that loaded the customer's row before a status
synchronization disabled it creates a session afterwards (TLC finds it when `~overlap` is
taken out of `BlockedUntilRestored`). Without any overlap, a process that dies between the call to
GitHub and its answer leaves a record `creating` for ever; the tests of an `aliyun_eci`
patch cannot run in the API, whose worktree is a name; and a review is made once, so that
repeated tests do not change its verdict.

Some hazards have no property because no document says what should happen: a run that is
requeued with a cancel request is claimed by no remote worker; the death of the API while
it executes a run for the local worker leaves it running without a lease; a container is
not started again after its run was requeued; the token check of a claim refuses a worker
at the first protected run of the queue; the loss of a response with a new secret looks
like a replay two minutes later; a reservation that is settled in a later month is checked
against no limit. The models contain these behaviours, except the queue's order.

## 4. Proofs

The assumptions are those named in each module: constants are of the obvious types,
worker ids are distinct from the local one, agents are workers, bounds are positive, and a
workspace has finitely many runs (`RunsAssumption`: its sums are taken over the rows of a
table). No theorem bounds the number of runs, handlers, requests or attempts. Some
properties hold only under a condition, which their theorem names and section 3 explains:
`TokenRequired` (a deployment without Dev Auth), `OrderlySpec` (submissions and sweeps keep
clear of the handlers that could end their run), `Serial` (requests of a workspace do not
overlap), `Calm` (the browser's responses arrive, in order and in
time), `LockHolds`. The instances of the runs meet each of them. None of the invariants
below is inductive by itself except where it is said; TLC checked each of them on the
instance of its run before it was proved.

**`CloudRunProofs`**: `TypeCorrect`, `BudgetHeldWhileOpen`, `AtMostOnePatch`,
`ReservationsCloseOnce`, `CancellationPrecludesPatch`, `SettlementImplemented`
(`Spec => Settlement!Spec`). A step that ends a run closes its reservation only if it has
one, and a handler carries its run from step to step, so `Ledger` adds that the run of a
handler has been submitted (`HandlersOnSubmitted`), that a submitted run has a reservation
(`SubmittedReserved`), and that a stored patch has been settled (`PatchSettled`).
`StepEffect` goes through the actions once and shows that each of them keeps the books
(`Keeps`), submits a run (`Opens`), ends one (`Ends`) or publishes its patch
(`Publishes`). Everything else is a case split over these four.
`LeasesOnlyToAgents`: where tokens are required, a claim commits in a later step than the
selection that checked the worker and the token, so `AgentInv` adds what a claim under way
has established (`ClaimsByAgent`) and that no sweep runs (`NoSweep`): its route refuses.
Tokens are never taken back, and only a claim changes whom a lease belongs to
(`RowGuarded`).
`OrderlyRunningIsFunded`, `OrderlyTerminalIsFinal`, `OrderlyCurrentLeaseFinalizes` and
`LifecycleImplemented` (`OrderlySpec => Lifecycle!Spec`) are about overlapping handlers of
which submissions and sweeps keep clear of the others. `OrderlyInv` says at each step of a
handler what the row is known to be (`HandlerSound`). The difficulty is what the others may
do to it meanwhile. A handler that ends a run may find it ended already, but only under the
lease it knows, and after a cancellation only as cancelled; so a discard that comes late
writes what is there. The row of a handler that executes is still running, because nobody
else ends a run without having been given its lease or having executed it (`LocalAlone`).
`StepKeeps` says what a write must look like for the others not to mind: it changes neither
status nor lease nor attempts (`Quiet`), or ends the run where only handlers are left that
expect that (`Closing`), or nobody relies on the row. `OrderlyStep` shows that every action
is one of these. For the refinement, `Told` is what the owner learns from a step; seven
lemmas say which step of `RunLifecycle` each piece of news stands for, and `LifecycleStep`
finds the news of every action, with `OpenIsFunded` for the reservation.

**`BudgetProofs`**: `BudgetTypeCorrect`, `WalletNeverNegative`, `BillsAreCappedUsage`,
`ReservationsPaidBackOnce`. What a handler has read is never negative and covers what it
will subtract, so what it writes is not negative either, however stale; and a handler
that closes a reservation owns it alone, because the UPDATE that closes it locks its row.
`CommitsConserveMoney` and `MonthlyLimitKept` are about totals over all runs. What a sum over
a finite set is follows from the recursive definition of the community modules. The usual
way is induction on the set, which no installed prover can instantiate; instead the sets
for which a lemma fails form a set, whose smallest member (`SmallestSet`, from the library's
theorem on minima of well-founded relations, which takes a set) is refuted. `SumUnfolds`,
`SumWithout`, `SumSame` and `SumChanges` are what the theorems need: a commit changes one
reservation, so the total changes by the difference of that one. Conservation then is
arithmetic on one handler's commit. The monthly limit needs `LimitInv`: reservations carry
no date to come (`Dated`), so that a month begins with nothing used; and a serial handler
between its check and its commit still sees the check hold (`Checked`).

**`UserSessionProofs`**: `UserSessionTypeCorrect`, `OneSuccessorPerSecret`,
`EndedSessionsStayEnded`. Typing with `PreviousIsPredecessor` is inductive: every rotation
tests that the secret it replaces is the current one, and a write that is not a rotation
leaves both secrets and makes no session active.
`CalmBrowserKeepsUp`, `CalmBrowserIsNoReplay` and `CalmBrowserIsServed` say that an honest
browser on a calm network holds or is being sent the current secret, is never taken for a
thief and, without recent authentications in between, is never turned away. `CalmInv` adds
to them what is under way: every cookie that is being sent is newer than the one in the jar
and not newer than the row's, no two are the same, and when the two minutes are over
none is left and every request carries the current secret (`KeepsUp`); without recent
authentication the jar and every request hold the current secret or its predecessor, and
nobody who presented the current one can rotate while the last rotation is still fresh
(`Covered`).

**`TaskWorkflowProofs`**: `WorkflowTypeCorrect`, `ApprovalsRestOnTests`, `PublishedOnce`,
`PublicationsOnRecord`, `StatusTruthful`, `TestingAttended`, `PublishedOncePerTask`,
`FinalStays`. `IInv` says what a handler between its commits relies on (`Relies`), which
status it is about to write (`Writes`), that no two handlers test in one slot or publish
one artifact (`Apart`), and how the rows of an artifact belong together (`Artifact`).
`HandlerStep` is about steps that change no row, `RowStep`, `TestStep` and
`PublicationStep` about those that do; every action is an instance of one of them. Each of
them also shows that evidence stays (`EvidenceStays`), from which the status keeps
telling the truth although handlers overwrite it. The last two theorems need `LockHolds`: with a lock one handler at a time
is in a window, and no transition leads from the statuses of an approved task (`Late`)
back to one from which another artifact could be approved.

**`RemoteWorkerProofs`**: `TypeCorrect`, `CancelSafe`, `ContainerSafe`, `MessageSafe`,
`PatchSafe`. Each invariant is strengthened by what processes and handlers in flight rely
on: a process that was told of the cancellation has stopped or carries a failure; a
clean-up under way has seen the run terminal; a handler that acknowledges has made the run
terminal, and the receipt it holds is the row's; uploads are made under the lease that the
process holds, and a patch uses up the token that every later claim needs. The steps of a
process between claim and upload are alike, and so are the steps that change the row
alone; two groups of lemmas say once what they do.

**`IdentityProofs`**: `IdentityInvariant`, `IdentityTypeCorrect`, `LoginsTakeEffectOnce`,
`BlocksStay`. `IInv` adds to the types that a claimed transaction is in the hands of one
handler and has no session yet (`TransactionsOwned`); the account's part is inductive.
`BlocksStay` rests on `BlockInv`: where closing transactions do not overlap, a handler
that decides still sees the row as it is, and only a customer who is not blocked has
credentials.

**`ProviderLogoutProofs`**: `LogoutInvariant`, `HintsAreSpentOnce`. A hint that is kept has
not been spent; a sign-out revokes the session before it prepares a row; and a browser
whose cookie was found good finds the hint still there unless the row was prepared anew
for another secret, which its UPDATE tests.
`IdentitySideBySide` (`MCSpec => Spec /\ LogoutSpec`) carries this and the theorems of
`IdentityProofs` over to `MCIdentity`; `SideBySideTypeCorrect` is its `TypesOK`.

**`ServiceProofs`**: `AuditInvariant`, `CleanupsAreAnIntervalApart`. Whoever still
holds the claim in its cleanup found it due, and nothing was completed since; the rest is
arithmetic about the last cleanup, and `CleanedEvents`: what a cleanup leaves of each hour.
`SteadyProvidersServe`: a call remembers, by what was published and valid when it began,
whether the provider has changed; `ClientInv` says at each step of a call what a provider
that has not changed implies: the token's key is published under its id and is among the
keys that this call has fetched, and the second question is asked with a token that is
still good, so that no call is refused.
`PlansAreDecidedOnce`: the property with the types is inductive once the rows that are
referred to exist (`RowsExist`). A run without an approval row is `DRAFTED` and has no tasks
(`UndecidedHasNoTasks`), so whoever passes the unique constraint decides a fresh run,
whatever it read; the tasks it appends are the only ones of their drafts (`BoardGrows`).
`DecisionsStand` is the action property that goes with it: a decided run is written by no
later step, and the tasks that a step adds belong to a run that was undecided, or to none
(`OthersKeepTasks`).

`LogIsReadOnce`: a page is the beginning of the ordered list of entries behind the cursor.
`InOrderOf` shows that the list exists: an entry's place is the number of entries up to it,
places are different, and a one-to-one map between finite sets of one size is onto
(`RankTaken`). The rest is `LogInv`. Of the columns it says that they describe a tail of the
log (`StreamSound`), with a size that is right as long as the log fits, although a column
that keeps its loaded value is not written: two different tails that both begin with the
first line have different sizes. Of a reader it says that what it has loaded is no newer than
the columns unless they were set back (`RowSound`), that what was delivered is before its
cursor and what is owed behind it (`EntriesSound`), and that the line a cursor of the stream
points to, a number within a window, comes after every line delivered in whichever window it
is read next (`LinesSound`): windows only move forward. `EntriesOfPage` and `LinesOfPage`
show what one page adds, `PageKeepsReader` puts them together in its three cases: the page
ends among the entries, among the lines, or is the last. TLC checked `LogInv` with two
readers, three entries, four lines and a tail of two.

`ServicesSideBySide` says that a behaviour of `MCServices` is, seen through the variables of
one service, a behaviour of that service; `ServicesTypeCorrect` is its `TypesOK`.

Eight properties are proved and not run, because a theorem shows them for every
instance: `ReservationClosesOnce` and `CancelPrecludesPatch` of `CloudRun` (which
`ImplementsSettlement` and `OnePatchPerRun` imply on the instances), `TerminalIsFinal` of
`CloudRun` (which `ImplementsLifecycle` implies), `PaidBackOnce` and
`BillsMatchUsage` of `Budget`, `EndedIsFinal` of `UserSession`, `FinalIsFinal` of
`TaskWorkflow`, and `DecisionStands` of `PlannerRun`, which TLC checked on the instance of
`Services` before it was proved.

Only model-checked:

* `SilentWorkerLosesRun`, `RetriesEnd` and `BlockedLosesAccess`: liveness under fairness is
  out of the prover's reach.

Every invariant and every action property that a passing run checks is a theorem.

## 5. Plan

The modules of section 2 are done, each with its run and its proofs. What is left, in order
of importance:

1. An abstract specification of a planner run and of a session's end, as `RunSettlement` is
   one of a cloud run, with their refinements as theorems.
2. Repository connections, and the order in which a claim scans its candidates.

## 6. Not modelled

`components` in `PROJECT.json` names every part with its status. Left out:

* Secrets and key management: every call seals or opens one value; what could go wrong is
  cryptography or the answer of the key service.
* Model settings and gateway: single rows and one HTTP call, whose outcome `PlannerRun`
  chooses. Prompts, formats and HTTP errors are what matters in them.
* Projects, conversations and messages: single rows that are created and read.
* Authorization policy: static tables and checks of one request. The guards of a
  modelled handler that depend on the state are in its actions; who may call it is not.
* Executors: Docker, git and file system; the models choose their outcome.
* Routes, schemas and start-up: wiring, serialization and additive schema upgrades.
* The standalone worker, a simulator of one run without shared state; the desktop client,
  a view on the API; the protocol's JSON schemas.
* Within modelled parts: `remote_stub` runs (their token reaches nobody), the order of the
  candidate scan, repository connections, currencies and the wallet's status, workspace
  selection and service tokens, invitations, audit queries and exports, redaction.
