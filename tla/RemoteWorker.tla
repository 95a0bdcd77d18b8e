---------------------------- MODULE RemoteWorker ----------------------------
(***************************************************************************)
(* One protected cloud run and the remote worker processes that serve it   *)
(* (services/remote_worker.py): they are started by a queue message or in  *)
(* a container, call the API for everything, and may die anywhere.  The    *)
(* API's side is the handlers those calls reach, the acknowledgement of    *)
(* the message and the operator's clean-up (services/cloud_runner.py).     *)
(*                                                                         *)
(* CloudRun interleaves the API's handlers with each other; here a handler *)
(* is one step, except where it calls a queue or a container service       *)
(* between two commits.  What is interleaved is the worker with the API,   *)
(* the queue, the clock and the operator.                                  *)
(***************************************************************************)
EXTENDS Integers

CONSTANTS
  Procs,         \* worker processes alive at once
  Operators,     \* clean-up requests in flight at once
  MaxAttempts,   \* max_attempts of the run
  MaxDeliveries  \* bound: how often the message is delivered

ASSUME ProcsAssumption  == Procs # {} /\ Operators # {}
ASSUME BoundsAssumption == MaxAttempts \in Nat \ {0} /\ MaxDeliveries \in Nat \ {0}

VARIABLES
  mode,       \* "queue": a worker pulls the message; "container": one is started for the run
  submit,     \* where the request that submits the run is
  run,        \* the cloud_runs row
  stored,     \* number of artifacts recorded under each lease
  queue,      \* the message in Aliyun MNS
  container,  \* the container group in Aliyun ECI
  proc,       \* worker processes
  api,        \* the completion each process has asked for, while the API works on it
  op,         \* operator requests
  bound       \* history: the row has held a receipt

vars == <<mode, submit, run, stored, queue, container, proc, api, op, bound>>

Terminal == {"patch_ready", "failed", "cancelled"}

\* Diff, command results, test results, log, and the manifest that lists them, in this order.
AllUploaded == 5

\* A lease is named by the attempt that issued it, a receipt by its delivery; 0 is none.
Attempts   == 0 .. MaxAttempts
Deliveries == 0 .. MaxDeliveries

Row == [ status   : {"queued", "running"} \cup Terminal,
         cancel   : BOOLEAN,                       \* cancel_requested
         attempts : Attempts,
         lease    : Attempts,
         live     : BOOLEAN,                       \* lease_expires_at lies ahead
         token    : {"live", "expired", "used"},
         msgId    : BOOLEAN,                       \* queue_message_id IS NOT NULL
         receipt  : Deliveries,                    \* queue_receipt
         job      : BOOLEAN,                       \* runtime_job_id IS NOT NULL
         ext      : {"none", "submitted", "failed", "claimed", "deleted", "delete_failed",
                     "cleaned", "cleanup_failed"}, \* external_status
         patch    : Attempts ]                     \* whose diff is the patch artifact

\* What a process has to report: test_failed carries a diff, failed and cancelled do not count.
Results == {"none", "patch_ready", "test_failed", "failed", "cancelled"}

Process == [ pc : {"off", "claim", "payload", "beat1", "checkout", "beat2", "work",
                   "beat3", "upload", "complete", "wait"},
             receipt : Deliveries, lease : Attempts, told : BOOLEAN, exec : Results,
             sent : 0 .. AllUploaded ]
Off == [ pc |-> "off", receipt |-> 0, lease |-> 0, told |-> FALSE, exec |-> "none", sent |-> 0 ]

Handler == [ pc : {"none", "finalize", "ack", "record"}, lease : Attempts, exec : Results,
             ok : BOOLEAN ]
NoHandler == [ pc |-> "none", lease |-> 0, exec |-> "none", ok |-> FALSE ]

Request == [ pc : {"idle", "retry", "retried", "cleanup", "cleaned"}, receipt : Deliveries,
             ok : BOOLEAN ]
NoRequest == [ pc |-> "idle", receipt |-> 0, ok |-> FALSE ]

Init == /\ mode \in {"queue", "container"}
        /\ submit = "send"
        /\ run = [ status |-> "queued", cancel |-> FALSE, attempts |-> 0, lease |-> 0,
                   live |-> FALSE, token |-> "live", msgId |-> FALSE, receipt |-> 0,
                   job |-> FALSE, ext |-> "none", patch |-> 0 ]
        /\ stored = [l \in Attempts |-> 0]
        /\ queue = [state |-> "none", issued |-> 0]
        /\ container = "none"
        /\ proc = [p \in Procs |-> Off]
        /\ api = [p \in Procs |-> NoHandler]
        /\ op = [o \in Operators |-> NoRequest]
        /\ bound = FALSE

-----------------------------------------------------------------------------
(***************************************************************************)
(* Submission.  The row is committed, queued and with a live token; now    *)
(* the message is sent or the container created, and only then the message *)
(* id or the job id is recorded.  A worker may be faster.                  *)
(***************************************************************************)
SendMessage ==
  /\ mode = "queue" /\ submit = "send"
  /\ \/ queue' = [queue EXCEPT !.state = "visible"] /\ submit' \in {"sent", "refused", "gone"}
     \/ queue' = queue /\ submit' = "refused"
  /\ UNCHANGED <<mode, run, stored, container, proc, api, op, bound>>

CreateContainer ==
  /\ mode = "container" /\ submit = "send"
  /\ \/ container' = "up" /\ submit' \in {"store", "refused", "gone"}
     \/ container' = container /\ submit' = "refused"
  /\ UNCHANGED <<mode, run, stored, queue, proc, api, op, bound>>

\* A deleted container takes the process that runs in it along.
Killed(gone) ==
  proc' = IF gone THEN [p \in Procs |-> Off] ELSE proc

\* The first manifest and log are stored; a failure deletes the container, if that works.
SeedObjects ==
  /\ submit = "store"
  /\ \/ submit' = "sent" /\ UNCHANGED <<container, proc>>
     \/ /\ submit' = "refused"
        /\ container' \in {container, "gone"}
        /\ Killed(container' = "gone")
  /\ UNCHANGED <<mode, run, stored, queue, api, op, bound>>

RecordSubmission ==
  /\ submit = "sent"
  /\ submit' = "done"
  /\ run' = IF mode = "queue" THEN [run EXCEPT !.msgId = TRUE, !.ext = "submitted"]
                              ELSE [run EXCEPT !.job = TRUE, !.ext = "submitted"]
  /\ UNCHANGED <<mode, stored, queue, container, proc, api, op, bound>>

RefuseSubmission ==
  /\ submit = "refused"
  /\ submit' = "done"
  /\ run' = [run EXCEPT !.status = "failed", !.ext = "failed"]
  /\ UNCHANGED <<mode, stored, queue, container, proc, api, op, bound>>

-----------------------------------------------------------------------------
(***************************************************************************)
(* The message: every delivery has a receipt of its own, and only the      *)
(* receipt of the last delivery deletes, while the message is invisible.   *)
(***************************************************************************)
Reappear ==
  /\ queue.state = "taken"
  /\ queue' = [queue EXCEPT !.state = "visible"]
  /\ UNCHANGED <<mode, submit, run, stored, container, proc, api, op, bound>>

Deletes(r) == queue.state = "taken" /\ r = queue.issued

\* An attempt to delete with receipt r: ok is the answer, which may be lost after the effect.
Delete(r, ok) ==
  /\ ok => Deletes(r)
  /\ \/ Deletes(r) /\ queue' = [queue EXCEPT !.state = "deleted"]
     \/ ~ok /\ queue' = queue

-----------------------------------------------------------------------------
(***************************************************************************)
(* A worker process.                                                       *)
(***************************************************************************)
Receive(p) ==
  /\ mode = "queue" /\ queue.state = "visible" /\ queue.issued < MaxDeliveries
  /\ proc[p] = Off /\ api[p] = NoHandler
  /\ queue' = [state |-> "taken", issued |-> queue.issued + 1]
  /\ proc' = [proc EXCEPT ![p] = [Off EXCEPT !.pc = "claim", !.receipt = queue.issued + 1]]
  /\ UNCHANGED <<mode, submit, run, stored, container, api, op, bound>>

\* The container starts its process once (restart policy Never).
Boot(p) ==
  /\ container = "up" /\ proc[p] = Off
  /\ container' = "booted"
  /\ proc' = [proc EXCEPT ![p].pc = "claim"]
  /\ UNCHANGED <<mode, submit, run, stored, queue, api, op, bound>>

\* An error that no handler catches, a lost answer, the end: the process is gone.
Dies(p) ==
  /\ proc[p] # Off
  /\ proc' = [proc EXCEPT ![p] = Off]
  /\ UNCHANGED <<mode, submit, run, stored, queue, container, api, op, bound>>

Claimable == run.status = "queued" /\ ~run.cancel /\ run.attempts < MaxAttempts
             /\ run.token = "live"

\* The receipt is kept only once the row knows its message; a claim that comes before
\* RecordSubmission is granted without.
ClaimReceipt(p) ==
  IF mode = "queue" /\ run.msgId THEN proc[p].receipt ELSE run.receipt

Claim(p) ==
  /\ proc[p].pc = "claim"
  /\ IF Claimable
       THEN /\ run' = [run EXCEPT !.status = "running", !.attempts = @ + 1,
                                  !.lease = run.attempts + 1, !.live = TRUE,
                                  !.receipt = ClaimReceipt(p),
                                  !.ext = IF mode = "queue" /\ run.msgId THEN "claimed" ELSE @]
            /\ proc' = [proc EXCEPT ![p].pc = "payload", ![p].lease = run.attempts + 1]
            /\ bound' = (bound \/ ClaimReceipt(p) # 0)
       ELSE /\ proc' = [proc EXCEPT ![p] = Off]
            /\ UNCHANGED <<run, bound>>
  /\ UNCHANGED <<mode, submit, stored, queue, container, api, op>>

\* resolve_cloud_run_callback_lease: what every later call of the worker must pass.
LeaseIsCurrent(p) ==
  /\ run.lease = proc[p].lease
  /\ run.status = "running" /\ run.live
  /\ run.token = "live"

Goto(p, step)    == proc' = [proc EXCEPT ![p].pc = step]
Report(p, e)     == proc' = [proc EXCEPT ![p].pc = "upload", ![p].exec = e]
HearCancel(p)    == proc' = [proc EXCEPT ![p].pc = "upload", ![p].exec = "cancelled",
                                         ![p].told = TRUE]

\* The payload names repository, commands and credentials; refused, the process ends.
Payload(p) ==
  /\ proc[p].pc = "payload" /\ LeaseIsCurrent(p)
  /\ Goto(p, "beat1")
  /\ UNCHANGED <<mode, submit, run, stored, queue, container, api, op, bound>>

\* A heartbeat that is answered: it extends the lease and returns cancel_requested.
Beaten(p) ==
  /\ LeaseIsCurrent(p)
  /\ run' = [run EXCEPT !.live = TRUE]
  /\ UNCHANGED <<mode, submit, stored, queue, container, api, op, bound>>

FirstHeartbeat(p) ==
  /\ proc[p].pc = "beat1" /\ Beaten(p)
  /\ IF run.cancel THEN HearCancel(p) ELSE Goto(p, "checkout")

Checkout(p) ==
  /\ proc[p].pc = "checkout"
  /\ Goto(p, "beat2") \/ Report(p, "failed")
  /\ UNCHANGED <<mode, submit, run, stored, queue, container, api, op, bound>>

HeartbeatAfterCheckout(p) ==
  /\ proc[p].pc = "beat2" /\ Beaten(p)
  /\ IF run.cancel THEN HearCancel(p) ELSE Goto(p, "work")

\* The command runner asks before each command; here an error is caught and reported.
HeartbeatInCommands(p) ==
  /\ proc[p].pc = "work"
  /\ \/ Beaten(p) /\ IF run.cancel THEN HearCancel(p) ELSE UNCHANGED proc
     \/ /\ Report(p, "failed")
        /\ UNCHANGED <<mode, submit, run, stored, queue, container, api, op, bound>>

\* The patch command, the capture of the diff, the paths it may touch, the tests.
RunCommands(p) ==
  /\ proc[p].pc = "work"
  /\ \E e \in {"patch_ready", "test_failed", "failed"} :
       proc' = [proc EXCEPT ![p].pc = "beat3", ![p].exec = e]
  /\ UNCHANGED <<mode, submit, run, stored, queue, container, api, op, bound>>

\* Bug: the answer of the last heartbeat is not looked at.
LastHeartbeatUnread(p) ==
  /\ proc[p].pc = "beat3" /\ Beaten(p)
  /\ proc' = [proc EXCEPT ![p].pc = "upload", ![p].told = run.cancel]

\* A cancellation seen now overrides the finished work.
LastHeartbeat(p) ==
  /\ proc[p].pc = "beat3" /\ Beaten(p)
  /\ IF run.cancel THEN HearCancel(p) ELSE Goto(p, "upload")

\* Bug: a failed upload leaves the result as it is.
UploadFailedKeepsResult(p) ==
  proc' = [proc EXCEPT ![p].pc = "complete", ![p].sent = 0]

\* One failed upload discards the result and every reference.
UploadFailed(p) ==
  proc' = [proc EXCEPT ![p].pc = "complete", ![p].exec = "failed", ![p].sent = 0]

\* upload_cloud_run_lease_artifact stores the next artifact and records it.
Upload(p) ==
  LET n == proc[p].sent + 1
  IN /\ proc[p].pc = "upload" /\ n <= AllUploaded
     /\ \/ /\ LeaseIsCurrent(p)
           /\ stored' = [stored EXCEPT ![proc[p].lease] = @ + 1]
           /\ \/ proc' = [proc EXCEPT ![p].sent = n,
                                      ![p].pc = IF n = AllUploaded THEN "complete" ELSE @]
              \/ UploadFailed(p)
        \/ UploadFailed(p) /\ UNCHANGED stored
     /\ UNCHANGED <<mode, submit, run, queue, container, api, op, bound>>

-----------------------------------------------------------------------------
(***************************************************************************)
(* complete_cloud_run_lease: three commits.  The process waits for the     *)
(* answer, for a minute at most; the API goes on without it, or dies.      *)
(***************************************************************************)
\* The diff is read back from the store; the token is used up.
Complete(p) ==
  /\ proc[p].pc = "complete" /\ LeaseIsCurrent(p)
  /\ run' = [run EXCEPT !.token = "used"]
  /\ api' = [api EXCEPT ![p] = [pc |-> "finalize", lease |-> proc[p].lease,
                                exec |-> proc[p].exec, ok |-> FALSE]]
  /\ Goto(p, "wait")
  /\ UNCHANGED <<mode, submit, stored, queue, container, op, bound>>

\* Bug: the reported status becomes the run's.
OutcomeRaw(e) == e

\* The run's status after a report that is neither cancelled nor overtaken.
Outcome(e) == IF e = "patch_ready" THEN "patch_ready" ELSE "failed"

\* Cancelled, finished, or overtaken: then the existing result is returned, and nothing
\* is acknowledged.
Finalize(p) ==
  LET a     == api[p]
      patch == a.exec \in {"patch_ready", "test_failed"}
  IN /\ a.pc = "finalize"
     /\ \/ /\ run.cancel
           /\ run' = [run EXCEPT !.status = "cancelled"]
           /\ api' = [api EXCEPT ![p].pc = "ack"]
        \/ /\ ~run.cancel /\ run.status = "running"
           /\ run' = [run EXCEPT !.status = Outcome(a.exec),
                                 !.patch = IF patch THEN a.lease ELSE @]
           /\ api' = [api EXCEPT ![p].pc = "ack"]
        \/ /\ ~run.cancel /\ run.status # "running"
           /\ api' = [api EXCEPT ![p] = NoHandler]
           /\ run' = run
     /\ UNCHANGED <<mode, submit, stored, queue, container, proc, op, bound>>

\* The terminal state is committed; the message is deleted with the receipt on the row.
Acknowledge(p) ==
  /\ api[p].pc = "ack"
  /\ IF run.receipt = 0
       THEN api' = [api EXCEPT ![p] = NoHandler] /\ UNCHANGED queue
       ELSE \E ok \in BOOLEAN :
              /\ Delete(run.receipt, ok)
              /\ api' = [api EXCEPT ![p].pc = "record", ![p].ok = ok]
  /\ UNCHANGED <<mode, submit, run, stored, container, proc, op, bound>>

\* Bug: the receipt is cleared whatever the queue answered.
Forgotten(ok) == run' = [run EXCEPT !.receipt = 0, !.ext = IF ok THEN "deleted" ELSE "delete_failed"]

\* Only a successful delete clears the receipt.
Acknowledged(ok) ==
  run' = IF ok THEN [run EXCEPT !.receipt = 0, !.ext = "deleted"]
               ELSE [run EXCEPT !.ext = "delete_failed"]

RecordAck(p) ==
  /\ api[p].pc = "record"
  /\ Acknowledged(api[p].ok)
  /\ api' = [api EXCEPT ![p] = NoHandler]
  /\ UNCHANGED <<mode, submit, stored, queue, container, proc, op, bound>>

ApiDies(p) ==
  /\ api[p] # NoHandler
  /\ api' = [api EXCEPT ![p] = NoHandler]
  /\ UNCHANGED <<mode, submit, run, stored, queue, container, proc, op, bound>>

-----------------------------------------------------------------------------
(***************************************************************************)
(* The clock, the sweep of expired leases and the user's cancellation.     *)
(***************************************************************************)
LeaseExpires ==
  /\ run.status = "running" /\ run.live
  /\ run' = [run EXCEPT !.live = FALSE]
  /\ UNCHANGED <<mode, submit, stored, queue, container, proc, api, op, bound>>

TokenExpires ==
  /\ run.token = "live"
  /\ run' = [run EXCEPT !.token = "expired"]
  /\ UNCHANGED <<mode, submit, stored, queue, container, proc, api, op, bound>>

\* A requeued run keeps its receipt and its token; an exhausted one is not acknowledged.
Sweep ==
  /\ run.status = "running" /\ ~run.live
  /\ run' = IF run.attempts < MaxAttempts
              THEN [run EXCEPT !.status = "queued", !.lease = 0]
              ELSE [run EXCEPT !.status = "failed"]
  /\ UNCHANGED <<mode, submit, stored, queue, container, proc, api, op, bound>>

Cancel ==
  /\ \/ /\ run.status = "queued"
        /\ run' = [run EXCEPT !.status = "cancelled", !.cancel = TRUE, !.token = "used"]
     \/ /\ run.status = "running"
        /\ run' = [run EXCEPT !.cancel = TRUE]
  /\ UNCHANGED <<mode, submit, stored, queue, container, proc, api, op, bound>>

-----------------------------------------------------------------------------
(***************************************************************************)
(* The operator's recovery: each request reads the row, calls the service, *)
(* and commits what the service answered.                                  *)
(***************************************************************************)
RetryReceipt(o) ==
  /\ op[o] = NoRequest
  /\ mode = "queue" /\ run.status \in Terminal /\ run.receipt # 0
  /\ op' = [op EXCEPT ![o].pc = "retry", ![o].receipt = run.receipt]
  /\ UNCHANGED <<mode, submit, run, stored, queue, container, proc, api, bound>>

RetryDelete(o) ==
  /\ op[o].pc = "retry"
  /\ \E ok \in BOOLEAN :
       /\ Delete(op[o].receipt, ok)
       /\ op' = [op EXCEPT ![o].pc = "retried", ![o].ok = ok]
  /\ UNCHANGED <<mode, submit, run, stored, container, proc, api, bound>>

RecordRetry(o) ==
  /\ op[o].pc = "retried"
  /\ Acknowledged(op[o].ok)
  /\ op' = [op EXCEPT ![o] = NoRequest]
  /\ UNCHANGED <<mode, submit, stored, queue, container, proc, api, bound>>

\* Bug: the container of a run that is not over is deleted, too.
CleanupAlways(o) ==
  /\ op[o] = NoRequest
  /\ mode = "container" /\ run.job /\ run.ext # "cleaned"
  /\ op' = [op EXCEPT ![o].pc = "cleanup"]
  /\ UNCHANGED <<mode, submit, run, stored, queue, container, proc, api, bound>>

Cleanup(o) ==
  /\ op[o] = NoRequest
  /\ mode = "container" /\ run.status \in Terminal /\ run.ext # "cleaned" /\ run.job
  /\ op' = [op EXCEPT ![o].pc = "cleanup"]
  /\ UNCHANGED <<mode, submit, run, stored, queue, container, proc, api, bound>>

\* A container that is gone already cannot be deleted; the answer may be lost.
DeleteContainer(o) ==
  /\ op[o].pc = "cleanup"
  /\ \E ok \in BOOLEAN :
       /\ ok => container # "gone"
       /\ container' \in IF ok THEN {"gone"} ELSE {container, "gone"}
       /\ op' = [op EXCEPT ![o].pc = "cleaned", ![o].ok = ok]
  /\ Killed(container' = "gone")
  /\ UNCHANGED <<mode, submit, run, stored, queue, api, bound>>

RecordCleanup(o) ==
  /\ op[o].pc = "cleaned"
  /\ run' = [run EXCEPT !.ext = IF op[o].ok THEN "cleaned" ELSE "cleanup_failed"]
  /\ op' = [op EXCEPT ![o] = NoRequest]
  /\ UNCHANGED <<mode, submit, stored, queue, container, proc, api, bound>>

RequestDies(o) ==
  /\ op[o] # NoRequest
  /\ op' = [op EXCEPT ![o] = NoRequest]
  /\ UNCHANGED <<mode, submit, run, stored, queue, container, proc, api, bound>>

-----------------------------------------------------------------------------
Work(p) ==
  \/ Receive(p) \/ Boot(p) \/ Dies(p) \/ Claim(p) \/ Payload(p) \/ FirstHeartbeat(p)
  \/ Checkout(p) \/ HeartbeatAfterCheckout(p) \/ HeartbeatInCommands(p) \/ RunCommands(p)
  \/ LastHeartbeat(p) \/ Upload(p)

Serve(p) ==
  \/ Complete(p) \/ Finalize(p) \/ Acknowledge(p) \/ RecordAck(p) \/ ApiDies(p)

Operate(o) ==
  \/ RetryReceipt(o) \/ RetryDelete(o) \/ RecordRetry(o)
  \/ Cleanup(o) \/ DeleteContainer(o) \/ RecordCleanup(o) \/ RequestDies(o)

Next ==
  \/ SendMessage \/ CreateContainer \/ SeedObjects \/ RecordSubmission \/ RefuseSubmission
  \/ Reappear \/ LeaseExpires \/ TokenExpires \/ Sweep \/ Cancel
  \/ \E p \in Procs : Work(p) \/ Serve(p)
  \/ \E o \in Operators : Operate(o)

Spec == Init /\ [][Next]_vars

-----------------------------------------------------------------------------
(***************************************************************************)
(* Properties.                                                             *)
(***************************************************************************)
TypeOK ==
  /\ mode \in {"queue", "container"}
  /\ submit \in {"send", "store", "sent", "refused", "gone", "done"}
  /\ run \in Row
  /\ stored \in [Attempts -> Nat]
  /\ queue \in [state : {"none", "visible", "taken", "deleted"}, issued : Deliveries]
  /\ container \in {"none", "up", "booted", "gone"}
  /\ proc \in [Procs -> Process]
  /\ api \in [Procs -> Handler]
  /\ op \in [Operators -> Request]
  /\ bound \in BOOLEAN

\* _ack_mns_queue_receipt_after_terminal_commit and retry_retained_mns_queue_receipt_delete
\* race with each other and with redelivery: the message is deleted only once its run is
\* over, and a receipt that was stored is cleared only when the message is really gone.
MessageAccounted ==
  /\ queue.state = "deleted" => run.status \in Terminal
  /\ bound /\ run.receipt = 0 => queue.state = "deleted"

\* A patch was uploaded in full before it was reported (_complete_execution discards a
\* result whose upload failed), and it is the work of the last attempt that was granted: an
\* older process, still at work after its lease was taken back, never delivers.
PatchRestsOnUploads ==
  run.patch # 0 => stored[run.patch] = AllUploaded /\ run.patch = run.attempts

\* A process that a heartbeat has told of the cancellation never reports a patch, wherever
\* between the checkout and the upload it was told (run_once).
HeardCancelIsReported ==
  \A p \in Procs : proc[p].told => proc[p].exec \in {"cancelled", "failed"}

\* cleanup_aliyun_eci_terminal_runtime_job: the row says cleaned only when the container is
\* gone, and no container is deleted under a run that is not over.
ContainersAccounted ==
  /\ run.ext = "cleaned" => container = "gone"
  /\ container = "gone" => run.status \in Terminal \/ submit = "refused"

\* The design document: a completion deletes the message, and where the delete fails the
\* receipt is kept for the operator.  So a completed run that nobody works on any more has
\* no message, or a receipt to delete it with.
CompletionKeepsReceipt ==
  (/\ mode = "queue" /\ run.status = "patch_ready" /\ submit = "done"
   /\ \A p \in Procs : api[p] = NoHandler)
     => queue.state = "deleted" \/ run.receipt # 0
=============================================================================
