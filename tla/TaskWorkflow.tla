---------------------------- MODULE TaskWorkflow ----------------------------
(***************************************************************************)
(* One task on its way from a patch to a pull request (task_state.py,      *)
(* local_runner.py, test_review_debug.py, patch_approval.py,               *)
(* github_pull_request.py, and the end of a cloud run in cloud_runner.py). *)
(*                                                                         *)
(* The task's status belongs to the task; tests, reviews, approvals and    *)
(* pull requests belong to one of its patch artifacts.  Every handler      *)
(* reads the status, decides, and writes the next status by id together    *)
(* with its rows.  A handler in one of the Windows below has read and not  *)
(* yet written; the test commands and the call to GitHub are outside of    *)
(* them, the task is read again afterwards.                                *)
(***************************************************************************)
EXTENDS Integers

CONSTANTS
  Handlers,      \* request handlers
  Runners,       \* kinds of runs that make patches
  MaxArtifacts,  \* bound of the runs: patch artifacts of the task
  MaxTests,      \* bound of the runs: test runs of one artifact
  Modes          \* how the handlers are run

ASSUME RunnersAssumption == Runners \subseteq {"local", "cloud_fake", "docker_local", "aliyun_eci"}
ASSUME BoundsAssumption  == MaxArtifacts \in Nat \ {0} /\ MaxTests \in Nat \ {0}

VARIABLES
  mode,      \* never changes
  status,    \* task.status
  kind,      \* of each artifact: runner_kind of the run that made it
  tests,     \* status of its local_test_run rows, in the order of created_at
  review,    \* its patch_review row
  approved,  \* whether it has a patch_approval row
  record,    \* status of its pull_request_record
  github,    \* pull requests that GitHub has for it
  task       \* request handlers

vars == <<mode, status, kind, tests, review, approved, record, github, task>>

Artifacts == 1 .. MaxArtifacts
Slots     == 1 .. MaxTests

Transitions ==
  [ CREATED            |-> {"SPEC_DRAFTED", "ASSIGNED", "CANCELLED"},
    SPEC_DRAFTED       |-> {"USER_APPROVED_SPEC", "CANCELLED"},
    USER_APPROVED_SPEC |-> {"TASKS_CREATED", "CANCELLED"},
    TASKS_CREATED      |-> {"ASSIGNED", "CANCELLED"},
    ASSIGNED           |-> {"IN_PROGRESS", "CANCELLED"},
    IN_PROGRESS        |-> {"PATCH_READY", "FIX_REQUESTED", "CANCELLED"},
    PATCH_READY        |-> {"SELF_TESTING", "REVIEWING", "CANCELLED"},
    SELF_TESTING       |-> {"REVIEWING", "FIX_REQUESTED", "CANCELLED"},
    REVIEWING          |-> {"APPROVED", "FIX_REQUESTED", "CANCELLED"},
    FIX_REQUESTED      |-> {"IN_PROGRESS", "CANCELLED"},
    APPROVED           |-> {"CI_RUNNING", "MERGE_READY", "CANCELLED"},
    CI_RUNNING         |-> {"MERGE_READY", "FIX_REQUESTED", "CANCELLED"},
    MERGE_READY        |-> {"HUMAN_APPROVAL", "CANCELLED"},
    HUMAN_APPROVAL     |-> {"PR_CREATED", "MERGED", "CLOSED"},
    PR_CREATED         |-> {"MERGED", "CLOSED", "CANCELLED"},
    MERGED             |-> {},
    CLOSED             |-> {},
    CANCELLED          |-> {} ]

Status == DOMAIN Transitions
Final  == {"MERGED", "CLOSED", "CANCELLED"}

\* locked: while a handler is in a window no other one enters a window (the code takes no
\* such lock); dies: handlers may die; byHand: the statuses that users set themselves, besides
\* running and cancelling the task.
ASSUME ModesAssumption ==
  Modes \subseteq [locked : BOOLEAN, dies : BOOLEAN, byHand : SUBSET Status]

Replayed == {"cloud_fake", "docker_local"}   \* tests are recorded, not run
Cloud    == Runners \ {"local"}
Results  == {"passed", "failed"}
Verdicts == {"approved", "changes_requested"}

NoReview == [verdict |-> "none", test |-> 0]
NoTests  == [i \in Slots |-> "none"]
Idle     == [pc |-> "idle", art |-> 1, slot |-> 0, out |-> "none", new |-> "none"]

Windows == {"move", "local", "cloud", "refused", "start", "tested", "replay", "review",
            "approve", "publish", "final"}

Init == /\ mode \in Modes
        /\ status = "CREATED"
        /\ kind = [a \in Artifacts |-> "none"]
        /\ tests = [a \in Artifacts |-> NoTests]
        /\ review = [a \in Artifacts |-> NoReview]
        /\ approved = [a \in Artifacts |-> FALSE]
        /\ record = [a \in Artifacts |-> "none"]
        /\ github = [a \in Artifacts |-> 0]
        /\ task = [h \in Handlers |-> Idle]

rows == <<kind, tests, review, approved, record, github>>

-----------------------------------------------------------------------------
At(h, step) == task[h].pc = step
Idles(h)    == At(h, "idle")
Exists(a)   == kind[a] # "none"

\* Artifacts are numbered as they are made.
Fresh(a) == ~Exists(a) /\ \A b \in 1 .. (a - 1) : Exists(b)

\* Load the task and enter a window: the handler will write the status new, or nothing when
\* that is what it has read.
Load(h, step, a, slot, out, new) ==
  /\ mode.locked => \A k \in Handlers : task[k].pc \notin Windows
  /\ task' = [task EXCEPT ![h] = [pc |-> step, art |-> a, slot |-> slot, out |-> out,
                                  new |-> IF new = status THEN "none" ELSE new]]

Goto(h, step) == task' = [task EXCEPT ![h].pc = step]
Finish(h)     == task' = [task EXCEPT ![h] = Idle]

\* The status column is written by id, whatever it holds by now.
WriteStatus(h) == status' = IF task[h].new = "none" THEN status ELSE task[h].new

\* The highest row, also among those that a handler has made and not committed.
Taken(a, i) == \/ tests[a][i] # "none"
               \/ \E h \in Handlers : ~Idles(h) /\ task[h].art = a /\ task[h].slot = i
IsNext(a, i)   == (\A j \in {i - 1} \cap Slots : Taken(a, j)) /\ \A j \in i .. MaxTests : ~Taken(a, j)
IsLatest(a, i) == tests[a][i] # "none" /\ \A j \in Slots : tests[a][j] # "none" => j <= i

-----------------------------------------------------------------------------
(***************************************************************************)
(* transition_task (PATCH /tasks/{id}, run, cancel), and                   *)
(* request_human_approval, which differs in what it asks for.              *)
(***************************************************************************)
Ask(h, to) ==
  /\ Idles(h)
  /\ to \in Transitions[status] \ {"MERGED"}
  /\ to \in {"ASSIGNED", "CANCELLED"} \cup mode.byHand
  /\ Load(h, "move", 1, 0, "none", to)
  /\ UNCHANGED <<status, rows>>

RequestHumanApproval(h, a) ==
  /\ Idles(h)
  /\ approved[a]
  /\ status = "MERGE_READY"
  /\ Load(h, "move", a, 0, "none", "HUMAN_APPROVAL")
  /\ UNCHANGED <<status, rows>>

Move(h) ==
  /\ At(h, "move")
  /\ WriteStatus(h)
  /\ Finish(h)
  /\ UNCHANGED rows

(***************************************************************************)
(* start_local_task_run: the transitions to ASSIGNED and IN_PROGRESS are   *)
(* tested before the run and committed with its outcome.                   *)
(***************************************************************************)
RunLocally(h) ==
  /\ Idles(h)
  /\ "local" \in Runners
  /\ "ASSIGNED" \in Transitions[status]
  /\ \E a \in Artifacts : Fresh(a)
  /\ Load(h, "local", 1, 0, "none", "none")
  /\ UNCHANGED <<status, rows>>

LocalPatch(h, a) ==
  /\ At(h, "local")
  /\ Fresh(a)
  /\ kind' = [kind EXCEPT ![a] = "local"]
  /\ status' = "PATCH_READY"
  /\ Finish(h)
  /\ UNCHANGED <<tests, review, approved, record, github>>

LocalFailure(h) ==
  /\ At(h, "local")
  /\ status' = "FIX_REQUESTED"
  /\ Finish(h)
  /\ UNCHANGED rows

(***************************************************************************)
(* _finalize_claimed_cloud_run_result with a patch.  A task that refuses   *)
(* the patch makes a remote completion fail; the local worker then commits *)
(* a failed run and the artifact with it.                                  *)
(***************************************************************************)
AcceptsPatch == {"CREATED", "ASSIGNED", "IN_PROGRESS", "FIX_REQUESTED", "PATCH_READY"}

EndCloudRun(h) ==
  /\ Idles(h)
  /\ Cloud # {}
  /\ \E a \in Artifacts : Fresh(a)
  /\ IF status \in AcceptsPatch THEN Load(h, "cloud", 1, 0, "none", "PATCH_READY")
                               ELSE Load(h, "refused", 1, 0, "none", "none")
  /\ UNCHANGED <<status, rows>>

\* The artifact of a cloud run, with the tests that ran there.
NewArtifact(h, a, k, result) ==
  /\ Fresh(a)
  /\ k = "cloud_fake" => result = "none"
  /\ kind' = [kind EXCEPT ![a] = k]
  /\ tests' = [tests EXCEPT ![a][1] = result]
  /\ Finish(h)
  /\ UNCHANGED <<review, approved, record, github>>

CloudPatch(h, a, k, result) ==
  /\ At(h, "cloud")
  /\ NewArtifact(h, a, k, result)
  /\ WriteStatus(h)

KeepRefusedPatch(h, a, k, result) ==
  /\ At(h, "refused")
  /\ k # "aliyun_eci"
  /\ NewArtifact(h, a, k, result)
  /\ UNCHANGED status

DropRefusedPatch(h) ==
  /\ At(h, "refused")
  /\ Finish(h)
  /\ UNCHANGED <<status, rows>>

-----------------------------------------------------------------------------
(***************************************************************************)
(* start_patch_test_run.  Tests of a worktree run between two commits; the *)
(* worktree of an aliyun_eci run is a name that no directory has.          *)
(***************************************************************************)
StartTests(h, a, i) ==
  /\ Idles(h)
  /\ Exists(a) /\ kind[a] \notin Replayed
  /\ status = "PATCH_READY"
  /\ IsNext(a, i)
  /\ Load(h, "start", a, i, "none", "SELF_TESTING")
  /\ UNCHANGED <<status, rows>>

BeginTests(h) ==
  /\ At(h, "start")
  /\ tests' = [tests EXCEPT ![task[h].art][task[h].slot] = "running"]
  /\ WriteStatus(h)
  /\ Goto(h, "testing")
  /\ UNCHANGED <<kind, review, approved, record, github>>

\* Where tests with this result send the task.
AfterTests(result) == IF result = "passed" THEN "REVIEWING" ELSE "FIX_REQUESTED"

\* Bug: tests that fail raise.
EndTestsPassed(h, result) ==
  /\ At(h, "testing")
  /\ kind[task[h].art] = "aliyun_eci" => result = "failed"
  /\ IF result = "passed" /\ AfterTests(result) \in Transitions[status]
       THEN Load(h, "tested", task[h].art, task[h].slot, result, AfterTests(result))
       ELSE Finish(h)
  /\ UNCHANGED <<status, rows>>

\* The task is read again; when it cannot go there, the test run stays as it is.
EndTests(h, result) ==
  /\ At(h, "testing")
  /\ kind[task[h].art] = "aliyun_eci" => result = "failed"
  /\ IF AfterTests(result) \in Transitions[status]
       THEN Load(h, "tested", task[h].art, task[h].slot, result, AfterTests(result))
       ELSE Finish(h)
  /\ UNCHANGED <<status, rows>>

RecordTests(h) ==
  /\ At(h, "tested")
  /\ tests' = [tests EXCEPT ![task[h].art][task[h].slot] = task[h].out]
  /\ WriteStatus(h)
  /\ Finish(h)
  /\ UNCHANGED <<kind, review, approved, record, github>>

\* The tests of a cloud_fake run pass; those of a docker_local run are the latest ones on
\* record, and without a record they have passed.
ReplayTests(h, a, i) ==
  /\ Idles(h)
  /\ kind[a] \in Replayed
  /\ status = "PATCH_READY"
  /\ IF kind[a] = "docker_local" /\ \E j \in Slots : IsLatest(a, j)
       THEN IsLatest(a, i)
       ELSE IsNext(a, i)
  /\ LET result == IF tests[a][i] = "none" THEN "passed" ELSE tests[a][i]
     IN Load(h, "replay", a, i, result, AfterTests(result))
  /\ UNCHANGED <<status, rows>>

RecordReplay(h) ==
  /\ At(h, "replay")
  /\ tests' = [tests EXCEPT ![task[h].art][task[h].slot] = task[h].out]
  /\ WriteStatus(h)
  /\ Finish(h)
  /\ UNCHANGED <<kind, review, approved, record, github>>

-----------------------------------------------------------------------------
(***************************************************************************)
(* start_patch_review: once per artifact.  An artifact is approved only if *)
(* its latest tests passed; it may be refused for other reasons.           *)
(***************************************************************************)
\* Bug: the verdict is written where the status belongs.
AfterReviewVerdict(verdict) == verdict

AfterReview(verdict) == IF verdict = "approved" THEN "APPROVED" ELSE "FIX_REQUESTED"

Review(h, a, i, verdict) ==
  /\ Idles(h)
  /\ Exists(a)
  /\ review[a] = NoReview
  /\ status = "REVIEWING"
  /\ IF i = 0 THEN \A j \in Slots : tests[a][j] = "none" ELSE IsLatest(a, i)
  /\ verdict = "approved" => i > 0 /\ tests[a][i] = "passed"
  /\ Load(h, "review", a, i, verdict, AfterReview(verdict))
  /\ UNCHANGED <<status, rows>>

\* Bug: a review that is refused by the unique constraint still moves the task.
RecordReviewAnyway(h) ==
  LET a == task[h].art
  IN /\ At(h, "review")
     /\ review' = IF review[a] = NoReview
                   THEN [review EXCEPT ![a] = [verdict |-> task[h].out, test |-> task[h].slot]]
                   ELSE review
     /\ WriteStatus(h)
     /\ Finish(h)
     /\ UNCHANGED <<kind, tests, approved, record, github>>

\* Of two reviews that overlap, the unique constraint refuses the second.
RecordReview(h) ==
  LET a == task[h].art
  IN /\ At(h, "review")
     /\ IF review[a] = NoReview
          THEN /\ review' = [review EXCEPT ![a] = [verdict |-> task[h].out, test |-> task[h].slot]]
               /\ WriteStatus(h)
          ELSE UNCHANGED <<review, status>>
     /\ Finish(h)
     /\ UNCHANGED <<kind, tests, approved, record, github>>

(***************************************************************************)
(* approve_patch_artifact: once per artifact.                              *)
(***************************************************************************)
\* Bug: the status of the task is trusted, the review of the artifact is not looked at.
ApproveUnreviewed(h, a) ==
  /\ Idles(h)
  /\ Exists(a) /\ ~approved[a]
  /\ status = "APPROVED"
  /\ Load(h, "approve", a, 0, "none", "MERGE_READY")
  /\ UNCHANGED <<status, rows>>

\* Bug: the review of the artifact is trusted, the status of the task is not looked at.
ApproveAnyTime(h, a) ==
  /\ Idles(h)
  /\ ~approved[a]
  /\ review[a].verdict = "approved"
  /\ Load(h, "approve", a, 0, "none", "MERGE_READY")
  /\ UNCHANGED <<status, rows>>

Approve(h, a) ==
  /\ Idles(h)
  /\ ~approved[a]
  /\ status = "APPROVED"
  /\ review[a].verdict = "approved"
  /\ Load(h, "approve", a, 0, "none", "MERGE_READY")
  /\ UNCHANGED <<status, rows>>

RecordApproval(h) ==
  LET a == task[h].art
  IN /\ At(h, "approve")
     /\ IF ~approved[a]
          THEN approved' = [approved EXCEPT ![a] = TRUE] /\ WriteStatus(h)
          ELSE UNCHANGED <<approved, status>>
     /\ Finish(h)
     /\ UNCHANGED <<kind, tests, review, record, github>>

-----------------------------------------------------------------------------
(***************************************************************************)
(* create_pull_request_for_approval: the record is committed before GitHub *)
(* is called and after its answer, and once more with the task.            *)
(***************************************************************************)
Publish(h, a) ==
  /\ Idles(h)
  /\ approved[a] /\ record[a] = "none"
  /\ status = "HUMAN_APPROVAL"
  /\ kind[a] \in Cloud
  /\ Load(h, "publish", a, 0, "none", "none")
  /\ UNCHANGED <<status, rows>>

\* Bug: nothing keeps a second record of one approval from being created.
CreateRecordAgain(h) ==
  /\ At(h, "publish")
  /\ record' = [record EXCEPT ![task[h].art] = "creating"]
  /\ Goto(h, "creating")
  /\ UNCHANGED <<status, kind, tests, review, approved, github>>

\* Of two publications the unique constraint refuses the second, which then goes on from
\* the record of the first if that one has been to GitHub.
CreateRecord(h) ==
  LET a == task[h].art
  IN /\ At(h, "publish")
     /\ IF record[a] = "none"
          THEN record' = [record EXCEPT ![a] = "creating"] /\ Goto(h, "creating")
          ELSE /\ record' = record
               /\ IF record[a] = "finalizing" THEN Goto(h, "finalize") ELSE Finish(h)
     /\ UNCHANGED <<status, kind, tests, review, approved, github>>

CallGitHub(h) ==
  /\ At(h, "creating")
  /\ github' = [github EXCEPT ![task[h].art] = @ + 1]
  /\ \/ Goto(h, "answered")
     \/ Goto(h, "unanswered")   \* the answer was lost
  /\ UNCHANGED <<status, kind, tests, review, approved, record>>

CallFails(h) ==
  /\ At(h, "creating")
  /\ Goto(h, "unanswered")
  /\ UNCHANGED <<status, rows>>

MarkFailed(h) ==
  /\ At(h, "unanswered")
  /\ record' = [record EXCEPT ![task[h].art] = "failed"]
  /\ Finish(h)
  /\ UNCHANGED <<status, kind, tests, review, approved, github>>

MarkFinalizing(h) ==
  /\ At(h, "answered")
  /\ record' = [record EXCEPT ![task[h].art] = "finalizing"]
  /\ Goto(h, "finalize")
  /\ UNCHANGED <<status, kind, tests, review, approved, github>>

\* Bug: a publication that has not been to GitHub is taken up as well.
ResumeEarly(h, a) ==
  /\ Idles(h)
  /\ record[a] \in {"creating", "finalizing"}
  /\ task' = [task EXCEPT ![h] = [Idle EXCEPT !.pc = "finalize", !.art = a]]
  /\ UNCHANGED <<status, rows>>

\* A request that finds the record finalizing.
Resume(h, a) ==
  /\ Idles(h)
  /\ record[a] = "finalizing"
  /\ task' = [task EXCEPT ![h] = [Idle EXCEPT !.pc = "finalize", !.art = a]]
  /\ UNCHANGED <<status, rows>>

Finalize(h) ==
  /\ At(h, "finalize")
  /\ IF status = "PR_CREATED" \/ "PR_CREATED" \in Transitions[status]
       THEN Load(h, "final", task[h].art, 0, "none", "PR_CREATED")
       ELSE Finish(h)
  /\ UNCHANGED <<status, rows>>

RecordCreated(h) ==
  /\ At(h, "final")
  /\ record' = [record EXCEPT ![task[h].art] = "created"]
  /\ WriteStatus(h)
  /\ Finish(h)
  /\ UNCHANGED <<kind, tests, review, approved, github>>

\* A handler that raises or dies; what it has committed stays.
Die(h) ==
  /\ mode.dies
  /\ ~Idles(h)
  /\ Finish(h)
  /\ UNCHANGED <<status, rows>>

-----------------------------------------------------------------------------
Begin(h) ==
  \/ \E to \in Status : Ask(h, to)
  \/ RunLocally(h)
  \/ EndCloudRun(h)
  \/ \E a \in Artifacts :
       \/ \E i \in Slots : StartTests(h, a, i) \/ ReplayTests(h, a, i)
       \/ \E i \in 0 .. MaxTests, v \in Verdicts : Review(h, a, i, v)
       \/ Approve(h, a) \/ RequestHumanApproval(h, a) \/ Publish(h, a) \/ Resume(h, a)

Continue(h) ==
  \/ Move(h)
  \/ \E a \in Artifacts : LocalPatch(h, a)
  \/ LocalFailure(h)
  \/ \E a \in Artifacts, k \in Cloud, r \in Results \cup {"none"} : CloudPatch(h, a, k, r)
  \/ \E a \in Artifacts, k \in Cloud, r \in Results \cup {"none"} : KeepRefusedPatch(h, a, k, r)
  \/ DropRefusedPatch(h)
  \/ BeginTests(h)
  \/ \E r \in Results : EndTests(h, r)
  \/ RecordTests(h) \/ RecordReplay(h) \/ RecordReview(h) \/ RecordApproval(h)
  \/ CreateRecord(h) \/ CallGitHub(h) \/ CallFails(h) \/ MarkFailed(h) \/ MarkFinalizing(h)
  \/ Finalize(h) \/ RecordCreated(h)

Next == UNCHANGED mode /\ \E h \in Handlers : Begin(h) \/ Continue(h) \/ Die(h)

Spec == Init /\ [][Next]_vars

-----------------------------------------------------------------------------
(***************************************************************************)
(* Properties.                                                             *)
(***************************************************************************)
Handler == [ pc   : Windows \cup {"idle", "testing", "creating", "answered", "unanswered", "finalize"},
             art  : Artifacts,
             slot : 0 .. MaxTests,
             out  : {"none"} \cup Results \cup Verdicts,
             new  : {"none"} \cup Status ]

\* Rows and handlers stay within the types of their columns.
TypeOK == /\ mode \in Modes
          /\ status \in Status
          /\ kind \in [Artifacts -> {"none"} \cup Runners]
          /\ tests \in [Artifacts -> [Slots -> {"none", "running"} \cup Results]]
          /\ review \in [Artifacts -> [verdict : {"none"} \cup Verdicts, test : 0 .. MaxTests]]
          /\ approved \in [Artifacts -> BOOLEAN]
          /\ record \in [Artifacts -> {"none", "creating", "finalizing", "created", "failed"}]
          /\ github \in [Artifacts -> Nat]
          /\ task \in [Handlers -> Handler]

\* An approval rests on a review of the same artifact that approved it because of a test run
\* of that artifact that passed (approve_patch_artifact, _deterministic_review_issues), however
\* the task's status, which several artifacts share, was brought to APPROVED.
ApprovalRestsOnTests ==
  \A a \in Artifacts : approved[a] =>
    /\ review[a].verdict = "approved"
    /\ review[a].test \in Slots /\ tests[a][review[a].test] = "passed"

\* No approval is published twice, whatever is retried, overlaps, or dies
\* (create_pull_request_for_approval).
OnePullRequestPerApproval == \A a \in Artifacts : github[a] <= 1

\* What GitHub has was approved and is on record, and a record that names a pull request
\* names one that GitHub has.
PullRequestsOnRecord ==
  \A a \in Artifacts :
    /\ github[a] > 0 => approved[a] /\ record[a] # "none"
    /\ record[a] \in {"finalizing", "created"} => github[a] > 0

\* What a status says of the task's artifacts.
Evidence(s) ==
  /\ s = "REVIEWING"  => \E a \in Artifacts, i \in Slots : tests[a][i] = "passed"
  /\ s = "APPROVED"   => \E a \in Artifacts : review[a].verdict = "approved"
  /\ s \in {"MERGE_READY", "HUMAN_APPROVAL"} => \E a \in Artifacts : approved[a]
  /\ s = "PR_CREATED" => \E a \in Artifacts : record[a] = "created"

\* Unless users set it by hand, the status never claims a test, a review, an approval or a
\* pull request that is not there, even if handlers overwrite each other's status.
StatusHasEvidence == mode.byHand = {} => Evidence(status)

\* If reading the task locked it, a task would be published once, although each of its
\* artifacts may be approved; without the lock two approvals overlap.
OnePublicationPerTask ==
  mode.locked => \A a, b \in Artifacts : github[a] > 0 /\ github[b] > 0 => a = b

\* If reading the task locked it, a task that is merged, closed or cancelled would stay so
\* (validate_transition, "terminal status cannot transition") through the test runs and the
\* calls to GitHub under way, which read it again.
FinalIsFinal == [][mode.locked /\ status \in Final => status' = status]_vars

\* As long as no handler dies and nobody sets the status by hand, a task that is being tested
\* is in the hands of a handler that will move it (start_patch_test_run): of overlapping test
\* runs the last one still finds a status that it can move.
TestingIsAttended ==
  ~mode.dies /\ mode.byHand = {} /\ status = "SELF_TESTING"
    => \E h \in Handlers : task[h].pc \in {"testing", "tested"}
=============================================================================
