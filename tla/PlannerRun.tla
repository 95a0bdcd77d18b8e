----------------------------- MODULE PlannerRun -----------------------------
(***************************************************************************)
(* Planner runs and the tasks that come of them                            *)
(* (services/repository.py, services/model_planner.py).  A planner turns a *)
(* goal into ordered drafts; a human approves or rejects the run as a      *)
(* whole, and the approval makes one task of every draft.  The status is   *)
(* read some time before the decision is committed: of two decisions that  *)
(* both read DRAFTED, the unique constraint on the approval rows lets one  *)
(* commit.                                                                 *)
(*                                                                         *)
(* Creating a run is one transaction whose rows nobody sees before its     *)
(* commit, the answer of the model and the usage row included.             *)
(***************************************************************************)
EXTENDS Integers, Sequences

CONSTANTS
  Projects, Conversations, Repositories,
  ProjectOf,   \* the project of a conversation or repository, which never changes
  NoRow,       \* a reference that is not set
  Deciders,    \* concurrent requests that approve or reject
  MaxDrafts,   \* most drafts of a model's answer (the parser asks for one at least)
  MaxPlans, MaxTasks  \* bounds of the number of rows

ASSUME PlannerAssumption ==
  /\ NoRow \notin Conversations \cup Repositories
  /\ ProjectOf \in [Conversations \cup Repositories -> Projects]
  /\ MaxDrafts \in Nat

VARIABLES
  plans,      \* planner runs, with their drafts and usage row
  approvals,  \* approval rows
  board,      \* tasks, each with its task_created event
  decider     \* what each request has read
plannerVars == <<plans, approvals, board, decider>>

Undecided == [choice |-> "none", plan |-> 0]

PlannerInit ==
  /\ plans = <<>>
  /\ approvals = {}
  /\ board = <<>>
  /\ decider = [d \in Deciders |-> Undecided]

(***************************************************************************)
(* What the planner answers.                                               *)
(***************************************************************************)

\* What the settings hold for the role of the planner.
ModelRoutes == {"fallback_fake", "fake", "unavailable", "configured"}

FakeDrafts == 2

\* Without specifications of a model, those of the fake planner.
FakeResult(kind) == [kind |-> kind, drafts |-> FakeDrafts, usage |-> 0]

\* append_usage_ledger_entry in a savepoint: its failure is logged and forgotten.
UsageRows == {0, 1}

ModelResults(drafts) == {[kind |-> "model", drafts |-> drafts, usage |-> u] : u \in UsageRows}

PlannerResults(route) ==
  CASE route = "fake" -> {FakeResult("fake")}
    [] route \in {"fallback_fake", "unavailable"} -> {FakeResult("model_fallback_fake")}
    [] route = "configured" ->
         \* a row that is missing or inactive, a sealed key, the gateway or the answer may fail
         {FakeResult("model_fallback_fake")} \cup UNION {ModelResults(n) : n \in 1..MaxDrafts}

(***************************************************************************)
(* Requests.                                                               *)
(***************************************************************************)

BelongsTo(row, project) == row # NoRow => ProjectOf[row] = project

CreatePlannerRun(project, conversation) ==
  /\ Len(plans) < MaxPlans
  /\ BelongsTo(conversation, project)
  /\ \E route \in ModelRoutes : \E result \in PlannerResults(route) :
       plans' = Append(plans, [project |-> project, conversation |-> conversation,
                               status |-> "DRAFTED", kind |-> result.kind,
                               drafts |-> result.drafts, usage |-> result.usage])
  /\ UNCHANGED <<approvals, board, decider>>

\* _ensure_planner_run_is_drafted, at the beginning of a decision.
ReadPlan(d, p, choice) ==
  /\ decider[d] = Undecided
  /\ plans[p].status = "DRAFTED"
  /\ decider' = [decider EXCEPT ![d] = [choice |-> choice, plan |-> p]]
  /\ UNCHANGED <<plans, approvals, board>>

\* uq_approval_planner_run_id
MayDecide(p) == \A a \in approvals : a.plan # p

DraftedTasks(p) ==
  [k \in 1..plans[p].drafts |->
     [project |-> plans[p].project, conversation |-> plans[p].conversation,
      parent |-> 0, repo |-> NoRow, plan |-> p, draft |-> k]]

Decide(p, status) ==
  /\ approvals' = approvals \cup {[plan |-> p, status |-> status]}
  /\ plans' = [plans EXCEPT ![p].status = status]

\* Bug: an approval that relies on the status it read.
ApproveAsRead(d) ==
  LET p == decider[d].plan IN
  /\ decider[d].choice = "approve"
  /\ Len(board) + plans[p].drafts =< MaxTasks
  /\ Decide(p, "APPROVED")
  /\ board' = board \o DraftedTasks(p)
  /\ decider' = [decider EXCEPT ![d] = Undecided]

ApprovePlannerRun(d) ==
  LET p == decider[d].plan IN
  /\ decider[d].choice = "approve"
  /\ MayDecide(p)
  /\ Len(board) + plans[p].drafts =< MaxTasks
  /\ Decide(p, "APPROVED")
  /\ board' = board \o DraftedTasks(p)
  /\ decider' = [decider EXCEPT ![d] = Undecided]

RejectPlannerRun(d) ==
  LET p == decider[d].plan IN
  /\ decider[d].choice = "reject"
  /\ MayDecide(p)
  /\ Decide(p, "REJECTED")
  /\ decider' = [decider EXCEPT ![d] = Undecided]
  /\ UNCHANGED board

\* The unique constraint fails and the transaction is rolled back, or the request dies.
DecisionFails(d) ==
  /\ decider[d] # Undecided
  /\ decider' = [decider EXCEPT ![d] = Undecided]
  /\ UNCHANGED <<plans, approvals, board>>

CreateTask(project, conversation, parent, repo) ==
  /\ Len(board) < MaxTasks
  /\ BelongsTo(conversation, project)
  /\ parent # 0 => board[parent].project = project
  /\ BelongsTo(repo, project)
  /\ board' = Append(board, [project |-> project, conversation |-> conversation,
                             parent |-> parent, repo |-> repo, plan |-> 0, draft |-> 0])
  /\ UNCHANGED <<plans, approvals, decider>>

PlannerNext ==
  \/ \E project \in Projects, c \in Conversations \cup {NoRow} : CreatePlannerRun(project, c)
  \/ \E d \in Deciders, p \in 1..Len(plans), choice \in {"approve", "reject"} : ReadPlan(d, p, choice)
  \/ \E d \in Deciders : ApprovePlannerRun(d) \/ RejectPlannerRun(d) \/ DecisionFails(d)
  \/ \E project \in Projects, c \in Conversations \cup {NoRow}, parent \in 0..Len(board),
        r \in Repositories \cup {NoRow} : CreateTask(project, c, parent, r)

PlannerSpec == PlannerInit /\ [][PlannerNext]_plannerVars

(***************************************************************************)
(* Properties.                                                             *)
(***************************************************************************)

PlanRows ==
  [project : Projects, conversation : Conversations \cup {NoRow},
   status : {"DRAFTED", "APPROVED", "REJECTED"},
   kind : {"fake", "model_fallback_fake", "model"}, drafts : Nat, usage : UsageRows]

TaskRows ==
  [project : Projects, conversation : Conversations \cup {NoRow}, parent : Nat,
   repo : Repositories \cup {NoRow}, plan : Nat, draft : Nat]

\* Rows and requests keep to the values that they may hold.
PlannerTypeOK ==
  /\ plans \in Seq(PlanRows)
  /\ approvals \subseteq [plan : 1..Len(plans), status : {"APPROVED", "REJECTED"}]
  /\ board \in Seq(TaskRows)
  /\ decider \in [Deciders -> [choice : {"none", "approve", "reject"}, plan : 0..Len(plans)]]

TasksOf(p, k) == {i \in 1..Len(board) : board[i].plan = p /\ board[i].draft = k}

\* However many requests approve and reject a planner run at once, it is decided once:
\* the status of the run agrees with its approval row, a run that was approved has exactly one
\* task for each of its drafts, in the run's project and conversation, and any other run has
\* no task; what a task refers to is of the task's own project.
PlanDecidedOnce ==
  /\ \A p \in 1..Len(plans) :
       /\ {a.status : a \in {b \in approvals : b.plan = p}} = {plans[p].status} \ {"DRAFTED"}
       /\ plans[p].status = "APPROVED" => \A k \in 1..plans[p].drafts :
            \E i \in 1..Len(board) : TasksOf(p, k) = {i}
  /\ \A i \in 1..Len(board) :
       LET t == board[i] IN
       /\ t.plan # 0 => /\ plans[t.plan].status = "APPROVED"
                        /\ t.draft \in 1..plans[t.plan].drafts
                        /\ t.project = plans[t.plan].project
                        /\ t.conversation = plans[t.plan].conversation
       /\ BelongsTo(t.conversation, t.project) /\ BelongsTo(t.repo, t.project)
       /\ t.parent # 0 => board[t.parent].project = t.project

\* A decision stands, whatever other requests read before it and commit after it: the row of a
\* decided run is not written again, its tasks stay the ones that they are, and its approval
\* row is kept (_ensure_planner_run_is_drafted, uq_approval_planner_run_id).
DecisionStands ==
  [][/\ approvals \subseteq approvals'
     /\ \A p \in 1..Len(plans) : plans[p].status # "DRAFTED" =>
          /\ plans'[p] = plans[p]
          /\ \A k \in 1..plans[p].drafts : TasksOf(p, k)' = TasksOf(p, k)
    ]_plannerVars
=============================================================================
