------------------------- MODULE TaskWorkflowProofs -------------------------
(***************************************************************************)
(* What holds of a task for any number of handlers, artifacts, test runs   *)
(* and any statuses that users may set.  None of the invariants of         *)
(* TaskWorkflow is inductive: between its windows a handler relies on rows *)
(* that it has read or written before.  IInv says what it relies on        *)
(* (Relies), which rows two handlers cannot both be about to write         *)
(* (Apart), and how the rows of an artifact belong together (Artifact).    *)
(***************************************************************************)
EXTENDS TaskWorkflow, TLAPS

Testing == {"start", "testing", "tested"}
Calling == {"creating", "answered", "unanswered"}

\* Whose turn writes which status.
Writes(t) ==
  /\ t.pc = "move" /\ mode.byHand = {} => t.new # "SELF_TESTING" /\ Evidence(t.new)
  /\ t.pc = "cloud"  => t.new \in {"none", "PATCH_READY"}
  /\ t.pc = "start"  => t.new = "SELF_TESTING"
  /\ t.pc \in {"tested", "replay"} => t.new = AfterTests(t.out)
  /\ t.pc = "review"  => t.new = AfterReview(t.out)
  /\ t.pc = "approve" => t.new = "MERGE_READY"
  /\ t.pc = "final"   => t.new \in {"none", "PR_CREATED"}

\* What a handler with the record t knows of the artifact it works on.
Relies(t) ==
  /\ t.pc = "local" => "local" \in Runners
  /\ t.pc \in Testing \cup {"replay"} => Exists(t.art) /\ t.slot \in Slots
  /\ t.pc \in Testing => kind[t.art] \notin Replayed
  /\ t.pc = "start" => tests[t.art][t.slot] = "none"
  /\ t.pc \in {"testing", "tested"} => tests[t.art][t.slot] = "running"
  /\ t.pc \in {"tested", "replay"} => t.out \in Results
  /\ t.pc = "replay" => /\ kind[t.art] \in Replayed
                        /\ tests[t.art][t.slot] \in {"none", t.out}
  /\ t.pc = "review" => t.out \in Verdicts
  /\ t.pc = "review" /\ t.out = "approved" => /\ t.slot \in Slots
                                              /\ tests[t.art][t.slot] = "passed"
  /\ t.pc = "approve" => review[t.art].verdict = "approved"
  /\ t.pc = "publish" => approved[t.art]
  /\ t.pc \in Calling => record[t.art] = "creating"
  /\ t.pc = "creating" => github[t.art] = 0
  /\ t.pc = "answered" => github[t.art] = 1
  /\ t.pc \in {"finalize", "final"} => record[t.art] \in {"finalizing", "created"}

\* Two handlers never test in one slot or publish one artifact, and of two that replay a
\* test run at most one makes its row.
Apart(t, u) ==
  /\ t.pc \in Testing /\ u.pc \in Testing /\ t.art = u.art => t.slot # u.slot
  /\ t.pc = "replay" /\ u.pc = "replay" /\ t.art = u.art /\ t.slot = u.slot
       => tests[t.art][t.slot] # "none"
  /\ t.pc \in Calling /\ u.pc \in Calling => t.art # u.art

\* The rows of an artifact.
Artifact(a) ==
  /\ ~Exists(a) => \A i \in Slots : tests[a][i] = "none"
  /\ kind[a] \in Replayed => \A i \in Slots : tests[a][i] # "running"
  /\ review[a].verdict = "approved" => /\ review[a].test \in Slots
                                       /\ tests[a][review[a].test] = "passed"
  /\ approved[a] => review[a].verdict = "approved"
  /\ record[a] # "none" => approved[a]
  /\ record[a] = "none" => github[a] = 0
  /\ record[a] \in {"finalizing", "created"} => github[a] = 1
  /\ github[a] \in {0, 1}

Books ==
  /\ \A a \in Artifacts : Artifact(a)
  /\ \A h \in Handlers : Relies(task[h])
  /\ \A h, k \in Handlers : h # k => Apart(task[h], task[k])

IInv == TypeOK /\ Books /\ \A h \in Handlers : Writes(task[h])

-----------------------------------------------------------------------------
(***************************************************************************)
(* Steps that change no row.                                               *)
(***************************************************************************)
RowsTyped == /\ kind \in [Artifacts -> {"none"} \cup Runners]
             /\ tests \in [Artifacts -> [Slots -> {"none", "running"} \cup Results]]
             /\ review \in [Artifacts -> [verdict : {"none"} \cup Verdicts, test : 0 .. MaxTests]]
             /\ approved \in [Artifacts -> BOOLEAN]
             /\ record \in [Artifacts -> {"none", "creating", "finalizing", "created", "failed"}]
             /\ github \in [Artifacts -> Nat]

\* A test that passed, a review that approved, an approval and a published record stay.
EvidenceStays ==
  \A a \in Artifacts :
    /\ \A i \in Slots : tests[a][i] = "passed" => tests'[a][i] = "passed"
    /\ review[a].verdict = "approved" => review'[a].verdict = "approved"
    /\ approved[a] => approved'[a]
    /\ record[a] = "created" => record'[a] = "created"

\* What every step does.
Kept == IInv' /\ EvidenceStays

LEMMA EvidenceKept == ASSUME EvidenceStays, NEW s, Evidence(s) PROVE Evidence(s)'
  BY DEF EvidenceStays, Evidence

\* The idle handler relies on nothing.
LEMMA IdleTyped == /\ Idle \in Handler /\ Relies(Idle) /\ Writes(Idle)
                   /\ \A u : Apart(Idle, u) /\ Apart(u, Idle)
  BY BoundsAssumption DEF Idle, Handler, Relies, Writes, Apart, Testing, Calling, Artifacts, Windows

\* A step of one handler that keeps the books keeps the inductive invariant, provided that
\* the handler will write a status it may write.
LEMMA Written ==
  ASSUME IInv, UNCHANGED mode, NEW h \in Handlers, NEW t \in Handler,
         task' = [task EXCEPT ![h] = t],
         status' \in Status, RowsTyped', EvidenceStays, Books', Writes(t)'
  PROVE  Kept
  <1>1. TypeOK'
    BY DEF IInv, TypeOK, RowsTyped
  <1>2. ASSUME NEW k \in Handlers, k # h PROVE Writes(task[k])'
    <2>1. PICK u \in Handler : u = task[k] /\ u = task'[k] /\ Writes(u)
      BY <1>2 DEF IInv, TypeOK
    <2>2. Evidence(u.new) => Evidence(u.new)'
      BY EvidenceKept
    <2>3. Writes(u)'
      BY <2>1, <2>2 DEF Writes
    <2>4. QED
      BY <2>1, <2>3
  <1>3. task'[h] = t
    BY DEF IInv, TypeOK
  <1>4. QED
    BY <1>1, <1>2, <1>3 DEF IInv, Kept

LEMMA HandlerStep ==
  ASSUME IInv, UNCHANGED <<mode, rows>>, NEW h \in Handlers, NEW t \in Handler,
         task' = [task EXCEPT ![h] = t], status' \in Status,
         Relies(t), Writes(t),
         \A k \in Handlers \ {h} : Apart(t, task[k]) /\ Apart(task[k], t)
  PROVE  Kept
  <1>1. task'[h] = t /\ \A k \in Handlers \ {h} : task'[k] = task[k]
    BY DEF IInv, TypeOK
  <1>2. UNCHANGED <<kind, tests, review, approved, record, github>>
    BY DEF rows
  <1>3. \A u : /\ Relies(u)' <=> Relies(u)
               /\ Writes(u)' <=> Writes(u)
    BY <1>2 DEF Relies, Writes, Evidence, Exists
  <1>4. \A u, v : Apart(u, v)' <=> Apart(u, v)
    BY <1>2 DEF Apart
  <1>5. \A a \in Artifacts : Artifact(a)'
    BY <1>2 DEF IInv, Books, Artifact, Exists
  <1>6. \A k \in Handlers : Relies(task[k])'
    BY <1>1, <1>3 DEF IInv, Books
  <1>7. \A k, l \in Handlers : k # l => Apart(task[k], task[l])'
    BY <1>1, <1>4 DEF IInv, Books
  <1>8. RowsTyped' /\ EvidenceStays
    BY <1>2 DEF IInv, TypeOK, RowsTyped, EvidenceStays
  <1>9. QED
    BY <1>3, <1>5, <1>6, <1>7, <1>8, Written DEF Books

\* The statuses by name.
LEMMA StatusNames ==
  Status = {"CREATED", "SPEC_DRAFTED", "USER_APPROVED_SPEC", "TASKS_CREATED", "ASSIGNED",
            "IN_PROGRESS", "PATCH_READY", "SELF_TESTING", "REVIEWING", "FIX_REQUESTED",
            "APPROVED", "CI_RUNNING", "MERGE_READY", "HUMAN_APPROVAL", "PR_CREATED",
            "MERGED", "CLOSED", "CANCELLED"}
  BY DEF Status, Transitions

\* A handler that neither tests nor publishes is apart from all others.
LEMMA Elsewhere ==
  ASSUME NEW t, t.pc \notin Testing \cup Calling \cup {"replay"}
  PROVE  \A u : Apart(t, u) /\ Apart(u, t)
  BY DEF Apart

\* A slot that is taken next is held by nobody.
LEMMA NextSlot ==
  ASSUME TypeOK, NEW a \in Artifacts, NEW i \in Slots, IsNext(a, i)
  PROVE  /\ tests[a][i] = "none"
         /\ \A k \in Handlers : ~Idles(k) /\ task[k].art = a => task[k].slot # i
  <1>1. i \in i .. MaxTests
    BY BoundsAssumption DEF Slots
  <1>2. QED
    BY <1>1 DEF IsNext, Taken

-----------------------------------------------------------------------------
(***************************************************************************)
(* A request begins.                                                       *)
(***************************************************************************)
LEMMA AskStep ==
  ASSUME IInv, UNCHANGED mode, NEW h \in Handlers, NEW to \in Status, Ask(h, to)
  PROVE  Kept
  <1>1. PICK new \in {"none", to} :
          task' = [task EXCEPT ![h] = [pc |-> "move", art |-> 1, slot |-> 0,
                                       out |-> "none", new |-> new]]
    BY DEF Ask, Load
  <1> DEFINE t == [pc |-> "move", art |-> 1, slot |-> 0, out |-> "none", new |-> new]
  <1>2. t \in Handler
    BY BoundsAssumption DEF Handler, Windows, Artifacts
  <1>3. mode.byHand = {} => new \in {"none", "ASSIGNED", "CANCELLED"}
    BY DEF Ask
  <1>4. Relies(t) /\ Writes(t)
    BY <1>3 DEF Relies, Writes, Evidence, Testing, Calling
  <1>5. \A u : Apart(t, u) /\ Apart(u, t)
    BY Elsewhere DEF Testing, Calling
  <1>6. status' \in Status /\ UNCHANGED rows
    BY DEF Ask, IInv, TypeOK
  <1>7. QED
    BY <1>1, <1>2, <1>4, <1>5, <1>6, HandlerStep

LEMMA RequestHumanApprovalStep ==
  ASSUME IInv, UNCHANGED mode, NEW h \in Handlers, NEW a \in Artifacts,
         RequestHumanApproval(h, a)
  PROVE  Kept
  <1> DEFINE t == [pc |-> "move", art |-> a, slot |-> 0, out |-> "none",
                   new |-> "HUMAN_APPROVAL"]
  <1>1. task' = [task EXCEPT ![h] = t]
    BY DEF RequestHumanApproval, Load
  <1>2. t \in Handler
    BY BoundsAssumption, StatusNames DEF Handler, Windows
  <1>3. Relies(t) /\ Writes(t)
    BY DEF RequestHumanApproval, Relies, Writes, Evidence, Testing, Calling
  <1>4. \A u : Apart(t, u) /\ Apart(u, t)
    BY Elsewhere DEF Testing, Calling
  <1>5. status' \in Status /\ UNCHANGED rows
    BY DEF RequestHumanApproval, IInv, TypeOK
  <1>6. QED
    BY <1>1, <1>2, <1>3, <1>4, <1>5, HandlerStep

LEMMA RunLocallyStep ==
  ASSUME IInv, UNCHANGED mode, NEW h \in Handlers, RunLocally(h)
  PROVE  Kept
  <1>1. PICK new \in {"none"} :
          task' = [task EXCEPT ![h] = [pc |-> "local", art |-> 1, slot |-> 0,
                                       out |-> "none", new |-> new]]
    BY DEF RunLocally, Load
  <1> DEFINE t == [pc |-> "local", art |-> 1, slot |-> 0, out |-> "none", new |-> new]
  <1>2. t \in Handler
    BY BoundsAssumption DEF Handler, Windows, Artifacts
  <1>3. Relies(t) /\ Writes(t)
    BY DEF RunLocally, Relies, Writes, Testing, Calling
  <1>4. \A u : Apart(t, u) /\ Apart(u, t)
    BY Elsewhere DEF Testing, Calling
  <1>5. status' \in Status /\ UNCHANGED rows
    BY DEF RunLocally, IInv, TypeOK
  <1>6. QED
    BY <1>1, <1>2, <1>3, <1>4, <1>5, HandlerStep

LEMMA EndCloudRunStep ==
  ASSUME IInv, UNCHANGED mode, NEW h \in Handlers, EndCloudRun(h)
  PROVE  Kept
  <1>1. PICK step \in {"cloud", "refused"}, new \in {"none", "PATCH_READY"} :
          task' = [task EXCEPT ![h] = [pc |-> step, art |-> 1, slot |-> 0,
                                       out |-> "none", new |-> new]]
    BY DEF EndCloudRun, Load
  <1> DEFINE t == [pc |-> step, art |-> 1, slot |-> 0, out |-> "none", new |-> new]
  <1>2. t \in Handler
    BY BoundsAssumption, StatusNames DEF Handler, Windows, Artifacts
  <1>3. Relies(t) /\ Writes(t)
    BY DEF Relies, Writes, Testing, Calling
  <1>4. \A u : Apart(t, u) /\ Apart(u, t)
    BY Elsewhere DEF Testing, Calling
  <1>5. status' \in Status /\ UNCHANGED rows
    BY DEF EndCloudRun, IInv, TypeOK
  <1>6. QED
    BY <1>1, <1>2, <1>3, <1>4, <1>5, HandlerStep

LEMMA StartTestsStep ==
  ASSUME IInv, UNCHANGED mode, NEW h \in Handlers, NEW a \in Artifacts, NEW i \in Slots,
         StartTests(h, a, i)
  PROVE  Kept
  <1> DEFINE t == [pc |-> "start", art |-> a, slot |-> i, out |-> "none",
                   new |-> "SELF_TESTING"]
  <1>1. task' = [task EXCEPT ![h] = t]
    BY DEF StartTests, Load
  <1>2. t \in Handler
    BY BoundsAssumption, StatusNames DEF Handler, Windows, Slots
  <1>3. /\ tests[a][i] = "none"
        /\ \A k \in Handlers : ~Idles(k) /\ task[k].art = a => task[k].slot # i
    BY NextSlot DEF StartTests, IInv
  <1>4. Relies(t) /\ Writes(t)
    BY <1>3 DEF StartTests, Relies, Writes, Testing, Calling
  <1>5. \A k \in Handlers : Apart(t, task[k]) /\ Apart(task[k], t)
    BY <1>3 DEF Apart, Testing, Calling, Idles, At
  <1>6. status' \in Status /\ UNCHANGED rows
    BY DEF StartTests, IInv, TypeOK
  <1>7. QED
    BY <1>1, <1>2, <1>4, <1>5, <1>6, HandlerStep

LEMMA ReplayTestsStep ==
  ASSUME IInv, UNCHANGED mode, NEW h \in Handlers, NEW a \in Artifacts, NEW i \in Slots,
         ReplayTests(h, a, i)
  PROVE  Kept
  <1> DEFINE result == IF tests[a][i] = "none" THEN "passed" ELSE tests[a][i]
             t == [pc |-> "replay", art |-> a, slot |-> i, out |-> result,
                   new |-> AfterTests(result)]
  <1>1. result \in Results
    <2>1. tests[a][i] \in {"none", "running"} \cup Results /\ tests[a][i] # "running"
      BY DEF ReplayTests, IInv, TypeOK, Books, Artifact
    <2>2. QED
      BY <2>1 DEF Results
  <1>2. task' = [task EXCEPT ![h] = t]
    <2>1. status = "PATCH_READY" /\ AfterTests(result) # "PATCH_READY"
      BY DEF ReplayTests, AfterTests
    <2>2. QED
      BY <2>1 DEF ReplayTests, Load
  <1>3. t \in Handler
    BY <1>1, StatusNames DEF Handler, Windows, Slots, AfterTests
  <1>4. IsNext(a, i) \/ tests[a][i] # "none"
    BY DEF ReplayTests, IsLatest
  <1>5. \A k \in Handlers :
          tests[a][i] = "none" /\ ~Idles(k) /\ task[k].art = a => task[k].slot # i
    BY <1>4, NextSlot DEF IInv
  <1>6. Relies(t) /\ Writes(t)
    BY <1>1 DEF ReplayTests, Relies, Writes, Testing, Calling, Exists, Replayed
  <1>7. \A k \in Handlers : Apart(t, task[k]) /\ Apart(task[k], t)
    BY <1>5 DEF Apart, Testing, Calling, Idles, At
  <1>8. status' \in Status /\ UNCHANGED rows
    BY DEF ReplayTests, IInv, TypeOK
  <1>9. QED
    BY <1>2, <1>3, <1>6, <1>7, <1>8, HandlerStep

LEMMA ReviewStep ==
  ASSUME IInv, UNCHANGED mode, NEW h \in Handlers, NEW a \in Artifacts,
         NEW i \in 0 .. MaxTests, NEW verdict \in Verdicts, Review(h, a, i, verdict)
  PROVE  Kept
  <1> DEFINE t == [pc |-> "review", art |-> a, slot |-> i, out |-> verdict,
                   new |-> AfterReview(verdict)]
  <1>1. task' = [task EXCEPT ![h] = t]
    <2>1. status = "REVIEWING" /\ AfterReview(verdict) # "REVIEWING"
      BY DEF Review, AfterReview
    <2>2. QED
      BY <2>1 DEF Review, Load
  <1>2. t \in Handler
    BY StatusNames DEF Handler, Windows, AfterReview
  <1>3. verdict = "approved" => i \in Slots /\ tests[a][i] = "passed"
    BY BoundsAssumption DEF Review, Slots
  <1>4. Relies(t) /\ Writes(t)
    BY <1>3 DEF Relies, Writes, Testing, Calling
  <1>5. \A u : Apart(t, u) /\ Apart(u, t)
    BY Elsewhere DEF Testing, Calling
  <1>6. status' \in Status /\ UNCHANGED rows
    BY DEF Review, IInv, TypeOK
  <1>7. QED
    BY <1>1, <1>2, <1>4, <1>5, <1>6, HandlerStep

LEMMA ApproveStep ==
  ASSUME IInv, UNCHANGED mode, NEW h \in Handlers, NEW a \in Artifacts, Approve(h, a)
  PROVE  Kept
  <1> DEFINE t == [pc |-> "approve", art |-> a, slot |-> 0, out |-> "none",
                   new |-> "MERGE_READY"]
  <1>1. task' = [task EXCEPT ![h] = t]
    BY DEF Approve, Load
  <1>2. t \in Handler
    BY BoundsAssumption, StatusNames DEF Handler, Windows
  <1>3. Relies(t) /\ Writes(t)
    BY DEF Approve, Relies, Writes, Testing, Calling
  <1>4. \A u : Apart(t, u) /\ Apart(u, t)
    BY Elsewhere DEF Testing, Calling
  <1>5. status' \in Status /\ UNCHANGED rows
    BY DEF Approve, IInv, TypeOK
  <1>6. QED
    BY <1>1, <1>2, <1>3, <1>4, <1>5, HandlerStep

LEMMA PublishStep ==
  ASSUME IInv, UNCHANGED mode, NEW h \in Handlers, NEW a \in Artifacts, Publish(h, a)
  PROVE  Kept
  <1>1. PICK new \in {"none"} :
          task' = [task EXCEPT ![h] = [pc |-> "publish", art |-> a, slot |-> 0,
                                       out |-> "none", new |-> new]]
    BY DEF Publish, Load
  <1> DEFINE t == [pc |-> "publish", art |-> a, slot |-> 0, out |-> "none", new |-> new]
  <1>2. t \in Handler
    BY BoundsAssumption DEF Handler, Windows
  <1>3. Relies(t) /\ Writes(t)
    BY DEF Publish, Relies, Writes, Testing, Calling
  <1>4. \A u : Apart(t, u) /\ Apart(u, t)
    BY Elsewhere DEF Testing, Calling
  <1>5. status' \in Status /\ UNCHANGED rows
    BY DEF Publish, IInv, TypeOK
  <1>6. QED
    BY <1>1, <1>2, <1>3, <1>4, <1>5, HandlerStep

LEMMA ResumeStep ==
  ASSUME IInv, UNCHANGED mode, NEW h \in Handlers, NEW a \in Artifacts, Resume(h, a)
  PROVE  Kept
  <1> DEFINE t == [Idle EXCEPT !.pc = "finalize", !.art = a]
  <1>1. task' = [task EXCEPT ![h] = t]
    BY DEF Resume
  <1>2. t \in Handler
    BY IdleTyped DEF Handler
  <1>3. t.pc = "finalize" /\ t.art = a
    BY DEF Idle
  <1>4. Relies(t) /\ Writes(t)
    BY <1>3 DEF Resume, Relies, Writes, Testing, Calling
  <1>5. \A u : Apart(t, u) /\ Apart(u, t)
    BY <1>3, Elsewhere DEF Testing, Calling
  <1>6. status' \in Status /\ UNCHANGED rows
    BY DEF Resume, IInv, TypeOK
  <1>7. QED
    BY <1>1, <1>2, <1>4, <1>5, <1>6, HandlerStep

\* A request begins.
LEMMA BeginStep ==
  ASSUME IInv, UNCHANGED mode, NEW h \in Handlers, Begin(h)
  PROVE  Kept
  BY AskStep, RequestHumanApprovalStep, RunLocallyStep, EndCloudRunStep, StartTestsStep,
     ReplayTestsStep, ReviewStep, ApproveStep, PublishStep, ResumeStep DEF Begin

-----------------------------------------------------------------------------
(***************************************************************************)
(* A handler goes on without changing a row.                               *)
(***************************************************************************)
\* What a handler writes is a status.
LEMMA WrittenStatus ==
  ASSUME IInv, NEW h \in Handlers, status' = status \/ WriteStatus(h)
  PROVE  status' \in Status
  <1>1. task[h].new \in {"none"} \cup Status
    BY DEF IInv, TypeOK, Handler
  <1>2. QED
    BY <1>1 DEF IInv, TypeOK, WriteStatus

\* Ending is always possible.
LEMMA FinishStep ==
  ASSUME IInv, UNCHANGED <<mode, rows>>, NEW h \in Handlers, Finish(h), status' \in Status
  PROVE  Kept
  BY IdleTyped, HandlerStep DEF Finish

LEMMA EndTestsStep ==
  ASSUME IInv, UNCHANGED mode, NEW h \in Handlers, NEW result \in Results,
         EndTests(h, result)
  PROVE  Kept
  <1>1. UNCHANGED rows /\ status' \in Status
    BY DEF EndTests, IInv, TypeOK
  <1>2. CASE Finish(h)
    BY <1>1, <1>2, FinishStep
  <1>3. CASE ~Finish(h)
    <2> DEFINE u == task[h]
               t == [pc |-> "tested", art |-> u.art, slot |-> u.slot, out |-> result,
                     new |-> AfterTests(result)]
    <2>1. Load(h, "tested", u.art, u.slot, result, AfterTests(result))
          /\ AfterTests(result) \in Transitions[status]
      BY <1>3 DEF EndTests
    <2>2. AfterTests(result) # status
      <3>1. \A s \in Status : s \notin Transitions[s]
        BY StatusNames DEF Transitions
      <3>2. QED
        BY <2>1, <3>1 DEF IInv, TypeOK
    <2>3. task' = [task EXCEPT ![h] = t]
      BY <2>1, <2>2 DEF Load
    <2>4. u \in Handler /\ u.pc = "testing" /\ Relies(u)
      BY DEF EndTests, At, IInv, TypeOK, Books
    <2>5. t \in Handler
      BY <2>4, StatusNames DEF Handler, Windows, AfterTests
    <2>6. Relies(t) /\ Writes(t)
      BY <2>4 DEF Relies, Writes, Testing, Calling, Exists
    <2>7. \A k \in Handlers \ {h} : Apart(u, task[k]) /\ Apart(task[k], u)
      BY DEF IInv, Books
    <2>8. \A k \in Handlers \ {h} : Apart(t, task[k]) /\ Apart(task[k], t)
      BY <2>4, <2>7 DEF Apart, Testing, Calling
    <2>9. QED
      BY <1>1, <2>3, <2>5, <2>6, <2>8, HandlerStep
  <1>4. QED
    BY <1>2, <1>3

LEMMA CallFailsStep ==
  ASSUME IInv, UNCHANGED mode, NEW h \in Handlers, CallFails(h)
  PROVE  Kept
  <1> DEFINE u == task[h]
             t == [u EXCEPT !.pc = "unanswered"]
  <1>1. UNCHANGED rows /\ status' \in Status /\ task' = [task EXCEPT ![h] = t]
    BY DEF CallFails, Goto, IInv, TypeOK
  <1>2. u \in Handler /\ u.pc = "creating" /\ Relies(u)
    BY DEF CallFails, At, IInv, TypeOK, Books
  <1>3. t \in Handler /\ t.pc = "unanswered" /\ t.art = u.art
    BY <1>2 DEF Handler
  <1>4. Relies(t) /\ Writes(t)
    BY <1>2, <1>3 DEF Relies, Writes, Testing, Calling
  <1>5. \A k \in Handlers \ {h} : Apart(u, task[k]) /\ Apart(task[k], u)
    BY DEF IInv, Books
  <1>6. \A k \in Handlers \ {h} : Apart(t, task[k]) /\ Apart(task[k], t)
    BY <1>2, <1>3, <1>5 DEF Apart, Testing, Calling
  <1>7. QED
    BY <1>1, <1>3, <1>4, <1>6, HandlerStep

LEMMA FinalizeStep ==
  ASSUME IInv, UNCHANGED mode, NEW h \in Handlers, Finalize(h)
  PROVE  Kept
  <1>1. UNCHANGED rows /\ status' \in Status
    BY DEF Finalize, IInv, TypeOK
  <1>2. CASE Finish(h)
    BY <1>1, <1>2, FinishStep
  <1>3. CASE ~Finish(h)
    <2> DEFINE u == task[h]
    <2>1. PICK new \in {"none", "PR_CREATED"} :
            task' = [task EXCEPT ![h] = [pc |-> "final", art |-> u.art, slot |-> 0,
                                         out |-> "none", new |-> new]]
      BY <1>3 DEF Finalize, Load
    <2> DEFINE t == [pc |-> "final", art |-> u.art, slot |-> 0, out |-> "none", new |-> new]
    <2>2. u \in Handler /\ u.pc = "finalize" /\ Relies(u)
      BY DEF Finalize, At, IInv, TypeOK, Books
    <2>3. t \in Handler
      BY <2>2, BoundsAssumption, StatusNames DEF Handler, Windows
    <2>4. Relies(t) /\ Writes(t)
      BY <2>2 DEF Relies, Writes, Testing, Calling
    <2>5. \A v : Apart(t, v) /\ Apart(v, t)
      BY Elsewhere DEF Testing, Calling
    <2>6. QED
      BY <1>1, <2>1, <2>3, <2>4, <2>5, HandlerStep
  <1>4. QED
    BY <1>2, <1>3

-----------------------------------------------------------------------------
(***************************************************************************)
(* A handler writes rows.                                                  *)
(***************************************************************************)
TestsStay == \A a \in Artifacts, i \in Slots : tests[a][i] # "none" => tests'[a][i] # "none"

\* What is left to show of a step that writes rows.
LEMMA RowStep ==
  ASSUME IInv, UNCHANGED mode, NEW h \in Handlers, NEW t \in Handler,
         task' = [task EXCEPT ![h] = t],
         status' \in Status, RowsTyped', EvidenceStays, TestsStay,
         \A a \in Artifacts : Artifact(a)',
         Relies(t)', Writes(t)',
         \A k \in Handlers \ {h} : Relies(task[k])' /\ Apart(t, task[k])' /\ Apart(task[k], t)'
  PROVE  Kept
  <1>1. task'[h] = t /\ \A k \in Handlers \ {h} : task'[k] = task[k]
    BY DEF IInv, TypeOK
  <1>2. ASSUME NEW k \in Handlers \ {h}, NEW l \in Handlers \ {h}, k # l
        PROVE  Apart(task[k], task[l])'
    <2>1. PICK u \in Handler, v \in Handler :
            /\ u = task[k] /\ u = task'[k] /\ v = task[l] /\ v = task'[l]
            /\ Apart(u, v) /\ Relies(u)
      BY <1>1, <1>2 DEF IInv, TypeOK, Books
    <2>2. Apart(u, v)'
      BY <2>1 DEF Apart, TestsStay, Relies, Handler
    <2>3. QED
      BY <2>1, <2>2
  <1>3. Books'
    BY <1>1, <1>2 DEF Books
  <1>4. QED
    BY <1>3, Written

\* A new artifact has no rows, and no handler relies on them.
LEMMA LocalPatchStep ==
  ASSUME IInv, UNCHANGED mode, NEW h \in Handlers, NEW a \in Artifacts, LocalPatch(h, a)
  PROVE  Kept
  <1>1. /\ kind' = [kind EXCEPT ![a] = "local"] /\ kind[a] = "none"
        /\ UNCHANGED <<tests, review, approved, record, github>>
        /\ task' = [task EXCEPT ![h] = Idle]
        /\ status' \in Status
    BY StatusNames DEF LocalPatch, Finish, Fresh, Exists
  <1>2. "local" \in Runners
    BY DEF LocalPatch, At, IInv, Books, Relies
  <1>3. RowsTyped' /\ EvidenceStays /\ TestsStay
    BY <1>1, <1>2 DEF IInv, TypeOK, RowsTyped, EvidenceStays, TestsStay
  <1>4. ASSUME NEW b \in Artifacts PROVE Artifact(b)'
    <2>1. Artifact(b) /\ kind \in [Artifacts -> {"none"} \cup Runners]
      BY DEF IInv, TypeOK, Books
    <2>2. QED
      BY <1>1, <2>1 DEF Artifact, Exists, Replayed
  <1>5. ASSUME NEW k \in Handlers \ {h} PROVE Relies(task[k])'
    <2>1. PICK u \in Handler : u = task[k] /\ u = task'[k] /\ Relies(u)
      BY <1>1 DEF IInv, TypeOK, Books
    <2>2. u.art \in Artifacts /\ kind \in [Artifacts -> {"none"} \cup Runners]
      BY DEF Handler, IInv, TypeOK
    <2>3. Relies(u)'
      BY <1>1, <2>1, <2>2 DEF Relies, Exists, Replayed
    <2>4. QED
      BY <2>1, <2>3
  <1>6. Idle \in Handler /\ Relies(Idle)' /\ Writes(Idle)'
    BY IdleTyped DEF Idle, Relies, Writes, Testing, Calling
  <1>7. \A k \in Handlers \ {h} : Apart(Idle, task[k])' /\ Apart(task[k], Idle)'
    BY DEF Idle, Apart, Testing, Calling
  <1>8. QED
    BY <1>1, <1>3, <1>4, <1>5, <1>6, <1>7, RowStep

LEMMA NewArtifactStep ==
  ASSUME IInv, UNCHANGED mode, NEW h \in Handlers, NEW a \in Artifacts, NEW k \in Cloud,
         NEW result \in Results \cup {"none"}, NewArtifact(h, a, k, result),
         status' \in Status
  PROVE  Kept
  <1>1. /\ kind' = [kind EXCEPT ![a] = k] /\ kind[a] = "none" /\ k \in Runners
        /\ tests' = [tests EXCEPT ![a][1] = result]
        /\ UNCHANGED <<review, approved, record, github>>
        /\ task' = [task EXCEPT ![h] = Idle]
    BY DEF NewArtifact, Finish, Fresh, Exists, Cloud
  <1>2. 1 \in Slots /\ \A i \in Slots : tests[a][i] = "none"
    BY <1>1, BoundsAssumption DEF Slots, IInv, Books, Artifact, Exists
  <1>3. RowsTyped'
    BY <1>1, <1>2 DEF IInv, TypeOK, RowsTyped
  <1>4. EvidenceStays /\ TestsStay
    BY <1>1, <1>2 DEF IInv, TypeOK, EvidenceStays, TestsStay
  <1>5. ASSUME NEW b \in Artifacts PROVE Artifact(b)'
    <2>1. /\ Artifact(b) /\ kind \in [Artifacts -> {"none"} \cup Runners]
          /\ tests \in [Artifacts -> [Slots -> {"none", "running"} \cup Results]]
          /\ k # "none"
      BY RunnersAssumption DEF IInv, TypeOK, Books, Cloud
    <2>2. QED
      BY <1>1, <1>2, <2>1 DEF Artifact, Exists, Replayed, Results
  <1>6. ASSUME NEW l \in Handlers \ {h} PROVE Relies(task[l])'
    <2>1. PICK u \in Handler : u = task[l] /\ u = task'[l] /\ Relies(u)
      BY <1>1 DEF IInv, TypeOK, Books
    <2>2. /\ u.art \in Artifacts /\ kind \in [Artifacts -> {"none"} \cup Runners]
          /\ tests \in [Artifacts -> [Slots -> {"none", "running"} \cup Results]]
      BY DEF Handler, IInv, TypeOK
    <2>3. Relies(u)'
      BY <1>1, <1>2, <2>1, <2>2 DEF Relies, Exists, Replayed, Testing, Calling
    <2>4. QED
      BY <2>1, <2>3
  <1>7. Idle \in Handler /\ Relies(Idle)' /\ Writes(Idle)'
    BY IdleTyped DEF Idle, Relies, Writes, Testing, Calling
  <1>8. \A l \in Handlers \ {h} : Apart(Idle, task[l])' /\ Apart(task[l], Idle)'
    BY DEF Idle, Apart, Testing, Calling
  <1>9. QED
    BY <1>1, <1>3, <1>4, <1>5, <1>6, <1>7, <1>8, RowStep

\* A handler with the record t does not mind that test run i of artifact a becomes v.
Agrees(t, a, i, v) ==
  t.art = a /\ t.slot = i => t.pc \notin Testing /\ (t.pc = "replay" => t.out = v)

\* A test run that no other handler is about to write takes a result.
LEMMA TestStep ==
  ASSUME IInv, UNCHANGED <<mode, kind, review, approved, record, github>>,
         NEW h \in Handlers, NEW a \in Artifacts, NEW i \in Slots,
         NEW v \in {"running"} \cup Results, NEW t \in Handler,
         tests' = [tests EXCEPT ![a][i] = v],
         task' = [task EXCEPT ![h] = t],
         status' \in Status,
         Exists(a), v = "running" => kind[a] \notin Replayed,
         tests[a][i] \in {"none", "running", v},
         \A k \in Handlers \ {h} : Agrees(task[k], a, i, v),
         Relies(t)', Writes(t)',
         \A k \in Handlers \ {h} : Apart(t, task[k])' /\ Apart(task[k], t)'
  PROVE  Kept
  <1>1. tests \in [Artifacts -> [Slots -> {"none", "running"} \cup Results]]
    BY DEF IInv, TypeOK
  <1>2. RowsTyped' /\ EvidenceStays /\ TestsStay
    BY <1>1 DEF IInv, TypeOK, RowsTyped, EvidenceStays, TestsStay, Results
  <1>3. ASSUME NEW b \in Artifacts PROVE Artifact(b)'
    <2>1. Artifact(b)
      BY DEF IInv, Books
    <2>2. QED
      BY <1>1, <2>1 DEF Artifact, Exists, Results
  <1>4. ASSUME NEW k \in Handlers \ {h} PROVE Relies(task[k])'
    <2>1. PICK u \in Handler : u = task[k] /\ u = task'[k] /\ Relies(u) /\ Agrees(u, a, i, v)
      BY DEF IInv, TypeOK, Books
    <2>2. u.art \in Artifacts
      BY DEF Handler
    <2>3. Relies(u)'
      BY <1>1, <2>1, <2>2 DEF Relies, Exists, Testing, Results, Agrees
    <2>4. QED
      BY <2>1, <2>3
  <1>5. QED
    BY <1>2, <1>3, <1>4, RowStep

LEMMA BeginTestsStep ==
  ASSUME IInv, UNCHANGED mode, NEW h \in Handlers, BeginTests(h)
  PROVE  Kept
  <1>0. PICK u \in Handler : u = task[h]
    BY DEF IInv, TypeOK
  <1> DEFINE t == [u EXCEPT !.pc = "testing"]
  <1>1. /\ u.pc = "start" /\ tests' = [tests EXCEPT ![u.art][u.slot] = "running"]
        /\ task' = [task EXCEPT ![h] = t]
        /\ UNCHANGED <<kind, review, approved, record, github>>
        /\ status' \in Status
    BY <1>0, WrittenStatus DEF BeginTests, At, Goto
  <1>2. u \in Handler /\ Relies(u) /\ u.art \in Artifacts
    BY <1>0 DEF IInv, TypeOK, Books, Handler
  <1>3. /\ u.slot \in Slots /\ Exists(u.art) /\ kind[u.art] \notin Replayed
        /\ tests[u.art][u.slot] = "none"
    BY <1>1, <1>2 DEF Relies, Testing
  <1>4. /\ t \in Handler /\ t.pc = "testing" /\ t.art = u.art /\ t.slot = u.slot
    BY <1>2 DEF Handler
  <1>5. ASSUME NEW k \in Handlers \ {h} PROVE Apart(u, task[k]) /\ Relies(task[k])
    BY <1>0 DEF IInv, Books
  <1>6. ASSUME NEW k \in Handlers \ {h}
        PROVE  /\ task[k].art = u.art /\ task[k].slot = u.slot =>
                    task[k].pc \notin Testing /\ task[k].pc # "replay"
               /\ Agrees(task[k], u.art, u.slot, "running")
    BY <1>1, <1>3, <1>5 DEF Apart, Relies, Testing, Agrees
  <1>7. Relies(t)' /\ Writes(t)'
    <2>1. tests'[u.art][u.slot] = "running"
      BY <1>1, <1>2, <1>3 DEF IInv, TypeOK
    <2>2. QED
      BY <1>1, <1>3, <1>4, <2>1 DEF Relies, Writes, Testing, Calling, Exists
  <1>8. ASSUME NEW k \in Handlers \ {h} PROVE Apart(t, task[k])' /\ Apart(task[k], t)'
    <2>1. PICK w \in Handler : w = task[k] /\ w = task'[k]
      BY <1>1 DEF IInv, TypeOK
    <2>2. Apart(t, w)' /\ Apart(w, t)'
      BY <1>4, <1>6, <2>1 DEF Apart, Testing, Calling
    <2>3. QED
      BY <2>1, <2>2
  <1> HIDE DEF t
  <1>9. QED
    BY <1>1, <1>2, <1>3, <1>4, <1>6, <1>7, <1>8, TestStep

\* The results of a test run and of a replay are recorded by a handler that ends.
LEMMA ResultStep ==
  ASSUME IInv, UNCHANGED <<mode, kind, review, approved, record, github>>,
         NEW h \in Handlers, task[h].pc \in {"tested", "replay"},
         tests' = [tests EXCEPT ![task[h].art][task[h].slot] = task[h].out],
         Finish(h), status' \in Status
  PROVE  Kept
  <1>0. PICK u \in Handler : u = task[h]
    BY DEF IInv, TypeOK
  <1>1. /\ Relies(u) /\ u.art \in Artifacts /\ u.pc \in {"tested", "replay"}
        /\ tests' = [tests EXCEPT ![u.art][u.slot] = u.out]
    BY <1>0 DEF IInv, TypeOK, Books, Handler
  <1>2. /\ u.slot \in Slots /\ u.out \in Results /\ Exists(u.art)
        /\ tests[u.art][u.slot] \in {"none", "running", u.out}
    BY <1>1 DEF Relies, Testing
  <1>3. ASSUME NEW k \in Handlers \ {h} PROVE Agrees(task[k], u.art, u.slot, u.out)
    <2>1. Apart(u, task[k]) /\ Relies(task[k])
      BY <1>0 DEF IInv, Books
    <2>2. CASE u.pc = "tested"
      BY <1>1, <2>1, <2>2 DEF Agrees, Apart, Relies, Testing
    <2>3. CASE u.pc = "replay"
      BY <1>1, <2>1, <2>3 DEF Agrees, Apart, Relies, Testing
    <2>4. QED
      BY <1>1, <2>2, <2>3
  <1>4. Idle \in Handler /\ Relies(Idle)' /\ Writes(Idle)'
    BY IdleTyped DEF Idle, Relies, Writes, Testing, Calling
  <1>5. \A k \in Handlers \ {h} : Apart(Idle, task[k])' /\ Apart(task[k], Idle)'
    BY DEF Idle, Apart, Testing, Calling
  <1>6. u.out # "running" /\ task' = [task EXCEPT ![h] = Idle]
    BY <1>2 DEF Results, Finish
  <1>7. QED
    BY <1>1, <1>2, <1>3, <1>4, <1>5, <1>6, TestStep

LEMMA RecordReviewStep ==
  ASSUME IInv, UNCHANGED mode, NEW h \in Handlers, RecordReview(h)
  PROVE  Kept
  <1>1. status' \in Status /\ Finish(h) /\ UNCHANGED <<kind, tests, approved, record, github>>
    BY WrittenStatus DEF RecordReview
  <1>2. CASE review' = review
    BY <1>1, <1>2, FinishStep DEF rows
  <1>3. CASE review' # review
    <2>1. PICK u \in Handler : u = task[h]
      BY DEF IInv, TypeOK
    <2> DEFINE new == [verdict |-> u.out, test |-> u.slot]
    <2>2. /\ u.pc = "review" /\ review[u.art] = NoReview
          /\ review' = [review EXCEPT ![u.art] = new]
      BY <1>3, <2>1 DEF RecordReview, At
    <2>3. Relies(u) /\ u.art \in Artifacts /\ u.slot \in 0 .. MaxTests
      BY <2>1 DEF IInv, Books, Handler
    <2>4. /\ new.verdict \in Verdicts
          /\ new.verdict = "approved" => /\ new.test \in Slots
                                         /\ tests[u.art][new.test] = "passed"
      BY <2>2, <2>3 DEF Relies
    <2>5. new \in [verdict : {"none"} \cup Verdicts, test : 0 .. MaxTests]
      BY <2>3, <2>4
    <2> HIDE DEF new
    <2>6. review[u.art].verdict = "none"
      BY <2>2 DEF NoReview
    <2>7. RowsTyped' /\ EvidenceStays /\ TestsStay
      BY <1>1, <2>2, <2>3, <2>5, <2>6 DEF IInv, TypeOK, RowsTyped, EvidenceStays, TestsStay
    <2>8. ASSUME NEW b \in Artifacts PROVE Artifact(b)'
      <3>1. Artifact(b) /\ review \in [Artifacts -> [verdict : {"none"} \cup Verdicts, test : 0 .. MaxTests]]
        BY DEF IInv, TypeOK, Books
      <3>2. QED
        BY <1>1, <2>2, <2>4, <2>6, <3>1 DEF Artifact, Exists
    <2>9. ASSUME NEW k \in Handlers \ {h} PROVE Relies(task[k])'
      <3>1. PICK w \in Handler : w = task[k] /\ w = task'[k] /\ Relies(w)
        BY <1>1 DEF IInv, TypeOK, Books, Finish
      <3>2. w.art \in Artifacts
            /\ review \in [Artifacts -> [verdict : {"none"} \cup Verdicts, test : 0 .. MaxTests]]
        BY DEF Handler, IInv, TypeOK
      <3>3. Relies(w)'
        BY <1>1, <2>2, <2>6, <3>1, <3>2 DEF Relies, Exists
      <3>4. QED
        BY <3>1, <3>3
    <2>10. Idle \in Handler /\ Relies(Idle)' /\ Writes(Idle)'
      BY IdleTyped DEF Idle, Relies, Writes, Testing, Calling
    <2>11. \A k \in Handlers \ {h} : Apart(Idle, task[k])' /\ Apart(task[k], Idle)'
      BY DEF Idle, Apart, Testing, Calling
    <2>12. task' = [task EXCEPT ![h] = Idle]
      BY <1>1 DEF Finish
    <2>13. QED
      BY <1>1, <2>7, <2>8, <2>9, <2>10, <2>11, <2>12, RowStep
  <1>4. QED
    BY <1>2, <1>3

LEMMA RecordApprovalStep ==
  ASSUME IInv, UNCHANGED mode, NEW h \in Handlers, RecordApproval(h)
  PROVE  Kept
  <1>1. status' \in Status /\ Finish(h) /\ UNCHANGED <<kind, tests, review, record, github>>
    BY WrittenStatus DEF RecordApproval
  <1>2. CASE approved' = approved
    BY <1>1, <1>2, FinishStep DEF rows
  <1>3. CASE approved' # approved
    <2>1. PICK u \in Handler : u = task[h]
      BY DEF IInv, TypeOK
    <2>2. u.pc = "approve" /\ approved' = [approved EXCEPT ![u.art] = TRUE]
      BY <1>3, <2>1 DEF RecordApproval, At
    <2>3. u.art \in Artifacts /\ review[u.art].verdict = "approved"
      BY <2>1, <2>2 DEF IInv, Books, Relies, Handler
    <2>4. approved \in [Artifacts -> BOOLEAN]
      BY DEF IInv, TypeOK
    <2>5. RowsTyped' /\ EvidenceStays /\ TestsStay
      BY <1>1, <2>2, <2>3 DEF IInv, TypeOK, RowsTyped, EvidenceStays, TestsStay
    <2>6. ASSUME NEW b \in Artifacts PROVE Artifact(b)'
      <3>1. Artifact(b)
        BY DEF IInv, Books
      <3>2. QED
        BY <1>1, <2>2, <2>3, <2>4, <3>1 DEF Artifact, Exists
    <2>7. ASSUME NEW k \in Handlers \ {h} PROVE Relies(task[k])'
      <3>1. PICK w \in Handler : w = task[k] /\ w = task'[k] /\ Relies(w)
        BY <1>1 DEF IInv, TypeOK, Books, Finish
      <3>2. w.art \in Artifacts
        BY DEF Handler
      <3>3. Relies(w)'
        BY <1>1, <2>2, <2>4, <3>1, <3>2 DEF Relies, Exists
      <3>4. QED
        BY <3>1, <3>3
    <2>8. Idle \in Handler /\ Relies(Idle)' /\ Writes(Idle)'
      BY IdleTyped DEF Idle, Relies, Writes, Testing, Calling
    <2>9. \A k \in Handlers \ {h} : Apart(Idle, task[k])' /\ Apart(task[k], Idle)'
      BY DEF Idle, Apart, Testing, Calling
    <2>10. task' = [task EXCEPT ![h] = Idle]
      BY <1>1 DEF Finish
    <2>11. QED
      BY <1>1, <2>5, <2>6, <2>7, <2>8, <2>9, <2>10, RowStep
  <1>4. QED
    BY <1>2, <1>3

\* A handler that is the first to publish an artifact, or that is the one that calls GitHub
\* for it, or that finalizes what GitHub has, brings its record to r and GitHub to g.
LEMMA PublicationStep ==
  ASSUME IInv, UNCHANGED <<mode, kind, tests, review, approved>>,
         NEW h \in Handlers, NEW u \in Handler, u = task[h],
         NEW r \in {"creating", "finalizing", "created", "failed"}, NEW g \in {0, 1},
         NEW t \in Handler,
         record' = [record EXCEPT ![u.art] = r],
         github' = [github EXCEPT ![u.art] = g],
         task' = [task EXCEPT ![h] = t],
         status' \in Status,
         \/ record[u.art] = "none" /\ approved[u.art]
         \/ u.pc \in Calling
         \/ record[u.art] \in {"finalizing", "created"} /\ r = "created",
         r \in {"finalizing", "created"} => g = 1,
         t.pc \in Calling => t.art = u.art, t.pc \notin Testing \cup {"replay"}, Relies(t)', Writes(t)'
  PROVE  Kept
  <1>1. /\ record \in [Artifacts -> {"none", "creating", "finalizing", "created", "failed"}]
        /\ github \in [Artifacts -> Nat]
        /\ u.art \in Artifacts /\ Artifact(u.art) /\ Relies(u)
    BY DEF IInv, TypeOK, Handler, Books
  <1>2. \/ record[u.art] = "none" /\ approved[u.art]
        \/ u.pc \in Calling /\ record[u.art] = "creating"
        \/ record[u.art] \in {"finalizing", "created"} /\ r = "created"
    BY <1>1 DEF Relies
  <1>3. approved[u.art]
    BY <1>1, <1>2 DEF Artifact
  <1>4. RowsTyped' /\ EvidenceStays /\ TestsStay
    BY <1>1, <1>2 DEF IInv, TypeOK, RowsTyped, EvidenceStays, TestsStay
  <1>5. ASSUME NEW b \in Artifacts PROVE Artifact(b)'
    <2>1. Artifact(b)
      BY DEF IInv, Books
    <2>2. QED
      BY <1>1, <1>3, <2>1 DEF Artifact, Exists
  <1>6. ASSUME NEW k \in Handlers \ {h}
        PROVE  Relies(task[k])' /\ Apart(t, task[k])' /\ Apart(task[k], t)'
    <2>1. PICK w \in Handler : /\ w = task[k] /\ w = task'[k] /\ Relies(w)
                               /\ Apart(u, w) /\ Apart(w, u)
      BY DEF IInv, TypeOK, Books
    <2>2. w.art \in Artifacts
      BY DEF Handler
    <2>3. w.pc \in Calling => w.art # u.art
      BY <1>2, <2>1 DEF Relies, Apart
    <2>4. w.pc \in {"finalize", "final"} /\ w.art = u.art => r = "created"
      BY <1>2, <2>1 DEF Relies
    <2>5. Relies(w)'
      BY <1>1, <2>1, <2>2, <2>3, <2>4 DEF Relies, Exists, Calling
    <2>6. Apart(t, w)' /\ Apart(w, t)'
      BY <2>3 DEF Apart
    <2>7. QED
      BY <2>1, <2>5, <2>6
  <1>7. QED
    BY <1>4, <1>5, <1>6, RowStep

LEMMA CreateRecordStep ==
  ASSUME IInv, UNCHANGED mode, NEW h \in Handlers, CreateRecord(h)
  PROVE  Kept
  <1>1. PICK u \in Handler : u = task[h]
    BY DEF IInv, TypeOK
  <1>2. /\ u.pc = "publish" /\ status' \in Status
        /\ UNCHANGED <<kind, tests, review, approved, github>>
    BY <1>1 DEF CreateRecord, At, IInv, TypeOK
  <1>3. /\ u.art \in Artifacts /\ Artifact(u.art) /\ approved[u.art]
        /\ github \in [Artifacts -> Nat]
        /\ record \in [Artifacts -> {"none", "creating", "finalizing", "created", "failed"}]
    BY <1>1, <1>2 DEF IInv, TypeOK, Handler, Books, Relies
  <1>4. CASE record[u.art] = "none"
    <2> DEFINE t == [u EXCEPT !.pc = "creating"]
    <2>1. record' = [record EXCEPT ![u.art] = "creating"] /\ task' = [task EXCEPT ![h] = t]
      BY <1>1, <1>4 DEF CreateRecord, Goto
    <2>2. t \in Handler /\ t.pc = "creating" /\ t.art = u.art
      BY DEF Handler
    <2>3. github[u.art] = 0 /\ github' = [github EXCEPT ![u.art] = 0]
      BY <1>2, <1>3, <1>4 DEF Artifact
    <2>4. Relies(t)' /\ Writes(t)'
      BY <1>2, <1>3, <2>1, <2>2, <2>3 DEF Relies, Writes, Testing, Calling
    <2>5. t.pc \notin Testing \cup {"replay"}
      BY <2>2 DEF Testing
    <2> HIDE DEF t
    <2>6. QED
      BY <1>1, <1>2, <1>3, <1>4, <2>1, <2>2, <2>3, <2>4, <2>5, PublicationStep
  <1>5. CASE record[u.art] = "finalizing"
    <2> DEFINE t == [u EXCEPT !.pc = "finalize"]
    <2>1. record' = record /\ task' = [task EXCEPT ![h] = t]
      BY <1>1, <1>5 DEF CreateRecord, Goto
    <2>2. t \in Handler /\ t.pc = "finalize" /\ t.art = u.art
      BY DEF Handler
    <2>3. Relies(t) /\ Writes(t)
      BY <1>5, <2>2 DEF Relies, Writes, Testing, Calling
    <2>4. \A v : Apart(t, v) /\ Apart(v, t)
      BY <2>2, Elsewhere DEF Testing, Calling
    <2>5. UNCHANGED rows
      BY <1>2, <2>1 DEF rows
    <2>6. QED
      BY <1>2, <2>1, <2>2, <2>3, <2>4, <2>5, HandlerStep
  <1>6. CASE record[u.art] \notin {"none", "finalizing"}
    <2>1. record' = record /\ Finish(h)
      BY <1>1, <1>6 DEF CreateRecord
    <2>2. QED
      BY <1>2, <2>1, FinishStep DEF rows
  <1>7. QED
    BY <1>4, <1>5, <1>6

LEMMA CallGitHubStep ==
  ASSUME IInv, UNCHANGED mode, NEW h \in Handlers, CallGitHub(h)
  PROVE  Kept
  <1>1. PICK u \in Handler : u = task[h]
    BY DEF IInv, TypeOK
  <1>2. PICK step \in {"answered", "unanswered"} :
          /\ u.pc = "creating" /\ status' = status
          /\ github' = [github EXCEPT ![u.art] = github[u.art] + 1]
          /\ task' = [task EXCEPT ![h].pc = step]
          /\ UNCHANGED <<kind, tests, review, approved, record>>
    BY <1>1 DEF CallGitHub, At, Goto
  <1> DEFINE t == [u EXCEPT !.pc = step]
  <1>3. /\ u.art \in Artifacts /\ record[u.art] = "creating" /\ github[u.art] = 0
        /\ github \in [Artifacts -> Nat] /\ status \in Status
        /\ record \in [Artifacts -> {"none", "creating", "finalizing", "created", "failed"}]
    BY <1>1, <1>2 DEF IInv, TypeOK, Handler, Books, Relies, Calling
  <1>4. t \in Handler /\ t.pc = step /\ t.art = u.art
    BY DEF Handler
  <1>5. /\ github' = [github EXCEPT ![u.art] = 1]
        /\ record' = [record EXCEPT ![u.art] = "creating"]
        /\ task' = [task EXCEPT ![h] = t]
    BY <1>1, <1>2, <1>3
  <1>6. Relies(t)' /\ Writes(t)'
    BY <1>3, <1>4, <1>5 DEF Relies, Writes, Testing, Calling
  <1>7. t.pc \notin Testing \cup {"replay"} /\ u.pc \in Calling
    BY <1>2, <1>4 DEF Testing, Calling
  <1>8. status' \in Status /\ UNCHANGED <<kind, tests, review, approved>>
    BY <1>2, <1>3
  <1> HIDE DEF t
  <1>9. QED
    BY <1>1, <1>4, <1>5, <1>6, <1>7, <1>8, PublicationStep

LEMMA MarkFailedStep ==
  ASSUME IInv, UNCHANGED mode, NEW h \in Handlers, MarkFailed(h)
  PROVE  Kept
  <1>1. PICK u \in Handler : u = task[h]
    BY DEF IInv, TypeOK
  <1>2. /\ u.pc \in Calling /\ status' \in Status
        /\ record' = [record EXCEPT ![u.art] = "failed"]
        /\ task' = [task EXCEPT ![h] = Idle]
        /\ UNCHANGED <<kind, tests, review, approved, github>>
    BY <1>1 DEF MarkFailed, At, Finish, IInv, TypeOK, Calling
  <1>3. github \in [Artifacts -> Nat] /\ github[u.art] \in {0, 1}
    BY <1>1 DEF IInv, TypeOK, Handler, Books, Artifact
  <1>4. PICK g \in {0, 1} : github' = [github EXCEPT ![u.art] = g]
    BY <1>2, <1>3
  <1>5. Idle \in Handler /\ Relies(Idle)' /\ Writes(Idle)'
    BY IdleTyped DEF Idle, Relies, Writes, Testing, Calling
  <1>6. Idle.pc \notin Testing \cup {"replay"} /\ Idle.pc \notin Calling
    BY DEF Idle, Testing, Calling
  <1>7. QED
    BY <1>1, <1>2, <1>4, <1>5, <1>6, PublicationStep

LEMMA MarkFinalizingStep ==
  ASSUME IInv, UNCHANGED mode, NEW h \in Handlers, MarkFinalizing(h)
  PROVE  Kept
  <1>1. PICK u \in Handler : u = task[h]
    BY DEF IInv, TypeOK
  <1> DEFINE t == [u EXCEPT !.pc = "finalize"]
  <1>2. /\ u.pc = "answered" /\ status' \in Status
        /\ record' = [record EXCEPT ![u.art] = "finalizing"]
        /\ task' = [task EXCEPT ![h] = t]
        /\ UNCHANGED <<kind, tests, review, approved, github>>
    BY <1>1 DEF MarkFinalizing, At, Goto, IInv, TypeOK
  <1>3. /\ u.art \in Artifacts /\ github \in [Artifacts -> Nat] /\ github[u.art] = 1
        /\ record \in [Artifacts -> {"none", "creating", "finalizing", "created", "failed"}]
    BY <1>1, <1>2 DEF IInv, TypeOK, Handler, Books, Relies
  <1>4. github' = [github EXCEPT ![u.art] = 1]
    BY <1>2, <1>3
  <1>5. t \in Handler /\ t.pc = "finalize" /\ t.art = u.art
    BY DEF Handler
  <1>6. Relies(t)' /\ Writes(t)'
    BY <1>2, <1>3, <1>5 DEF Relies, Writes, Testing, Calling
  <1>7. t.pc \notin Testing \cup {"replay"} /\ t.pc \notin Calling /\ u.pc \in Calling
    BY <1>2, <1>5 DEF Testing, Calling
  <1> HIDE DEF t
  <1>8. QED
    BY <1>1, <1>2, <1>4, <1>5, <1>6, <1>7, PublicationStep

LEMMA RecordCreatedStep ==
  ASSUME IInv, UNCHANGED mode, NEW h \in Handlers, RecordCreated(h)
  PROVE  Kept
  <1>1. PICK u \in Handler : u = task[h]
    BY DEF IInv, TypeOK
  <1>2. /\ u.pc = "final" /\ status' \in Status
        /\ record' = [record EXCEPT ![u.art] = "created"]
        /\ task' = [task EXCEPT ![h] = Idle]
        /\ UNCHANGED <<kind, tests, review, approved, github>>
    BY <1>1, WrittenStatus DEF RecordCreated, At, Finish
  <1>3. /\ github \in [Artifacts -> Nat] /\ github[u.art] = 1
        /\ record[u.art] \in {"finalizing", "created"}
    BY <1>1, <1>2 DEF IInv, TypeOK, Handler, Books, Relies, Artifact
  <1>4. github' = [github EXCEPT ![u.art] = 1]
    BY <1>2, <1>3
  <1>5. Idle \in Handler /\ Relies(Idle)' /\ Writes(Idle)'
    BY IdleTyped DEF Idle, Relies, Writes, Testing, Calling
  <1>6. Idle.pc \notin Testing \cup {"replay"} /\ Idle.pc \notin Calling
    BY DEF Idle, Testing, Calling
  <1>7. QED
    BY <1>1, <1>2, <1>3, <1>4, <1>5, <1>6, PublicationStep

-----------------------------------------------------------------------------
\* A handler goes on.
LEMMA ContinueStep ==
  ASSUME IInv, UNCHANGED mode, NEW h \in Handlers, Continue(h)
  PROVE  Kept
  <1>1. CASE Move(h)
    BY <1>1, WrittenStatus, FinishStep DEF Move
  <1>2. CASE \E a \in Artifacts : LocalPatch(h, a)
    BY <1>2, LocalPatchStep
  <1>3. CASE LocalFailure(h)
    BY <1>3, FinishStep, StatusNames DEF LocalFailure
  <1>4. CASE \E a \in Artifacts, k \in Cloud, r \in Results \cup {"none"} :
               CloudPatch(h, a, k, r) \/ KeepRefusedPatch(h, a, k, r)
    <2>1. PICK a \in Artifacts, k \in Cloud, r \in Results \cup {"none"} :
            NewArtifact(h, a, k, r) /\ (WriteStatus(h) \/ status' = status)
      BY <1>4 DEF CloudPatch, KeepRefusedPatch
    <2>2. QED
      BY <2>1, WrittenStatus, NewArtifactStep
  <1>5. CASE DropRefusedPatch(h)
    BY <1>5, WrittenStatus, FinishStep DEF DropRefusedPatch
  <1>6. CASE BeginTests(h)
    BY <1>6, BeginTestsStep
  <1>7. CASE \E r \in Results : EndTests(h, r)
    BY <1>7, EndTestsStep
  <1>8. CASE RecordTests(h) \/ RecordReplay(h)
    BY <1>8, WrittenStatus, ResultStep DEF RecordTests, RecordReplay, At
  <1>9. CASE RecordReview(h) \/ RecordApproval(h)
    BY <1>9, RecordReviewStep, RecordApprovalStep
  <1>10. CASE CreateRecord(h) \/ CallGitHub(h) \/ CallFails(h)
    BY <1>10, CreateRecordStep, CallGitHubStep, CallFailsStep
  <1>11. CASE MarkFailed(h) \/ MarkFinalizing(h) \/ Finalize(h) \/ RecordCreated(h)
    BY <1>11, MarkFailedStep, MarkFinalizingStep, FinalizeStep, RecordCreatedStep
  <1>12. QED
    BY <1>1, <1>2, <1>3, <1>4, <1>5, <1>6, <1>7, <1>8, <1>9, <1>10, <1>11 DEF Continue

LEMMA InitIInv == Init => IInv
  <1> SUFFICES ASSUME Init PROVE IInv
    OBVIOUS
  <1>1. \A h \in Handlers : task[h] = Idle
    BY DEF Init
  <1>2. TypeOK
    <2>1. NoReview \in [verdict : {"none"} \cup Verdicts, test : 0 .. MaxTests]
      BY BoundsAssumption DEF NoReview
    <2>2. NoTests \in [Slots -> {"none", "running"} \cup Results]
      BY DEF NoTests
    <2>3. "CREATED" \in Status /\ Idle \in Handler
      BY IdleTyped, StatusNames
    <2>4. QED
      BY <2>1, <2>2, <2>3 DEF Init, TypeOK
  <1>3. \A a \in Artifacts : Artifact(a)
    BY DEF Init, Artifact, NoTests, NoReview, Replayed
  <1>4. QED
    BY <1>1, <1>2, <1>3, IdleTyped DEF IInv, Books

LEMMA NextKept == IInv /\ [Next]_vars => Kept
  <1> SUFFICES ASSUME IInv, [Next]_vars PROVE Kept
    OBVIOUS
  <1>1. ASSUME NEW h \in Handlers, UNCHANGED mode, Begin(h) PROVE Kept
    BY <1>1, BeginStep
  <1>2. ASSUME NEW h \in Handlers, UNCHANGED mode, Continue(h) PROVE Kept
    BY <1>2, ContinueStep
  <1>3. ASSUME NEW h \in Handlers, UNCHANGED mode, Die(h) PROVE Kept
    BY <1>3, WrittenStatus, FinishStep DEF Die
  <1>4. CASE UNCHANGED vars
    <2> USE <1>4 DEF vars
    <2>1. TypeOK'
      BY DEF IInv, TypeOK
    <2>2. \A a \in Artifacts : Artifact(a)'
      BY DEF IInv, Books, Artifact, Exists
    <2>3. \A h \in Handlers : Relies(task[h])'
      BY DEF IInv, Books, Relies, Exists
    <2>4. \A h \in Handlers : Writes(task[h])'
      BY DEF IInv, Writes, Evidence
    <2>5. \A h, k \in Handlers : h # k => Apart(task[h], task[k])'
      BY DEF IInv, Books, Apart
    <2>6. EvidenceStays
      BY DEF EvidenceStays
    <2>7. QED
      BY <2>1, <2>2, <2>3, <2>4, <2>5, <2>6 DEF IInv, Books, Kept
  <1>5. QED
    BY <1>1, <1>2, <1>3, <1>4 DEF Next

\* Books and handlers are as described above, whatever overlaps and whoever dies.
THEOREM BooksKept == Spec => []IInv
  <1>1. IInv /\ [Next]_vars => IInv'
    BY NextKept DEF Kept
  <1>2. QED
    BY <1>1, InitIInv, PTL DEF Spec

\* Rows and handlers stay within the types of their columns.
THEOREM WorkflowTypeCorrect == Spec => []TypeOK
  BY BooksKept, PTL DEF IInv

\* An approval rests on a review of the same artifact that approved it because of a test run
\* of that artifact that passed.
THEOREM ApprovalsRestOnTests == Spec => []ApprovalRestsOnTests
  <1>1. IInv => ApprovalRestsOnTests
    BY DEF IInv, Books, Artifact, ApprovalRestsOnTests
  <1>2. QED
    BY <1>1, BooksKept, PTL

\* No approval is published twice.
THEOREM PublishedOnce == Spec => []OnePullRequestPerApproval
  <1>1. IInv => OnePullRequestPerApproval
    BY DEF IInv, Books, Artifact, OnePullRequestPerApproval
  <1>2. QED
    BY <1>1, BooksKept, PTL

\* What GitHub has was approved and is on record, and records name what GitHub has.
THEOREM PublicationsOnRecord == Spec => []PullRequestsOnRecord
  <1>1. IInv => PullRequestsOnRecord
    BY DEF IInv, Books, Artifact, PullRequestsOnRecord
  <1>2. QED
    BY <1>1, BooksKept, PTL

-----------------------------------------------------------------------------
(***************************************************************************)
(* The status.  A step leaves it, or ends the turn of a handler that       *)
(* writes it together with the rows that it stands for.                    *)
(***************************************************************************)
Step(h) == Begin(h) \/ Continue(h) \/ Die(h)

\* A handler that ends its turn with the status it has decided on, and with its rows.
EndsTurn(h) ==
  LET t == task[h]
  IN /\ t.pc \in {"move", "cloud", "start", "tested", "replay", "review", "approve", "final"}
     /\ status' = t.new
     /\ t.pc = "start" => task' = [task EXCEPT ![h].pc = "testing"]
     /\ t.pc \in {"tested", "replay"} => tests' = [tests EXCEPT ![t.art][t.slot] = t.out]
     /\ t.pc = "review" =>
          review' = [review EXCEPT ![t.art] = [verdict |-> t.out, test |-> t.slot]]
     /\ t.pc = "approve" => approved' = [approved EXCEPT ![t.art] = TRUE]
     /\ t.pc = "final" => record' = [record EXCEPT ![t.art] = "created"]

LEMMA StatusStep ==
  ASSUME TypeOK, NEW h \in Handlers, Step(h)
  PROVE  \/ status' = status
         \/ EndsTurn(h)
         \/ At(h, "local") /\ status' \in {"PATCH_READY", "FIX_REQUESTED"}
  <1>1. CASE Begin(h)
    BY <1>1 DEF Begin, Ask, RequestHumanApproval, RunLocally, EndCloudRun, StartTests,
                ReplayTests, Review, Approve, Publish, Resume
  <1>2. CASE Continue(h)
    BY <1>2 DEF Continue, Move, LocalPatch, LocalFailure, CloudPatch, KeepRefusedPatch,
                DropRefusedPatch, BeginTests, EndTests, RecordTests, RecordReplay,
                RecordReview, RecordApproval, CreateRecord, CallGitHub, CallFails,
                MarkFailed, MarkFinalizing, Finalize, RecordCreated, WriteStatus, EndsTurn,
                At, Goto
  <1>3. CASE Die(h)
    BY <1>3 DEF Die
  <1>4. QED
    BY <1>1, <1>2, <1>3 DEF Step

\* The status that a handler writes is one that its rows are evidence of.
LEMMA TurnHasEvidence ==
  ASSUME IInv, EvidenceStays, mode.byHand = {}, NEW h \in Handlers, EndsTurn(h)
  PROVE  Evidence(status)'
  <1>1. PICK t \in Handler : t = task[h] /\ Writes(t) /\ Relies(t) /\ t.art \in Artifacts
    BY DEF IInv, TypeOK, Books, Handler
  <1>2. /\ tests \in [Artifacts -> [Slots -> {"none", "running"} \cup Results]]
        /\ review \in [Artifacts -> [verdict : {"none"} \cup Verdicts, test : 0 .. MaxTests]]
        /\ approved \in [Artifacts -> BOOLEAN]
        /\ record \in [Artifacts -> {"none", "creating", "finalizing", "created", "failed"}]
    BY DEF IInv, TypeOK
  <1>3. CASE t.pc = "move"
    <2>1. Evidence(t.new)'
      BY <1>1, <1>3, EvidenceKept DEF Writes
    <2>2. QED
      BY <1>1, <2>1 DEF EndsTurn, Evidence
  <1>4. CASE t.pc \in {"cloud", "start"}
    BY <1>1, <1>4 DEF EndsTurn, Writes, Evidence
  <1>5. CASE t.pc \in {"tested", "replay"}
    <2>1. t.slot \in Slots
      BY <1>1, <1>5 DEF Relies, Testing
    <2>2. tests'[t.art][t.slot] = t.out
      BY <1>1, <1>2, <1>5, <2>1 DEF EndsTurn
    <2>3. status' = AfterTests(t.out)
      BY <1>1, <1>5 DEF EndsTurn, Writes
    <2>4. status' = "FIX_REQUESTED" \/ (status' = "REVIEWING" /\ t.out = "passed")
      BY <2>3 DEF AfterTests
    <2>5. QED
      BY <1>1, <2>1, <2>2, <2>4 DEF Evidence
  <1>6. CASE t.pc = "review"
    <2>1. review'[t.art].verdict = t.out
      BY <1>1, <1>2, <1>6 DEF EndsTurn
    <2>2. status' = AfterReview(t.out)
      BY <1>1, <1>6 DEF EndsTurn, Writes
    <2>3. status' = "FIX_REQUESTED" \/ (status' = "APPROVED" /\ t.out = "approved")
      BY <2>2 DEF AfterReview
    <2>4. QED
      BY <1>1, <2>1, <2>3 DEF Evidence
  <1>7. CASE t.pc = "approve"
    <2>1. approved'[t.art] /\ status' = "MERGE_READY"
      BY <1>1, <1>2, <1>7 DEF EndsTurn, Writes
    <2>2. QED
      BY <1>1, <2>1 DEF Evidence
  <1>8. CASE t.pc = "final"
    <2>1. record'[t.art] = "created" /\ status' \in {"none", "PR_CREATED"}
      BY <1>1, <1>2, <1>8 DEF EndsTurn, Writes
    <2>2. QED
      BY <1>1, <2>1 DEF Evidence
  <1>9. QED
    BY <1>1, <1>3, <1>4, <1>5, <1>6, <1>7, <1>8 DEF EndsTurn

\* Unless users set it by hand, the status never claims a test, a review, an approval or a
\* pull request that is not there.
THEOREM StatusTruthful == Spec => []StatusHasEvidence
  <1>1. Init => StatusHasEvidence
    BY DEF Init, StatusHasEvidence, Evidence
  <1>2. IInv /\ StatusHasEvidence /\ [Next]_vars => StatusHasEvidence'
    <2> SUFFICES ASSUME IInv, StatusHasEvidence, [Next]_vars, mode.byHand = {}, mode' = mode
                 PROVE  Evidence(status)'
      BY DEF StatusHasEvidence, Next, vars
    <2>1. EvidenceStays
      BY NextKept DEF Kept
    <2>2. PICK s : s = status /\ Evidence(s)
      BY DEF StatusHasEvidence
    <2>3. CASE status' = status
      <3>1. Evidence(s)'
        BY <2>1, <2>2, EvidenceKept
      <3>2. QED
        BY <2>2, <2>3, <3>1
    <2>4. CASE status' # status
      <3>1. PICK h \in Handlers : Step(h)
        BY <2>4 DEF Next, Step, vars
      <3>2. EndsTurn(h) \/ status' \in {"PATCH_READY", "FIX_REQUESTED"}
        BY <2>4, <3>1, StatusStep DEF IInv
      <3>3. QED
        BY <2>1, <3>2, TurnHasEvidence DEF Evidence
    <2>5. QED
      BY <2>3, <2>4
  <1>3. QED
    BY <1>1, <1>2, BooksKept, PTL DEF Spec

-----------------------------------------------------------------------------
\* Of one handler's step the others notice nothing.
LEMMA OthersWait ==
  ASSUME TypeOK, NEW h \in Handlers, Step(h)
  PROVE  \A k \in Handlers \ {h} : task'[k] = task[k]
  <1>1. \E t : task' = [task EXCEPT ![h] = t]
    <2>1. CASE Begin(h)
      BY ZenonT(60), <2>1 DEF Begin, Ask, RequestHumanApproval, RunLocally, EndCloudRun, StartTests,
                  ReplayTests, Review, Approve, Publish, Resume, Load
    <2>2. CASE Continue(h)
      BY <2>2 DEF Continue, Move, LocalPatch, LocalFailure, CloudPatch, KeepRefusedPatch,
                  NewArtifact, DropRefusedPatch, BeginTests, EndTests, RecordTests,
                  RecordReplay, RecordReview, RecordApproval, CreateRecord, CallGitHub,
                  CallFails, MarkFailed, MarkFinalizing, Finalize, RecordCreated, Load,
                  Goto, Finish
    <2>3. CASE Die(h)
      BY <2>3 DEF Die, Finish
    <2>4. QED
      BY <2>1, <2>2, <2>3 DEF Step
  <1>2. QED
    BY <1>1 DEF TypeOK

\* A handler that tests goes on testing, or moves the task on, or finds it moved.
LEMMA TesterStep ==
  ASSUME IInv, ~mode.dies, NEW h \in Handlers, Step(h),
         task[h].pc \in {"testing", "tested"}, status = "SELF_TESTING"
  PROVE  status' # "SELF_TESTING" \/ task'[h].pc = "tested"
  <1>1. Continue(h)
    BY DEF Step, Die, Begin, Ask, RequestHumanApproval, RunLocally, EndCloudRun, StartTests,
           ReplayTests, Review, Approve, Publish, Resume, Idles, At
  <1>2. CASE task[h].pc = "testing"
    <2>1. PICK r \in Results : EndTests(h, r)
      BY <1>1, <1>2 DEF Continue, Move, LocalPatch, LocalFailure, CloudPatch,
            KeepRefusedPatch, DropRefusedPatch, BeginTests, RecordTests, RecordReplay,
            RecordReview, RecordApproval, CreateRecord, CallGitHub, CallFails, MarkFailed,
            MarkFinalizing, Finalize, RecordCreated, At
    <2>2. AfterTests(r) \in Transitions[status]
      BY DEF AfterTests, Transitions
    <2>3. QED
      BY <2>1, <2>2 DEF EndTests, Load, IInv, TypeOK
  <1>3. CASE task[h].pc = "tested"
    <2>1. RecordTests(h)
      BY <1>1, <1>3 DEF Continue, Move, LocalPatch, LocalFailure, CloudPatch,
            KeepRefusedPatch, DropRefusedPatch, BeginTests, EndTests, RecordReplay,
            RecordReview, RecordApproval, CreateRecord, CallGitHub, CallFails, MarkFailed,
            MarkFinalizing, Finalize, RecordCreated, At
    <2>2. task[h].new \in {"REVIEWING", "FIX_REQUESTED"}
      BY <1>3 DEF IInv, Writes, AfterTests
    <2>3. QED
      BY <2>1, <2>2 DEF RecordTests, WriteStatus
  <1>4. QED
    BY <1>2, <1>3

\* A task that is being tested is in the hands of a handler that will move it.
THEOREM TestingAttended == Spec => []TestingIsAttended
  <1>1. Init => TestingIsAttended
    BY DEF Init, TestingIsAttended
  <1>2. IInv /\ TestingIsAttended /\ [Next]_vars => TestingIsAttended'
    <2> SUFFICES ASSUME IInv, TestingIsAttended, [Next]_vars, ~mode.dies, mode.byHand = {},
                        status' = "SELF_TESTING"
                 PROVE  \E h \in Handlers : task'[h].pc \in {"testing", "tested"}
      BY DEF TestingIsAttended, Next, vars
    <2>1. CASE UNCHANGED vars
      BY <2>1 DEF TestingIsAttended, vars
    <2>2. CASE ~UNCHANGED vars
      <3>1. PICK h \in Handlers : Step(h)
        BY <2>2 DEF Next, Step
      <3>2. task \in [Handlers -> Handler]
        BY DEF IInv, TypeOK
      <3>3. CASE status = "SELF_TESTING"
        <4>1. PICK k \in Handlers : task[k].pc \in {"testing", "tested"}
          BY <3>3 DEF TestingIsAttended
        <4>2. CASE k = h
          BY <3>1, <3>3, <4>1, <4>2, TesterStep
        <4>3. CASE k # h
          BY <3>1, <4>1, <4>3, OthersWait DEF IInv
        <4>4. QED
          BY <4>2, <4>3
      <3>4. CASE status # "SELF_TESTING"
        <4>1. EndsTurn(h)
          BY <3>1, <3>4, StatusStep DEF IInv
        <4>2. Writes(task[h]) /\ task[h].new = "SELF_TESTING"
          BY <4>1 DEF EndsTurn, IInv
        <4>3. \A r : AfterTests(r) # "SELF_TESTING" /\ AfterReview(r) # "SELF_TESTING"
          BY DEF AfterTests, AfterReview
        <4>4. task[h].pc = "start"
          BY <4>1, <4>2, <4>3 DEF EndsTurn, Writes
        <4>5. task'[h].pc = "testing"
          BY <3>2, <4>1, <4>4 DEF EndsTurn, Handler
        <4>6. QED
          BY <4>5
      <3>5. QED
        BY <3>3, <3>4
    <2>3. QED
      BY <2>1, <2>2
  <1>3. QED
    BY <1>1, <1>2, BooksKept, PTL DEF Spec

-----------------------------------------------------------------------------
(***************************************************************************)
(* If reading the task locked it.  Late are the statuses of a task one of  *)
(* whose artifacts was approved; no transition leads out of them.          *)
(***************************************************************************)
Late == {"MERGE_READY", "HUMAN_APPROVAL", "PR_CREATED", "MERGED", "CLOSED", "CANCELLED"}

LEMMA LateTransitions ==
  /\ \A s \in Status \cap Late : Transitions[s] \subseteq Late
  /\ \A s \in Status \cap Final : Transitions[s] = {}
  /\ Final \subseteq Late
  BY StatusNames DEF Late, Final, Transitions

\* What a handler in a window may do to a task that is late or final.
Fits(t) == /\ status \in Final => t.pc = "refused"
           /\ status \in Late => /\ t.pc \in {"move", "refused", "publish", "final"}
                                 /\ t.new \in {"none"} \cup Late

\* Only one handler is in a window, and only one artifact is ever approved.
LockHolds ==
  mode.locked =>
    /\ \A h, k \in Handlers : task[h].pc \in Windows /\ task[k].pc \in Windows => h = k
    /\ \A h \in Handlers : task[h].pc \in Windows => Fits(task[h])
    /\ \A a \in Artifacts : approved[a] => status \in Late
    /\ \A a, b \in Artifacts : approved[a] /\ approved[b] => a = b

\* A step of a handler with respect to the lock.
Enters(h) == /\ status' = status /\ approved' = approved
             /\ mode.locked => \A k \in Handlers : task[k].pc \notin Windows
             /\ mode.locked => Fits(task[h])'
Leaves(h) == /\ task[h].pc \in Windows /\ task'[h].pc \notin Windows
             /\ \/ status' = status
                \/ EndsTurn(h)
                \/ At(h, "local") /\ status' \in {"PATCH_READY", "FIX_REQUESTED"}
             /\ \/ approved' = approved
                \/ EndsTurn(h) /\ At(h, "approve")
Outside(h) == /\ status' = status /\ approved' = approved
              /\ task'[h].pc \notin Windows

LEMMA LoadLock ==
  ASSUME TypeOK, NEW h \in Handlers, NEW step, NEW a, NEW slot, NEW out, NEW new,
         Load(h, step, a, slot, out, new), UNCHANGED <<status, rows>>,
         status \in Final => step = "refused",
         status \in Late => step \in {"move", "refused", "publish", "final"},
         status \in Late => new \in {"none"} \cup Late
  PROVE  Enters(h)
  <1>1. task'[h].pc = step /\ task'[h].new \in {"none", new}
    BY DEF Load, TypeOK
  <1>2. QED
    BY <1>1 DEF Load, Enters, Fits, rows

LEMMA BeginLock ==
  ASSUME TypeOK, NEW h \in Handlers, Begin(h)
  PROVE  Enters(h) \/ Outside(h)
  <1>1. task \in [Handlers -> Handler] /\ status \in Status
    BY DEF TypeOK
  <1>2. CASE \E to \in Status : Ask(h, to)
    <2>1. PICK to \in Transitions[status] : Ask(h, to)
      BY <1>2 DEF Ask
    <2>2. status \notin Final /\ (status \in Late => to \in Late)
      BY <1>1, <2>1, LateTransitions
    <2>3. QED
      BY <2>1, <2>2, LoadLock DEF Ask
  <1>3. CASE \E a \in Artifacts : RequestHumanApproval(h, a)
    <2>1. status = "MERGE_READY"
      BY <1>3 DEF RequestHumanApproval
    <2>2. status \notin Final /\ "HUMAN_APPROVAL" \in Late
      BY <2>1 DEF Final, Late
    <2>3. QED
      BY <1>3, <2>2, LoadLock DEF RequestHumanApproval
  <1>4. CASE RunLocally(h)
    <2>1. status \notin Late /\ status \notin Final
      BY <1>1, <1>4, LateTransitions DEF RunLocally, Late
    <2>2. QED
      BY <1>4, <2>1, LoadLock DEF RunLocally
  <1>5. CASE EndCloudRun(h)
    <2>1. CASE status \in AcceptsPatch
      <3>1. status \notin Late /\ status \notin Final
        BY <2>1 DEF AcceptsPatch, Late, Final
      <3>2. QED
        BY <1>5, <2>1, <3>1, LoadLock DEF EndCloudRun
    <2>2. CASE status \notin AcceptsPatch
      BY <1>5, <2>2, LoadLock DEF EndCloudRun
    <2>3. QED
      BY <2>1, <2>2
  <1>6. CASE \E a \in Artifacts, i \in Slots : StartTests(h, a, i) \/ ReplayTests(h, a, i)
    <2>1. status = "PATCH_READY"
      BY <1>6 DEF StartTests, ReplayTests
    <2>2. status \notin Late /\ status \notin Final
      BY <2>1 DEF Late, Final
    <2>3. QED
      BY <1>6, <2>2, LoadLock DEF StartTests, ReplayTests
  <1>7. CASE \E a \in Artifacts, i \in 0 .. MaxTests, v \in Verdicts : Review(h, a, i, v)
    <2>1. status = "REVIEWING"
      BY <1>7 DEF Review
    <2>2. status \notin Late /\ status \notin Final
      BY <2>1 DEF Late, Final
    <2>3. QED
      BY <1>7, <2>2, LoadLock DEF Review
  <1>8. CASE \E a \in Artifacts : Approve(h, a)
    <2>1. status = "APPROVED"
      BY <1>8 DEF Approve
    <2>2. status \notin Late /\ status \notin Final
      BY <2>1 DEF Late, Final
    <2>3. QED
      BY <1>8, <2>2, LoadLock DEF Approve
  <1>9. CASE \E a \in Artifacts : Publish(h, a)
    <2>1. status = "HUMAN_APPROVAL"
      BY <1>9 DEF Publish
    <2>2. status \notin Final
      BY <2>1 DEF Final
    <2>3. QED
      BY <1>9, <2>2, LoadLock DEF Publish
  <1>10. CASE \E a \in Artifacts : Resume(h, a)
    <2>1. task'[h].pc = "finalize"
      BY <1>1, <1>10 DEF Resume, Idle
    <2>2. QED
      BY <1>10, <2>1 DEF Resume, Outside, rows, Windows
  <1>11. QED
    BY <1>2, <1>3, <1>4, <1>5, <1>6, <1>7, <1>8, <1>9, <1>10 DEF Begin

LEMMA ContinueLock ==
  ASSUME IInv, NEW h \in Handlers, Continue(h)
  PROVE  Enters(h) \/ Leaves(h) \/ Outside(h)
  <1>1. /\ task \in [Handlers -> Handler] /\ status \in Status
        /\ Idle.pc \notin Windows /\ TypeOK
    BY DEF IInv, TypeOK, Idle, Windows
  <1>2. \A v : task' = [task EXCEPT ![h].pc = v] => task'[h].pc = v
    BY <1>1 DEF Handler
  <1>3. Finish(h) => task'[h].pc \notin Windows
    BY <1>1 DEF Finish
  <1>4. CASE Move(h) \/ DropRefusedPatch(h) \/ LocalFailure(h)
             \/ (\E a \in Artifacts : LocalPatch(h, a))
    BY <1>3, <1>4 DEF Move, DropRefusedPatch, LocalFailure, LocalPatch, WriteStatus, At,
                      Leaves, EndsTurn, Windows, rows
  <1>5. CASE \E a \in Artifacts, k \in Cloud, r \in Results \cup {"none"} :
               CloudPatch(h, a, k, r) \/ KeepRefusedPatch(h, a, k, r)
    BY <1>3, <1>5 DEF CloudPatch, KeepRefusedPatch, NewArtifact, WriteStatus, At, Leaves,
                      EndsTurn, Windows
  <1>6. CASE BeginTests(h)
    BY <1>2, <1>6 DEF BeginTests, Goto, WriteStatus, At, Leaves, EndsTurn, Windows
  <1>7. CASE \E r \in Results : EndTests(h, r)
    <2>1. PICK r \in Results : EndTests(h, r)
      BY <1>7
    <2>2. CASE AfterTests(r) \in Transitions[status]
      <3>1. AfterTests(r) \notin Late /\ status \notin Late /\ status \notin Final
        <4>1. AfterTests(r) \notin Late
          BY DEF AfterTests, Late
        <4>2. QED
          BY <1>1, <2>2, <4>1, LateTransitions
      <3>2. QED
        BY <2>1, <2>2, <3>1, <1>1, LoadLock DEF EndTests
    <2>3. CASE AfterTests(r) \notin Transitions[status]
      BY <1>3, <2>1, <2>3 DEF EndTests, Outside, rows
    <2>4. QED
      BY <2>2, <2>3
  <1>8. CASE RecordTests(h) \/ RecordReplay(h)
    BY <1>3, <1>8 DEF RecordTests, RecordReplay, WriteStatus, At, Leaves, EndsTurn, Windows
  <1>9. CASE RecordReview(h)
    BY <1>3, <1>9 DEF RecordReview, WriteStatus, At, Leaves, EndsTurn, Windows
  <1>10. CASE RecordApproval(h)
    <2>1. CASE UNCHANGED <<approved, status>>
      BY <1>3, <1>10, <2>1 DEF RecordApproval, At, Leaves, Windows
    <2>2. CASE ~UNCHANGED <<approved, status>>
      <3>1. approved' = [approved EXCEPT ![task[h].art] = TRUE] /\ WriteStatus(h)
        BY <1>10, <2>2 DEF RecordApproval
      <3>2. task[h].new = "MERGE_READY"
        BY <1>10 DEF RecordApproval, At, IInv, Writes
      <3>3. QED
        BY <1>3, <1>10, <3>1, <3>2
           DEF RecordApproval, WriteStatus, At, Leaves, EndsTurn, Windows
    <2>3. QED
      BY <2>1, <2>2
  <1>11. CASE CreateRecord(h)
    BY <1>2, <1>3, <1>11 DEF CreateRecord, Goto, At, Leaves, Windows
  <1>12. CASE CallGitHub(h) \/ CallFails(h) \/ MarkFinalizing(h) \/ MarkFailed(h)
    BY <1>2, <1>3, <1>12 DEF CallGitHub, CallFails, MarkFinalizing, MarkFailed, Goto, At,
                             Outside, Windows, rows
  <1>13. CASE Finalize(h)
    <2>1. CASE status = "PR_CREATED" \/ "PR_CREATED" \in Transitions[status]
      <3>1. status \notin Final
        BY <1>1, <2>1, LateTransitions DEF Final
      <3>2. "PR_CREATED" \in Late
        BY DEF Late
      <3>3. QED
        BY <1>1, <1>13, <2>1, <3>1, <3>2, LoadLock DEF Finalize
    <2>2. CASE ~(status = "PR_CREATED" \/ "PR_CREATED" \in Transitions[status])
      BY <1>3, <1>13, <2>2 DEF Finalize, Outside, rows
    <2>3. QED
      BY <2>1, <2>2
  <1>14. CASE RecordCreated(h)
    BY <1>3, <1>14 DEF RecordCreated, WriteStatus, At, Leaves, EndsTurn, Windows
  <1>15. QED
    BY <1>4, <1>5, <1>6, <1>7, <1>8, <1>9, <1>10, <1>11, <1>12, <1>13, <1>14 DEF Continue

LEMMA DieLock ==
  ASSUME TypeOK, NEW h \in Handlers, Die(h)
  PROVE  Outside(h)
  <1>1. task'[h] = Idle
    BY DEF Die, Finish, TypeOK
  <1>2. QED
    BY <1>1 DEF Die, Outside, Idle, Windows, rows

\* One handler at a time, and nothing leads back from an approval.
LEMMA LockStep ==
  ASSUME IInv, LockHolds, UNCHANGED mode, NEW h \in Handlers, Step(h), mode.locked
  PROVE  /\ LockHolds'
         /\ status \in Final => status' = status
  <1>1. \A k \in Handlers \ {h} : task'[k] = task[k]
    BY OthersWait DEF IInv
  <1>2. Enters(h) \/ Leaves(h) \/ Outside(h)
    BY BeginLock, ContinueLock, DieLock DEF Step, IInv
  <1>3. CASE Enters(h)
    <2>1. \A k \in Handlers \ {h} : task'[k].pc \notin Windows
      BY <1>1, <1>3 DEF Enters
    <2>2. QED
      BY <1>3, <2>1 DEF Enters, LockHolds
  <1>4. CASE Outside(h)
    <2>1. \A k \in Handlers : task'[k].pc \in Windows => k # h /\ task'[k] = task[k]
      BY <1>1, <1>4 DEF Outside
    <2>2. QED
      BY <1>4, <2>1 DEF Outside, LockHolds, Fits
  <1>5. CASE Leaves(h)
    <2>1. task[h].pc \in Windows /\ Fits(task[h])
      BY <1>5 DEF Leaves, LockHolds
    <2>2. \A k \in Handlers : task'[k].pc \notin Windows
      BY <1>1, <1>5, <2>1 DEF Leaves, LockHolds
    <2>3. status \in Late => status' \in Late
      <3>1. SUFFICES ASSUME status \in Late, status' # status PROVE status' \in Late
        OBVIOUS
      <3>2. task[h].pc # "local" /\ task[h].new \in {"none"} \cup Late
        BY <2>1, <3>1 DEF Fits
      <3>3. status' = task[h].new
        BY <1>5, <3>1, <3>2 DEF Leaves, EndsTurn, At
      <3>4. status' # "none"
        BY NextKept, StatusNames DEF Step, Next, Kept, IInv, TypeOK
      <3>5. QED
        BY <3>2, <3>3, <3>4
    <2>4. status \in Final => status' = status
      BY <1>5, <2>1 DEF Leaves, Fits, EndsTurn, At
    <2>5. CASE approved' = approved
      BY <2>2, <2>3, <2>4, <2>5 DEF LockHolds
    <2>6. CASE approved' # approved
      <3>1. /\ EndsTurn(h) /\ task[h].pc = "approve"
            /\ approved' = [approved EXCEPT ![task[h].art] = TRUE]
        BY <1>5, <2>6 DEF Leaves, EndsTurn, At
      <3>2. status' = "MERGE_READY"
        BY <3>1 DEF EndsTurn, IInv, Writes
      <3>3. status \notin Late
        BY <2>1, <3>1 DEF Fits
      <3>4. \A a \in Artifacts : ~approved[a]
        BY <3>3 DEF LockHolds
      <3>5. approved \in [Artifacts -> BOOLEAN]
        BY DEF IInv, TypeOK
      <3>6. \A a \in Artifacts : approved'[a] => a = task[h].art
        BY <3>1, <3>4, <3>5
      <3>7. "MERGE_READY" \in Late
        BY DEF Late
      <3>8. QED
        BY <2>2, <2>4, <3>2, <3>6, <3>7 DEF LockHolds
    <2>7. QED
      BY <2>5, <2>6
  <1>6. QED
    BY <1>2, <1>3, <1>4, <1>5

LEMMA LockInvariant == Spec => []LockHolds
  <1>1. Init => LockHolds
    BY DEF Init, LockHolds, Idle, Windows
  <1>2. IInv /\ LockHolds /\ [Next]_vars => LockHolds'
    <2> SUFFICES ASSUME IInv, LockHolds, [Next]_vars PROVE LockHolds'
      OBVIOUS
    <2>1. CASE UNCHANGED vars
      BY <2>1 DEF vars, LockHolds, Fits
    <2>2. ASSUME NEW h \in Handlers, Step(h), UNCHANGED mode PROVE LockHolds'
      <3>1. CASE mode.locked
        BY <2>2, <3>1, LockStep
      <3>2. CASE ~mode.locked
        BY <2>2, <3>2 DEF LockHolds
      <3>3. QED
        BY <3>1, <3>2
    <2>3. QED
      BY <2>1, <2>2 DEF Next, Step
  <1>3. QED
    BY <1>1, <1>2, BooksKept, PTL DEF Spec

\* If reading the task locked it, a task would be published once.
THEOREM PublishedOncePerTask == Spec => []OnePublicationPerTask
  <1>1. IInv /\ LockHolds => OnePublicationPerTask
    <2> SUFFICES ASSUME IInv, LockHolds, mode.locked,
                        NEW a \in Artifacts, NEW b \in Artifacts, github[a] > 0, github[b] > 0
                 PROVE  a = b
      BY DEF OnePublicationPerTask
    <2>1. approved[a] /\ approved[b]
      BY DEF IInv, Books, Artifact
    <2>2. QED
      BY <2>1 DEF LockHolds
  <1>2. QED
    BY <1>1, BooksKept, LockInvariant, PTL

\* If reading the task locked it, a final status would stay.
THEOREM FinalStays == Spec => FinalIsFinal
  <1>1. IInv /\ LockHolds /\ [Next]_vars
          => [mode.locked /\ status \in Final => status' = status]_vars
    <2> SUFFICES ASSUME IInv, LockHolds, Next, mode.locked, status \in Final
                 PROVE  status' = status
      OBVIOUS
    <2>1. PICK h \in Handlers : Step(h)
      BY DEF Next, Step
    <2>2. QED
      BY <2>1, LockStep DEF Next
  <1>2. QED
    BY <1>1, BooksKept, LockInvariant, PTL DEF Spec, FinalIsFinal
=============================================================================
