------------------------- MODULE RemoteWorkerProofs -------------------------
(***************************************************************************)
(* What holds of a run and its worker processes for any number of          *)
(* processes, operators, attempts and deliveries.  Each of the four        *)
(* invariants is strengthened by what the processes and handlers in flight *)
(* rely on: a handler that acknowledges has made the run terminal, an      *)
(* upload belongs to the one process that holds its lease, a patch uses up *)
(* the token that every later claim would need.                            *)
(*                                                                         *)
(* The steps of a process between its claim and its uploads are alike, and *)
(* so are the steps that only change the row: the lemmas of the first part *)
(* say once what they do.                                                  *)
(***************************************************************************)
EXTENDS RemoteWorker, TLAPS

Early   == {"payload", "beat1", "checkout", "beat2", "work", "beat3"}
Leasing == Early \cup {"upload", "complete"}
Patches == {"patch_ready", "test_failed"}

\* The steps of a process that holds a lease and has nothing to upload yet.
Prepares(p) ==
  \/ Payload(p) \/ FirstHeartbeat(p) \/ Checkout(p) \/ HeartbeatAfterCheckout(p)
  \/ HeartbeatInCommands(p) \/ RunCommands(p) \/ LastHeartbeat(p)

World == <<mode, submit, stored, queue, container, api, op, bound>>

\* What such a step does to the row, and what it makes of the process' record.
RunKept ==
  /\ run' \in Row
  /\ run'.status = run.status /\ run'.cancel = run.cancel /\ run'.attempts = run.attempts
  /\ run'.lease = run.lease /\ run'.token = run.token /\ run'.receipt = run.receipt
  /\ run'.job = run.job /\ run'.ext = run.ext /\ run'.patch = run.patch

Prepared(v, w) ==
  /\ w.receipt = v.receipt /\ w.lease = v.lease /\ w.sent = v.sent
  /\ v.pc \in Early /\ w.pc \in Early \cup {"upload"} /\ w.pc # "payload"
  /\ w.told => v.told \/ (w.exec = "cancelled" /\ w.pc = "upload")

-----------------------------------------------------------------------------
(***************************************************************************)
(* Types.                                                                  *)
(***************************************************************************)
LEMMA Numbers == /\ Attempts \subseteq Nat /\ Deliveries \subseteq Nat
                 /\ 0 \in Attempts /\ 0 \in Deliveries
                 /\ \A n \in Attempts : n < MaxAttempts => n + 1 \in Attempts
                 /\ \A n \in Deliveries : n < MaxDeliveries => n + 1 \in Deliveries
  BY BoundsAssumption DEF Attempts, Deliveries

LEMMA Blanks == Off \in Process /\ NoHandler \in Handler /\ NoRequest \in Request
  BY Numbers DEF Off, Process, NoHandler, Handler, NoRequest, Request, Results, AllUploaded

LEMMA InitTyped == Init => TypeOK
  <1> SUFFICES ASSUME Init PROVE TypeOK
    OBVIOUS
  <1>1. run \in Row
    BY Numbers DEF Init, Row
  <1>2. queue \in [state : {"none", "visible", "taken", "deleted"}, issued : Deliveries]
    BY Numbers DEF Init
  <1>3. stored \in [Attempts -> Nat]
    BY DEF Init
  <1> QED
    BY <1>1, <1>2, <1>3, Blanks DEF Init, TypeOK

\* A record takes the place of another.
LEMMA ProcSet ==
  ASSUME TypeOK, NEW p \in Procs, NEW w \in Process, proc' = [proc EXCEPT ![p] = w]
  PROVE  /\ proc' \in [Procs -> Process] /\ proc'[p] = w
         /\ \A q \in Procs : q # p => proc'[q] = proc[q]
  BY DEF TypeOK

LEMMA Prepare ==
  ASSUME TypeOK, NEW p \in Procs, Prepares(p)
  PROVE  /\ \E w \in Process : proc' = [proc EXCEPT ![p] = w] /\ Prepared(proc[p], w)
         /\ RunKept /\ UNCHANGED World
  <1>1. PICK v \in Process : v = proc[p]
    BY DEF TypeOK
  <1>2. run \in Row
    BY DEF TypeOK
  <1>3. RunKept /\ UNCHANGED World
    BY <1>2 DEF RunKept, Prepares, World, Row, Payload, FirstHeartbeat, Checkout, Beaten,
       HeartbeatAfterCheckout, HeartbeatInCommands, RunCommands, LastHeartbeat
  <1>4. v \in [ pc : {"off", "claim", "payload", "beat1", "checkout", "beat2", "work",
                      "beat3", "upload", "complete", "wait"},
                receipt : Deliveries, lease : Attempts, told : BOOLEAN, exec : Results,
                sent : 0 .. AllUploaded ]
    BY DEF Process
  <1> DEFINE Moved(s)   == [v EXCEPT !.pc = s]
             Says(s, e) == [v EXCEPT !.pc = s, !.exec = e]
             Heard      == [v EXCEPT !.pc = "upload", !.exec = "cancelled", !.told = TRUE]
  <1>5. ASSUME v.pc \in Early, NEW s \in (Early \cup {"upload"}) \ {"payload"}
        PROVE  Moved(s) \in Process /\ Prepared(v, Moved(s))
    BY <1>4, <1>5 DEF Process, Prepared, Early
  <1>6. ASSUME v.pc \in Early, NEW s \in {"beat3", "upload"},
               NEW e \in {"patch_ready", "test_failed", "failed"}
        PROVE  Says(s, e) \in Process /\ Prepared(v, Says(s, e))
    BY <1>4, <1>6 DEF Process, Prepared, Early, Results
  <1>7. ASSUME v.pc \in Early
        PROVE  Heard \in Process /\ Prepared(v, Heard)
    BY <1>4, <1>7 DEF Process, Prepared, Early, Results
  <1>8. v.pc \in Early
    BY <1>1 DEF Prepares, Early, Payload, FirstHeartbeat, Checkout,
       HeartbeatAfterCheckout, HeartbeatInCommands, RunCommands, LastHeartbeat
  <1>9. \/ \E s \in (Early \cup {"upload"}) \ {"payload"} : proc' = [proc EXCEPT ![p] = Moved(s)]
        \/ \E s \in {"beat3", "upload"}, e \in {"patch_ready", "test_failed", "failed"} :
             proc' = [proc EXCEPT ![p] = Says(s, e)]
        \/ proc' = [proc EXCEPT ![p] = Heard]
        \/ proc' = proc /\ v.pc = "work"
    <2>1. CASE Payload(p) \/ FirstHeartbeat(p) \/ Checkout(p)
      BY <1>1, <2>1 DEF Early, Payload, FirstHeartbeat, Checkout, Goto, Report, HearCancel, Beaten
    <2>2. CASE HeartbeatAfterCheckout(p) \/ HeartbeatInCommands(p)
      BY <1>1, <2>2 DEF Early, HeartbeatAfterCheckout, HeartbeatInCommands, Goto, Report,
                        HearCancel, Beaten
    <2>3. CASE RunCommands(p) \/ LastHeartbeat(p)
      BY <1>1, <2>3 DEF Early, RunCommands, LastHeartbeat, Goto, Report, HearCancel, Beaten
    <2> QED
      BY <1>1, <2>1, <2>2, <2>3 DEF Prepares
  <1>10. CASE proc' = proc /\ v.pc = "work"
    <2>1. proc' = [proc EXCEPT ![p] = v] /\ Prepared(v, v)
      BY <1>1, <1>8, <1>10 DEF TypeOK, Prepared, Early
    <2> QED
      BY <2>1, <1>1, <1>3
  <1> QED
    BY <1>1, <1>3, <1>5, <1>6, <1>7, <1>8, <1>9, <1>10

\* Steps on the row alone: the clock, the sweep, the user, and the request that submits.
RowOnly ==
  \/ RecordSubmission \/ RefuseSubmission \/ LeaseExpires \/ TokenExpires \/ Sweep \/ Cancel

\* They end a run or send it back to the queue, and never take an end back.
RowEffect ==
  /\ run' \in Row
  /\ run'.attempts = run.attempts /\ run'.receipt = run.receipt /\ run'.patch = run.patch
  /\ run.status \in Terminal => run'.status \in Terminal
  /\ run'.status = "running" => run.status = "running" /\ run'.lease = run.lease
  /\ run'.token = "live" => run.token = "live"
  /\ run'.ext = run.ext \/ run'.ext \in {"submitted", "failed"}
  /\ run'.job = run.job \/ submit = "sent"

LEMMA RowStep ==
  ASSUME TypeOK, RowOnly
  PROVE  /\ RowEffect
         /\ UNCHANGED <<mode, stored, queue, container, proc, api, op, bound>>
         /\ \/ submit' = submit
            \/ submit' = "done" /\ submit = "sent"
            \/ submit' = "done" /\ submit = "refused" /\ run'.status \in Terminal
  <1>0. run \in Row
    BY DEF TypeOK
  <1>1. CASE RecordSubmission
    BY <1>0, <1>1 DEF RecordSubmission, RowEffect, Row, Terminal
  <1>2. CASE RefuseSubmission
    BY <1>0, <1>2 DEF RefuseSubmission, RowEffect, Row, Terminal
  <1>3. CASE LeaseExpires
    BY <1>0, <1>3 DEF LeaseExpires, RowEffect, Row, Terminal
  <1>4. CASE TokenExpires
    BY <1>0, <1>4 DEF TokenExpires, RowEffect, Row, Terminal
  <1>5. CASE Sweep
    BY <1>0, <1>5, Numbers DEF Sweep, RowEffect, Row, Terminal
  <1>6. CASE Cancel
    BY <1>0, <1>6 DEF Cancel, RowEffect, Row, Terminal
  <1> QED
    BY <1>1, <1>2, <1>3, <1>4, <1>5, <1>6 DEF RowOnly

\* A claim that is granted.
ClaimEffect(p) ==
  /\ run' \in Row
  /\ run.status = "queued" /\ run'.status = "running" /\ run.token = "live"
  /\ run'.token = "live" /\ run'.patch = run.patch /\ run'.job = run.job
  /\ run'.attempts = run.attempts + 1 /\ run'.lease = run.attempts + 1
  /\ run.attempts + 1 \in Attempts
  /\ run'.receipt = run.receipt \/ (mode = "queue" /\ run'.receipt = proc[p].receipt)
  /\ run'.ext \in {run.ext, "claimed"}
  /\ bound' = (bound \/ run'.receipt # 0)

LEMMA ClaimStep ==
  ASSUME TypeOK, NEW p \in Procs, Claim(p)
  PROVE  /\ proc[p].pc = "claim"
         /\ UNCHANGED <<mode, submit, stored, queue, container, api, op>>
         /\ \/ /\ ClaimEffect(p)
               /\ \E w \in Process : /\ proc' = [proc EXCEPT ![p] = w]
                                     /\ w.pc = "payload" /\ w.lease = run.attempts + 1
                                     /\ w.receipt = proc[p].receipt
                                     /\ w.sent = proc[p].sent /\ w.told = proc[p].told
                                     /\ w.exec = proc[p].exec
            \/ proc' = [proc EXCEPT ![p] = Off] /\ UNCHANGED <<run, bound>>
  <1>0. run \in Row
    BY DEF TypeOK
  <1>1. PICK v \in Process : v = proc[p]
    BY DEF TypeOK
  <1>2. CASE Claimable
    <2>1. run.attempts + 1 \in Attempts
      BY <1>0, <1>2, Numbers DEF Claimable, Row
    <2>2. ClaimReceipt(p) \in Deliveries
      BY <1>0, <1>1 DEF ClaimReceipt, Row, Process
    <2>3. /\ ClaimReceipt(p) = run.receipt \/ (mode = "queue" /\ ClaimReceipt(p) = proc[p].receipt)
      BY DEF ClaimReceipt
    <2>4. PICK x \in {run.ext, "claimed"} :
            run' = [run EXCEPT !.status = "running", !.attempts = run.attempts + 1,
                               !.lease = run.attempts + 1, !.live = TRUE,
                               !.receipt = ClaimReceipt(p), !.ext = x]
      BY <1>0, <1>2 DEF Claim, Row
    <2>5. /\ bound' = (bound \/ ClaimReceipt(p) # 0)
          /\ run.status = "queued" /\ run.token = "live"
      BY <1>2 DEF Claim, Claimable
    <2>6. ClaimEffect(p)
      BY <1>0, <2>1, <2>2, <2>3, <2>4, <2>5 DEF ClaimEffect, Row
    <2> DEFINE w == [v EXCEPT !.pc = "payload", !.lease = run.attempts + 1]
    <2>7. /\ w \in Process /\ w.pc = "payload" /\ w.lease = run.attempts + 1
          /\ w.receipt = v.receipt /\ w.sent = v.sent /\ w.told = v.told /\ w.exec = v.exec
      BY <2>1 DEF Process
    <2>8. proc' = [proc EXCEPT ![p] = w]
      BY <1>1, <1>2 DEF Claim
    <2> QED
      BY <1>1, <2>6, <2>7, <2>8 DEF Claim
  <1>3. CASE ~Claimable
    BY <1>3 DEF Claim
  <1> QED
    BY <1>2, <1>3

\* An upload leaves a process with one more artifact, or with nothing to say.
LEMMA UploadStep ==
  ASSUME TypeOK, NEW p \in Procs, Upload(p)
  PROVE  /\ proc[p].pc = "upload"
         /\ UNCHANGED <<mode, submit, run, queue, container, api, op, bound>>
         /\ \E w \in Process :
              /\ proc' = [proc EXCEPT ![p] = w]
              /\ w.lease = proc[p].lease /\ w.receipt = proc[p].receipt /\ w.told = proc[p].told
              /\ \/ /\ w.exec = proc[p].exec /\ w.sent = proc[p].sent + 1
                    /\ w.pc = IF proc[p].sent + 1 = AllUploaded THEN "complete" ELSE "upload"
                    /\ stored' = [stored EXCEPT ![proc[p].lease] = @ + 1]
                    /\ LeaseIsCurrent(p)
                 \/ /\ w.exec = "failed" /\ w.sent = 0 /\ w.pc = "complete"
                    /\ \/ stored' = stored
                       \/ /\ stored' = [stored EXCEPT ![proc[p].lease] = @ + 1]
                          /\ LeaseIsCurrent(p)
  <1>1. PICK v \in Process : v = proc[p]
    BY DEF TypeOK
  <1>0. v \in [ pc : {"off", "claim", "payload", "beat1", "checkout", "beat2", "work",
                      "beat3", "upload", "complete", "wait"},
                receipt : Deliveries, lease : Attempts, told : BOOLEAN, exec : Results,
                sent : 0 .. AllUploaded ]
    BY DEF Process
  <1> DEFINE n == v.sent + 1
             more == [v EXCEPT !.sent = n, !.pc = IF n = AllUploaded THEN "complete" ELSE v.pc]
             none == [v EXCEPT !.pc = "complete", !.exec = "failed", !.sent = 0]
  <1>a. 0 \in 0 .. AllUploaded /\ "failed" \in Results
    BY DEF AllUploaded, Results
  <1>2. none \in Process
    BY <1>0, <1>a DEF Process
  <1>3. UploadFailed(p) => proc' = [proc EXCEPT ![p] = none]
    BY <1>1 DEF UploadFailed
  <1>4. CASE proc' = [proc EXCEPT ![p] = none]
    <2>1. none.lease = v.lease /\ none.receipt = v.receipt /\ none.told = v.told
          /\ none.exec = "failed" /\ none.sent = 0 /\ none.pc = "complete"
      BY DEF Process
    <2> QED
      BY <1>1, <1>2, <1>4, <2>1 DEF Upload
  <1>5. CASE proc' # [proc EXCEPT ![p] = none]
    <2>1. /\ LeaseIsCurrent(p) /\ v.pc = "upload"
          /\ stored' = [stored EXCEPT ![proc[p].lease] = @ + 1]
          /\ proc' = [proc EXCEPT ![p] = more]
      BY <1>1, <1>3, <1>5 DEF Upload
    <2>2. n \in 0 .. AllUploaded
      BY <1>0, <1>1 DEF Upload, AllUploaded
    <2>3. /\ more \in Process /\ more.lease = v.lease /\ more.receipt = v.receipt
          /\ more.told = v.told /\ more.exec = v.exec /\ more.sent = n
          /\ more.pc = IF n = AllUploaded THEN "complete" ELSE "upload"
      BY <1>0, <2>1, <2>2 DEF Process
    <2> QED
      BY <1>1, <2>1, <2>3 DEF Upload
  <1> QED
    BY <1>4, <1>5

\* The row after the acknowledgement, by the completion or by an operator.
AckEffect(ok) ==
  /\ run' \in Row
  /\ run'.status = run.status /\ run'.attempts = run.attempts /\ run'.lease = run.lease
  /\ run'.token = run.token /\ run'.patch = run.patch /\ run'.job = run.job
  /\ run'.receipt = IF ok THEN 0 ELSE run.receipt
  /\ run'.ext \in {"deleted", "delete_failed"}

LEMMA AckRow == ASSUME TypeOK, NEW ok, Acknowledged(ok) PROVE AckEffect(ok)
  <1>1. run \in Row
    BY DEF TypeOK
  <1>2. CASE ok
    BY <1>1, <1>2, Numbers DEF Acknowledged, AckEffect, Row
  <1>3. CASE ~ok
    BY <1>1, <1>3 DEF Acknowledged, AckEffect, Row
  <1> QED
    BY <1>2, <1>3

LEMMA CompleteStep ==
  ASSUME TypeOK, NEW p \in Procs, Complete(p)
  PROVE  /\ run' \in Row /\ run'.token = "used"
         /\ run'.status = run.status /\ run'.attempts = run.attempts /\ run'.lease = run.lease
         /\ run'.receipt = run.receipt /\ run'.patch = run.patch /\ run'.job = run.job
         /\ run'.ext = run.ext
         /\ \E w \in Process : /\ proc' = [proc EXCEPT ![p] = w] /\ w.pc = "wait"
                               /\ w.lease = proc[p].lease /\ w.told = proc[p].told
                               /\ w.exec = proc[p].exec
         /\ \E a \in Handler : /\ api' = [api EXCEPT ![p] = a] /\ a.pc = "finalize"
                               /\ a.lease = proc[p].lease /\ a.exec = proc[p].exec
         /\ proc[p].pc = "complete" /\ LeaseIsCurrent(p)
         /\ UNCHANGED <<mode, submit, stored, queue, container, op, bound>>
  <1>1. PICK v \in Process : v = proc[p]
    BY DEF TypeOK
  <1>2. run \in Row
    BY DEF TypeOK
  <1> DEFINE w == [v EXCEPT !.pc = "wait"]
             a == [pc |-> "finalize", lease |-> v.lease, exec |-> v.exec, ok |-> FALSE]
  <1>3. /\ w \in Process /\ w.pc = "wait" /\ w.lease = v.lease /\ w.told = v.told
        /\ w.exec = v.exec
    BY DEF Process
  <1>4. a \in Handler
    BY DEF Process, Handler
  <1>5. proc' = [proc EXCEPT ![p] = w] /\ api' = [api EXCEPT ![p] = a]
    BY <1>1 DEF Complete, Goto
  <1>6. /\ run' \in Row /\ run'.token = "used"
        /\ run'.status = run.status /\ run'.attempts = run.attempts /\ run'.lease = run.lease
        /\ run'.receipt = run.receipt /\ run'.patch = run.patch /\ run'.job = run.job
        /\ run'.ext = run.ext
    BY <1>2 DEF Complete, Row
  <1>7. a.pc = "finalize" /\ a.lease = proc[p].lease /\ a.exec = proc[p].exec
    BY <1>1
  <1>8. /\ proc[p].pc = "complete" /\ LeaseIsCurrent(p)
        /\ UNCHANGED <<mode, submit, stored, queue, container, op, bound>>
    BY DEF Complete
  <1> HIDE DEF w, a
  <1> QED
    BY <1>1, <1>3, <1>4, <1>5, <1>6, <1>7, <1>8

\* The finalization ends the run, or finds that another did.
LEMMA FinalizeStep ==
  ASSUME TypeOK, NEW p \in Procs, Finalize(p)
  PROVE  /\ api[p].pc = "finalize"
         /\ UNCHANGED <<mode, submit, stored, queue, container, proc, op, bound>>
         /\ \/ api' = [api EXCEPT ![p] = NoHandler] /\ run' = run
            \/ /\ run' \in Row /\ run'.status \in Terminal
               /\ run'.attempts = run.attempts /\ run'.token = run.token
               /\ run'.receipt = run.receipt /\ run'.job = run.job /\ run'.ext = run.ext
               /\ \/ run'.patch = run.patch
                  \/ run'.patch = api[p].lease /\ api[p].exec \in Patches
               /\ \E a \in Handler : api' = [api EXCEPT ![p] = a] /\ a.pc = "ack"
  <1>1. run \in Row
    BY DEF TypeOK
  <1>2. PICK a \in Handler : a = api[p]
    BY DEF TypeOK
  <1> DEFINE b == [a EXCEPT !.pc = "ack"]
  <1>3. b \in Handler /\ b.pc = "ack"
    BY DEF Handler
  <1>4. a.lease \in Attempts
    BY DEF Handler
  <1>5. CASE run.cancel
    <2>1. run' = [run EXCEPT !.status = "cancelled"] /\ api' = [api EXCEPT ![p] = b]
      BY <1>2, <1>5 DEF Finalize
    <2>2. /\ run' \in Row /\ run'.status \in Terminal
          /\ run'.attempts = run.attempts /\ run'.token = run.token
          /\ run'.receipt = run.receipt /\ run'.job = run.job /\ run'.ext = run.ext
          /\ run'.patch = run.patch
      BY <1>1, <2>1 DEF Row, Terminal
    <2> QED
      BY <1>3, <2>1, <2>2 DEF Finalize
  <1>6. CASE ~run.cancel /\ run.status = "running"
    <2>1. PICK st \in {"patch_ready", "failed"} :
            run' = [run EXCEPT !.status = st,
                               !.patch = IF a.exec \in Patches THEN a.lease ELSE @]
      BY <1>2, <1>6 DEF Finalize, Patches, Outcome
    <2>2. /\ run' \in Row /\ run'.status \in Terminal
          /\ run'.attempts = run.attempts /\ run'.token = run.token
          /\ run'.receipt = run.receipt /\ run'.job = run.job /\ run'.ext = run.ext
          /\ run'.patch = IF a.exec \in Patches THEN a.lease ELSE run.patch
      BY <1>1, <1>4, <2>1 DEF Row, Terminal
    <2>3. api' = [api EXCEPT ![p] = b]
      BY <1>2, <1>6 DEF Finalize
    <2> QED
      BY <1>2, <1>3, <2>2, <2>3 DEF Finalize
  <1>7. CASE ~run.cancel /\ run.status # "running"
    BY <1>7 DEF Finalize
  <1> QED
    BY <1>5, <1>6, <1>7

\* A process that starts has nothing yet but the receipt of its message.
LEMMA StartStep ==
  ASSUME TypeOK, NEW p \in Procs, Receive(p) \/ Boot(p)
  PROVE  /\ UNCHANGED <<mode, submit, run, stored, api, op, bound>>
         /\ proc[p] = Off
         /\ \E w \in Process :
              /\ proc' = [proc EXCEPT ![p] = w]
              /\ w.pc = "claim" /\ w.lease = 0 /\ w.sent = 0 /\ ~w.told
              /\ Receive(p) => w.receipt # 0
  <1> DEFINE w(n) == [Off EXCEPT !.pc = "claim", !.receipt = n]
  <1>1. ASSUME NEW n \in Deliveries
        PROVE  /\ w(n) \in Process /\ w(n).pc = "claim" /\ w(n).lease = 0 /\ w(n).sent = 0
               /\ ~w(n).told /\ w(n).receipt = n
    BY Blanks DEF Off, Process
  <1>2. CASE Receive(p)
    <2>1. PICK n \in Deliveries : n = queue.issued
      BY DEF TypeOK
    <2>2. n < MaxDeliveries
      BY <1>2, <2>1 DEF Receive
    <2>3. n + 1 \in Deliveries /\ n + 1 # 0
      BY <2>2, Numbers
    <2>4. proc' = [proc EXCEPT ![p] = w(n + 1)]
      BY <1>2, <2>1 DEF Receive
    <2> QED
      BY <1>1, <1>2, <2>3, <2>4 DEF Receive
  <1>3. CASE Boot(p)
    <2> DEFINE b == [Off EXCEPT !.pc = "claim"]
    <2>1. proc' = [proc EXCEPT ![p] = b]
      BY <1>3 DEF Boot
    <2>2. b \in Process /\ b.pc = "claim" /\ b.lease = 0 /\ b.sent = 0 /\ ~b.told
      BY Blanks DEF Off, Process
    <2>3. ~Receive(p)
      BY <1>3 DEF Boot, Receive
    <2> QED
      BY <1>3, <2>1, <2>2, <2>3 DEF Boot
  <1> QED
    BY <1>2, <1>3

LEMMA StepTyped == TypeOK /\ [Next]_vars => TypeOK'
  <1> SUFFICES ASSUME TypeOK, [Next]_vars PROVE TypeOK'
    OBVIOUS
  <1>t. ASSUME NEW p \in Procs, NEW w \in Process, proc' = [proc EXCEPT ![p] = w]
        PROVE  proc' \in [Procs -> Process]
    BY <1>t DEF TypeOK
  <1>h. ASSUME NEW p \in Procs, NEW a \in Handler, api' = [api EXCEPT ![p] = a]
        PROVE  api' \in [Procs -> Handler]
    BY <1>h DEF TypeOK
  <1>r. ASSUME NEW o \in Operators, NEW a \in Request, op' = [op EXCEPT ![o] = a]
        PROVE  op' \in [Operators -> Request]
    BY <1>r DEF TypeOK
  <1>k. ASSUME NEW c \in BOOLEAN, Killed(c) PROVE proc' \in [Procs -> Process]
    BY <1>k, Blanks DEF TypeOK, Killed
  <1>q. ASSUME NEW x \in {"none", "visible", "taken", "deleted"},
               queue' = [queue EXCEPT !.state = x]
        PROVE  queue' \in [state : {"none", "visible", "taken", "deleted"}, issued : Deliveries]
    BY <1>q DEF TypeOK
  <1>d. ASSUME NEW r, NEW ok, Delete(r, ok)
        PROVE  queue' \in [state : {"none", "visible", "taken", "deleted"}, issued : Deliveries]
    BY <1>d, <1>q DEF TypeOK, Delete
  <1>a. ASSUME NEW p \in Procs, NEW s \in {"ack", "record"}, NEW b \in BOOLEAN
        PROVE  [api[p] EXCEPT !.pc = s, !.ok = b] \in Handler
    BY DEF TypeOK, Handler
  <1>b. ASSUME NEW o \in Operators, NEW s \in {"retried", "cleanup", "cleaned"}, NEW b \in BOOLEAN
        PROVE  /\ [op[o] EXCEPT !.pc = s, !.ok = b] \in Request
               /\ [op[o] EXCEPT !.pc = s] \in Request
    BY DEF TypeOK, Request
  <1>1. CASE SendMessage
    BY <1>1, <1>q DEF SendMessage, TypeOK
  <1>2. CASE CreateContainer
    BY <1>2 DEF CreateContainer, TypeOK
  <1>3. CASE SeedObjects
    <2>1. proc' \in [Procs -> Process]
      BY <1>3, <1>k DEF SeedObjects, TypeOK
    <2> QED
      BY <1>3, <2>1 DEF SeedObjects, TypeOK
  <1>4. CASE RowOnly
    BY <1>4, RowStep DEF RowEffect, TypeOK
  <1>5. CASE Reappear
    BY <1>5, <1>q DEF Reappear, TypeOK
  <1>6. ASSUME NEW p \in Procs, Prepares(p) PROVE TypeOK'
    BY <1>6, <1>t, Prepare DEF RunKept, World, TypeOK
  <1>7. ASSUME NEW p \in Procs, Claim(p) PROVE TypeOK'
    <2>1. proc' \in [Procs -> Process]
      BY <1>7, <1>t, ClaimStep, Blanks
    <2>2. run' \in Row /\ bound' \in BOOLEAN
      BY <1>7, ClaimStep DEF ClaimEffect, TypeOK
    <2> QED
      BY <1>7, <2>1, <2>2, ClaimStep DEF TypeOK
  <1>8. ASSUME NEW p \in Procs, Upload(p) PROVE TypeOK'
    <2>1. proc' \in [Procs -> Process]
      BY <1>8, <1>t, UploadStep
    <2>2. proc[p].lease \in Attempts
      BY DEF TypeOK, Process
    <2>3. stored' \in [Attempts -> Nat]
      BY <1>8, <2>2, UploadStep DEF TypeOK
    <2> QED
      BY <1>8, <2>1, <2>3, UploadStep DEF TypeOK
  <1>9. ASSUME NEW p \in Procs, Receive(p) PROVE TypeOK'
    <2>1. PICK n \in Deliveries : n = queue.issued
      BY DEF TypeOK
    <2>2. n + 1 \in Deliveries
      BY <1>9, <2>1, Numbers DEF Receive
    <2>3. queue' \in [state : {"none", "visible", "taken", "deleted"}, issued : Deliveries]
      BY <1>9, <2>1, <2>2 DEF Receive
    <2>4. proc' \in [Procs -> Process]
      BY <1>9, <1>t, StartStep
    <2> QED
      BY <1>9, <2>3, <2>4 DEF Receive, TypeOK
  <1>10. ASSUME NEW p \in Procs, Boot(p) PROVE TypeOK'
    <2>1. proc' \in [Procs -> Process]
      BY <1>10, <1>t, StartStep
    <2> QED
      BY <1>10, <2>1 DEF Boot, TypeOK
  <1>11. ASSUME NEW p \in Procs, Dies(p) PROVE TypeOK'
    BY <1>11, <1>t, Blanks DEF Dies, TypeOK
  <1>12. ASSUME NEW p \in Procs, Complete(p) PROVE TypeOK'
    <2>1. proc' \in [Procs -> Process] /\ api' \in [Procs -> Handler]
      BY <1>12, <1>t, <1>h, CompleteStep
    <2> QED
      BY <1>12, <2>1, CompleteStep DEF TypeOK
  <1>13. ASSUME NEW p \in Procs, Finalize(p) PROVE TypeOK'
    <2>1. api' \in [Procs -> Handler] /\ run' \in Row
      BY <1>13, <1>h, FinalizeStep, Blanks DEF TypeOK
    <2> QED
      BY <1>13, <2>1, FinalizeStep DEF TypeOK
  <1>14. ASSUME NEW p \in Procs, Acknowledge(p) PROVE TypeOK'
    <2>1. CASE run.receipt = 0
      BY <1>14, <2>1, <1>h, Blanks DEF Acknowledge, TypeOK
    <2>2. CASE run.receipt # 0
      <3>1. PICK ok \in BOOLEAN : /\ Delete(run.receipt, ok)
                                  /\ api' = [api EXCEPT ![p].pc = "record", ![p].ok = ok]
        BY <1>14, <2>2 DEF Acknowledge
      <3>2. api' = [api EXCEPT ![p] = [api[p] EXCEPT !.pc = "record", !.ok = ok]]
        BY <3>1 DEF TypeOK
      <3> QED
        BY <1>14, <3>1, <3>2, <1>a, <1>d, <1>h DEF Acknowledge, TypeOK
    <2> QED
      BY <2>1, <2>2
  <1>15. ASSUME NEW p \in Procs, RecordAck(p) PROVE TypeOK'
    <2>1. run' \in Row
      BY <1>15, AckRow DEF RecordAck, AckEffect
    <2> QED
      BY <1>15, <2>1, <1>h, Blanks DEF RecordAck, TypeOK
  <1>16. ASSUME NEW p \in Procs, ApiDies(p) PROVE TypeOK'
    BY <1>16, <1>h, Blanks DEF ApiDies, TypeOK
  <1>17. ASSUME NEW o \in Operators, RetryReceipt(o) PROVE TypeOK'
    <2>1. run.receipt \in Deliveries
      BY DEF TypeOK, Row
    <2>2. [NoRequest EXCEPT !.pc = "retry", !.receipt = run.receipt] \in Request
      BY <2>1, Blanks DEF Request
    <2>3. op' = [op EXCEPT ![o] = [NoRequest EXCEPT !.pc = "retry", !.receipt = run.receipt]]
      BY <1>17 DEF RetryReceipt
    <2> QED
      BY <1>17, <1>r, <2>2, <2>3 DEF RetryReceipt, TypeOK
  <1>18. ASSUME NEW o \in Operators, RetryDelete(o) PROVE TypeOK'
    <2>1. PICK ok \in BOOLEAN : /\ Delete(op[o].receipt, ok)
                                /\ op' = [op EXCEPT ![o].pc = "retried", ![o].ok = ok]
      BY <1>18 DEF RetryDelete
    <2>2. op' = [op EXCEPT ![o] = [op[o] EXCEPT !.pc = "retried", !.ok = ok]]
      BY <2>1 DEF TypeOK
    <2> QED
      BY <1>18, <2>1, <2>2, <1>b, <1>d, <1>r DEF RetryDelete, TypeOK
  <1>19. ASSUME NEW o \in Operators, RecordRetry(o) PROVE TypeOK'
    <2>1. run' \in Row
      BY <1>19, AckRow DEF RecordRetry, AckEffect
    <2> QED
      BY <1>19, <2>1, <1>r, Blanks DEF RecordRetry, TypeOK
  <1>20. ASSUME NEW o \in Operators, Cleanup(o) PROVE TypeOK'
    <2>1. op' = [op EXCEPT ![o] = [op[o] EXCEPT !.pc = "cleanup"]]
      BY <1>20 DEF Cleanup, TypeOK
    <2> QED
      BY <1>20, <2>1, <1>b, <1>r DEF Cleanup, TypeOK
  <1>21. ASSUME NEW o \in Operators, DeleteContainer(o) PROVE TypeOK'
    <2>1. PICK ok \in BOOLEAN : /\ container' \in {container, "gone"}
                                /\ op' = [op EXCEPT ![o].pc = "cleaned", ![o].ok = ok]
      BY <1>21 DEF DeleteContainer
    <2>2. op' = [op EXCEPT ![o] = [op[o] EXCEPT !.pc = "cleaned", !.ok = ok]]
      BY <2>1 DEF TypeOK
    <2>3. proc' \in [Procs -> Process]
      BY <1>21, <1>k DEF DeleteContainer
    <2> QED
      BY <1>21, <2>1, <2>2, <2>3, <1>b, <1>r DEF DeleteContainer, TypeOK
  <1>22. ASSUME NEW o \in Operators, RecordCleanup(o) PROVE TypeOK'
    <2>1. run' \in Row
      BY <1>22 DEF RecordCleanup, TypeOK, Row
    <2> QED
      BY <1>22, <2>1, <1>r, Blanks DEF RecordCleanup, TypeOK
  <1>23. ASSUME NEW o \in Operators, RequestDies(o) PROVE TypeOK'
    BY <1>23, <1>r, Blanks DEF RequestDies, TypeOK
  <1>24. CASE UNCHANGED vars
    BY <1>24 DEF vars, TypeOK
  <1> QED
    BY <1>1, <1>2, <1>3, <1>4, <1>5, <1>6, <1>7, <1>8, <1>9, <1>10, <1>11, <1>12, <1>13,
       <1>14, <1>15, <1>16, <1>17, <1>18, <1>19, <1>20, <1>21, <1>22, <1>23, <1>24
    DEF Next, Work, Serve, Operate, RowOnly, Prepares

\* Every variable keeps its type: leases stay among the attempts, receipts among the
\* deliveries.
THEOREM TypeCorrect == Spec => []TypeOK
  BY InitTyped, StepTyped, PTL DEF Spec

-----------------------------------------------------------------------------
(***************************************************************************)
(* The cancellation: told, a process goes straight to the report.          *)
(***************************************************************************)
ToldOf(v) == v.told => v.exec \in {"cancelled", "failed"} /\ v.pc \in {"upload", "complete", "wait"}
Told      == \A p \in Procs : ToldOf(proc[p])

LEMMA ToldStep == TypeOK /\ Told /\ [Next]_vars => Told'
  <1> SUFFICES ASSUME TypeOK, Told, [Next]_vars PROVE Told'
    OBVIOUS
  <1>w. ASSUME NEW p \in Procs, NEW w \in Process, proc' = [proc EXCEPT ![p] = w], ToldOf(w)
        PROVE  Told'
    BY <1>w DEF TypeOK, Told
  <1>o. ToldOf(Off)
    BY DEF ToldOf, Off
  <1>k. ASSUME NEW c, Killed(c) PROVE Told'
    BY <1>k, <1>o DEF Killed, Told
  <1>1. ASSUME NEW p \in Procs, Prepares(p) PROVE Told'
    <2>1. PICK w \in Process : proc' = [proc EXCEPT ![p] = w] /\ Prepared(proc[p], w)
      BY <1>1, Prepare
    <2>2. ToldOf(w)
      BY <2>1 DEF Told, ToldOf, Prepared, Early
    <2> QED
      BY <1>w, <2>1, <2>2
  <1>2. ASSUME NEW p \in Procs, Claim(p) PROVE Told'
    <2>1. CASE proc' = [proc EXCEPT ![p] = Off]
      BY <2>1, <1>w, <1>o, Blanks
    <2>2. CASE proc' # [proc EXCEPT ![p] = Off]
      <3>1. PICK w \in Process : proc' = [proc EXCEPT ![p] = w] /\ w.told = proc[p].told
        BY <1>2, <2>2, ClaimStep
      <3>2. ToldOf(w)
        BY <1>2, <3>1, ClaimStep DEF Told, ToldOf
      <3> QED
        BY <1>w, <3>1, <3>2
    <2> QED
      BY <2>1, <2>2
  <1>3. ASSUME NEW p \in Procs, Upload(p) PROVE Told'
    <2>1. PICK w \in Process : /\ proc' = [proc EXCEPT ![p] = w] /\ w.told = proc[p].told
                               /\ w.exec \in {proc[p].exec, "failed"}
                               /\ w.pc \in {"upload", "complete"}
      BY <1>3, UploadStep
    <2>2. ToldOf(w)
      BY <2>1 DEF Told, ToldOf
    <2> QED
      BY <1>w, <2>1, <2>2
  <1>4. ASSUME NEW p \in Procs, Receive(p) \/ Boot(p) PROVE Told'
    <2>1. PICK w \in Process : proc' = [proc EXCEPT ![p] = w] /\ ~w.told
      BY <1>4, StartStep
    <2> QED
      BY <1>w, <2>1 DEF ToldOf
  <1>5. ASSUME NEW p \in Procs, Dies(p) PROVE Told'
    BY <1>5, <1>w, <1>o, Blanks DEF Dies
  <1>6. ASSUME NEW p \in Procs, Complete(p) PROVE Told'
    <2>1. PICK w \in Process : /\ proc' = [proc EXCEPT ![p] = w] /\ w.told = proc[p].told
                               /\ w.exec = proc[p].exec /\ w.pc = "wait"
      BY <1>6, CompleteStep
    <2>2. ToldOf(w)
      BY <2>1 DEF Told, ToldOf
    <2> QED
      BY <1>w, <2>1, <2>2
  <1>7. CASE SeedObjects
    BY <1>7, <1>k DEF SeedObjects, Told
  <1>8. ASSUME NEW o \in Operators, DeleteContainer(o) PROVE Told'
    BY <1>8, <1>k DEF DeleteContainer
  <1>9. CASE proc' = proc
    BY <1>9 DEF Told
  <1>10. CASE RowOnly \/ SendMessage \/ CreateContainer \/ Reappear \/ UNCHANGED vars
    BY <1>9, <1>10, RowStep DEF SendMessage, CreateContainer, Reappear, vars
  <1>11. ASSUME NEW p \in Procs, Finalize(p) \/ Acknowledge(p) \/ RecordAck(p) \/ ApiDies(p)
         PROVE  Told'
    BY <1>9, <1>11 DEF Finalize, Acknowledge, RecordAck, ApiDies
  <1>12. ASSUME NEW o \in Operators,
                \/ RetryReceipt(o) \/ RetryDelete(o) \/ RecordRetry(o)
                \/ Cleanup(o) \/ RecordCleanup(o) \/ RequestDies(o)
         PROVE  Told'
    BY <1>9, <1>12 DEF RetryReceipt, RetryDelete, RecordRetry, Cleanup, RecordCleanup, RequestDies
  <1> QED
    BY <1>1, <1>2, <1>3, <1>4, <1>5, <1>6, <1>7, <1>8, <1>10, <1>11, <1>12
    DEF Next, Work, Serve, Operate, RowOnly, Prepares

\* Whatever else happens to a worker process: once a heartbeat told it that the run was
\* cancelled it reports no patch.
THEOREM CancelSafe == Spec => []HeardCancelIsReported
  <1>1. Init => Told
    BY DEF Init, Told, ToldOf, Off
  <1>2. Told => HeardCancelIsReported
    BY DEF Told, ToldOf, HeardCancelIsReported
  <1> QED
    BY <1>1, <1>2, TypeCorrect, ToldStep, PTL DEF Spec

-----------------------------------------------------------------------------
(***************************************************************************)
(* The container.  A clean-up in flight has seen the run terminal.         *)
(***************************************************************************)
Container ==
  /\ run.ext = "cleaned" => container = "gone"
  /\ container = "gone" => run.status \in Terminal \/ submit = "refused"
  /\ submit = "send" => container = "none" /\ ~run.job
  /\ \A o \in Operators :
       op[o].pc \in {"cleanup", "cleaned"}
         => /\ run.status \in Terminal /\ submit # "send"
            /\ op[o].pc = "cleaned" /\ op[o].ok => container = "gone"

LEMMA ContainerStep == TypeOK /\ Container /\ [Next]_vars => Container'
  <1> SUFFICES ASSUME TypeOK, Container, [Next]_vars PROVE Container'
    OBVIOUS
  <1> USE DEF Container, Terminal
  \* The step leaves the container, the requests and the end of the run alone.
  <1>q. ASSUME container' = container, op' = op, submit' = submit, run'.job = run.job,
               run'.status = run.status \/ run'.status \in Terminal
                 \/ run.status \notin Terminal,
               run'.ext = "cleaned" => run.ext = "cleaned"
        PROVE  Container'
    BY <1>q
  <1>1. CASE RowOnly
    BY <1>1, RowStep DEF RowEffect
  <1>2. CASE SendMessage \/ CreateContainer
    BY <1>2 DEF SendMessage, CreateContainer
  <1>3. CASE SeedObjects
    BY <1>3 DEF SeedObjects
  <1>4. ASSUME NEW p \in Procs, Prepares(p) PROVE Container'
    BY <1>4, <1>q, Prepare DEF World, RunKept
  <1>5. ASSUME NEW p \in Procs, Claim(p) PROVE Container'
    BY <1>5, <1>q, ClaimStep DEF ClaimEffect
  <1>6. ASSUME NEW p \in Procs, Upload(p) PROVE Container'
    BY <1>6, <1>q, UploadStep
  <1>7. ASSUME NEW p \in Procs, Receive(p) \/ Dies(p) PROVE Container'
    BY <1>7, <1>q DEF Receive, Dies
  <1>8. ASSUME NEW p \in Procs, Boot(p) PROVE Container'
    BY <1>8 DEF Boot
  <1>9. ASSUME NEW p \in Procs, Complete(p) PROVE Container'
    BY <1>9, <1>q, CompleteStep
  <1>10. ASSUME NEW p \in Procs, Finalize(p) PROVE Container'
    BY <1>10, <1>q, FinalizeStep
  <1>11. ASSUME NEW p \in Procs, Acknowledge(p) \/ ApiDies(p) PROVE Container'
    BY <1>11, <1>q DEF Acknowledge, ApiDies
  <1>12. ASSUME NEW p \in Procs, RecordAck(p) PROVE Container'
    BY <1>12, <1>q, AckRow DEF RecordAck, AckEffect
  <1>13. ASSUME NEW o \in Operators, RecordRetry(o) PROVE Container'
    <2>1. \A r \in Operators : op'[r] = IF r = o THEN NoRequest ELSE op[r]
      BY <1>13 DEF RecordRetry, TypeOK
    <2> QED
      BY <1>13, <2>1, AckRow DEF RecordRetry, AckEffect, NoRequest
  <1>14. ASSUME NEW o \in Operators, RetryReceipt(o) \/ RetryDelete(o) PROVE Container'
    <2>1. \A r \in Operators : op'[r].pc \in {"cleanup", "cleaned"} => op'[r] = op[r]
      BY <1>14 DEF RetryReceipt, RetryDelete, TypeOK, Request
    <2> QED
      BY <1>14, <2>1 DEF RetryReceipt, RetryDelete
  <1>15. ASSUME NEW o \in Operators, Cleanup(o) PROVE Container'
    <2>1. \A r \in Operators : IF r = o THEN op'[r].pc = "cleanup" ELSE op'[r] = op[r]
      BY <1>15 DEF Cleanup, TypeOK, Request
    <2> QED
      BY <1>15, <2>1 DEF Cleanup
  <1>16. ASSUME NEW o \in Operators, DeleteContainer(o) PROVE Container'
    <2>1. PICK ok \in BOOLEAN : /\ container' \in {container, "gone"}
                                /\ ok => container' = "gone"
                                /\ op' = [op EXCEPT ![o].pc = "cleaned", ![o].ok = ok]
      BY <1>16 DEF DeleteContainer
    <2>2. \A r \in Operators : IF r = o THEN op'[r].pc = "cleaned" /\ op'[r].ok = ok
                                        ELSE op'[r] = op[r]
      BY <2>1 DEF TypeOK, Request
    <2> QED
      BY <1>16, <2>1, <2>2 DEF DeleteContainer
  <1>17. ASSUME NEW o \in Operators, RecordCleanup(o) \/ RequestDies(o) PROVE Container'
    <2>1. \A r \in Operators : op'[r] = IF r = o THEN NoRequest ELSE op[r]
      BY <1>17 DEF RecordCleanup, RequestDies, TypeOK
    <2>2. CASE RecordCleanup(o)
      <3>1. /\ run'.status = run.status /\ run'.job = run.job
            /\ run'.ext = "cleaned" => op[o].ok
        BY <2>2 DEF RecordCleanup, TypeOK, Row
      <3> QED
        BY <2>1, <2>2, <3>1 DEF RecordCleanup, NoRequest
    <2>3. CASE RequestDies(o)
      BY <2>1, <2>3 DEF RequestDies, NoRequest
    <2> QED
      BY <1>17, <2>2, <2>3
  <1>18. CASE Reappear \/ UNCHANGED vars
    BY <1>18, <1>q DEF Reappear, vars
  <1> QED
    BY <1>1, <1>2, <1>3, <1>4, <1>5, <1>6, <1>7, <1>8, <1>9, <1>10, <1>11, <1>12, <1>13,
       <1>14, <1>15, <1>16, <1>17, <1>18
    DEF Next, Work, Serve, Operate, RowOnly, Prepares

\* The row says cleaned only of a container that is gone, and no container is deleted while
\* its run may still go on.
THEOREM ContainerSafe == Spec => []ContainersAccounted
  <1>1. Init => Container
    BY DEF Init, Container, NoRequest
  <1>2. Container => ContainersAccounted
    BY DEF Container, ContainersAccounted
  <1> QED
    BY <1>1, <1>2, TypeCorrect, ContainerStep, PTL DEF Spec

-----------------------------------------------------------------------------
(***************************************************************************)
(* The message.  Whoever deletes it has seen the run terminal, and a       *)
(* delete that is about to be recorded has happened.                       *)
(***************************************************************************)
Deleting ==
  /\ \A p \in Procs :
       api[p].pc \in {"ack", "record"}
         => /\ run.status \in Terminal
            /\ api[p].pc = "record" /\ api[p].ok => queue.state = "deleted"
  /\ \A o \in Operators :
       op[o].pc \in {"retry", "retried"}
         => /\ run.status \in Terminal
            /\ op[o].pc = "retried" /\ op[o].ok => queue.state = "deleted"

Delivered ==
  /\ submit = "send" => queue.state = "none"
  /\ container = "up" => mode = "container"
  /\ \A p \in Procs : mode = "queue" /\ proc[p].pc = "claim" => proc[p].receipt # 0

Message == MessageAccounted /\ Deleting /\ Delivered

\* A process that was not about to claim is not made to, except by a message or a boot.
LEMMA NoneClaims ==
  ASSUME TypeOK, [Next]_vars, NEW p \in Procs, proc'[p] # proc[p], proc'[p].pc = "claim"
  PROVE  Receive(p) \/ Boot(p)
  <1>w. ASSUME NEW q \in Procs, NEW w \in Process, proc' = [proc EXCEPT ![q] = w],
               w.pc # "claim"
        PROVE  FALSE
    BY <1>w DEF TypeOK
  <1>o. Off.pc # "claim" /\ Off \in Process
    BY Blanks DEF Off
  <1>k. ASSUME NEW c, Killed(c) PROVE FALSE
    BY <1>k, <1>o DEF Killed
  <1>1. ASSUME NEW q \in Procs, Prepares(q) PROVE FALSE
    <2>1. PICK w \in Process : proc' = [proc EXCEPT ![q] = w] /\ w.pc # "claim"
      BY <1>1, Prepare DEF Prepared, Early
    <2> QED
      BY <1>w, <2>1
  <1>2. ASSUME NEW q \in Procs, Claim(q) PROVE FALSE
    BY <1>2, <1>w, <1>o, ClaimStep
  <1>3. ASSUME NEW q \in Procs, Upload(q) PROVE FALSE
    BY <1>3, <1>w, UploadStep
  <1>4. ASSUME NEW q \in Procs, Receive(q) \/ Boot(q), q # p PROVE FALSE
    BY <1>4, StartStep DEF TypeOK
  <1>5. ASSUME NEW q \in Procs, Dies(q) PROVE FALSE
    BY <1>5, <1>w, <1>o DEF Dies
  <1>6. ASSUME NEW q \in Procs, Complete(q) PROVE FALSE
    BY <1>6, <1>w, CompleteStep
  <1>7. ~SeedObjects
    BY <1>k DEF SeedObjects
  <1>8. ASSUME NEW o \in Operators, DeleteContainer(o) PROVE FALSE
    BY <1>8, <1>k DEF DeleteContainer
  <1>9. ~(RowOnly \/ SendMessage \/ CreateContainer \/ Reappear \/ UNCHANGED vars)
    BY RowStep DEF SendMessage, CreateContainer, Reappear, vars
  <1>10. ASSUME NEW q \in Procs, Finalize(q) \/ Acknowledge(q) \/ RecordAck(q) \/ ApiDies(q)
         PROVE  FALSE
    BY <1>10 DEF Finalize, Acknowledge, RecordAck, ApiDies
  <1>11. ASSUME NEW o \in Operators,
                \/ RetryReceipt(o) \/ RetryDelete(o) \/ RecordRetry(o)
                \/ Cleanup(o) \/ RecordCleanup(o) \/ RequestDies(o)
         PROVE  FALSE
    BY <1>11 DEF RetryReceipt, RetryDelete, RecordRetry, Cleanup, RecordCleanup, RequestDies
  <1> QED
    BY <1>1, <1>2, <1>3, <1>4, <1>5, <1>6, <1>7, <1>8, <1>9, <1>10, <1>11
    DEF Next, Work, Serve, Operate, RowOnly, Prepares

LEMMA DeliveredStep == TypeOK /\ Delivered /\ [Next]_vars => Delivered'
  <1> SUFFICES ASSUME TypeOK, Delivered, [Next]_vars PROVE Delivered'
    OBVIOUS
  <1> DEFINE Submitting == /\ mode' = mode
                           /\ submit' = "send" => submit = "send" /\ queue' = queue
                           /\ container' = "up" => container = "up" \/ mode = "container"
  <1>1. Submitting
    <2>1. CASE SendMessage \/ CreateContainer \/ SeedObjects \/ RowOnly \/ Reappear
                 \/ UNCHANGED vars
      BY <2>1, RowStep DEF SendMessage, CreateContainer, SeedObjects, Reappear, Delivered, vars
    <2>2. ASSUME NEW p \in Procs, Prepares(p) \/ Claim(p) \/ Upload(p) \/ Complete(p) \/ Finalize(p)
          PROVE  Submitting
      BY <2>2, Prepare, ClaimStep, UploadStep, CompleteStep, FinalizeStep DEF World
    <2>3. ASSUME NEW p \in Procs, Receive(p) \/ Boot(p) \/ Dies(p) \/ RecordAck(p) \/ ApiDies(p)
          PROVE  Submitting
      BY <2>3 DEF Receive, Boot, Dies, RecordAck, ApiDies, Delivered
    <2>4. ASSUME NEW p \in Procs, Acknowledge(p) PROVE Submitting
      BY <2>4 DEF Acknowledge, Delete, Deletes, Delivered
    <2>5. ASSUME NEW o \in Operators, RetryDelete(o) \/ DeleteContainer(o) PROVE Submitting
      BY <2>5 DEF RetryDelete, DeleteContainer, Delete, Deletes, Delivered
    <2>6. ASSUME NEW o \in Operators,
                 \/ RetryReceipt(o) \/ RecordRetry(o) \/ Cleanup(o) \/ RecordCleanup(o)
                 \/ RequestDies(o)
          PROVE  Submitting
      BY <2>6 DEF RetryReceipt, RecordRetry, Cleanup, RecordCleanup, RequestDies
    <2> QED
      BY <2>1, <2>2, <2>3, <2>4, <2>5, <2>6
      DEF Next, Work, Serve, Operate, RowOnly, Prepares
  <1>2. ASSUME NEW p \in Procs, mode = "queue", proc'[p].pc = "claim"
        PROVE  proc'[p].receipt # 0
    <2>1. CASE proc'[p] = proc[p]
      BY <1>2, <2>1 DEF Delivered
    <2>2. CASE proc'[p] # proc[p]
      <3>1. Receive(p)
        BY <1>2, <2>2, NoneClaims DEF Boot, Delivered
      <3> QED
        BY <3>1, StartStep DEF TypeOK
    <2> QED
      BY <2>1, <2>2
  <1> QED
    BY <1>1, <1>2 DEF Delivered

LEMMA AccountStep == TypeOK /\ Message /\ [Next]_vars => MessageAccounted' /\ Deleting'
  <1> DEFINE Goal == MessageAccounted' /\ Deleting'
  <1> SUFFICES ASSUME TypeOK, Message, [Next]_vars PROVE Goal
    OBVIOUS
  <1> USE DEF Message, MessageAccounted, Deleting
  \* The step leaves the message alone and takes no end of the run back.
  <1>q. ASSUME queue' = queue \/ (queue'.state # "deleted" /\ queue.state # "deleted"),
               api' = api, op' = op,
               bound' = bound /\ run'.receipt = run.receipt,
               run.status \in Terminal => run'.status \in Terminal
        PROVE  Goal
    BY <1>q
  \* An answer of the queue: whoever asked had seen the run terminal.
  <1>d. ASSUME NEW r, NEW ok \in BOOLEAN, Delete(r, ok)
        PROVE  /\ queue.state = "deleted" => queue'.state = "deleted"
               /\ ok => queue'.state = "deleted"
    BY <1>d DEF Delete, Deletes, TypeOK
  <1>1. CASE RowOnly \/ UNCHANGED vars
    BY <1>1, <1>q, RowStep DEF RowEffect, vars
  <1>2. CASE SendMessage \/ CreateContainer \/ SeedObjects \/ Reappear
    BY <1>2, <1>q DEF SendMessage, CreateContainer, SeedObjects, Reappear, Delivered, TypeOK
  <1>3. ASSUME NEW p \in Procs, Prepares(p) \/ Upload(p) PROVE Goal
    BY <1>3, <1>q, Prepare, UploadStep DEF World, RunKept
  <1>4. ASSUME NEW p \in Procs, Claim(p) PROVE Goal
    <2>1. CASE ClaimEffect(p)
      <3>1. /\ run.status \notin Terminal
            /\ run'.receipt = run.receipt \/ run'.receipt # 0
        BY <1>4, <2>1, ClaimStep DEF ClaimEffect, Delivered, Terminal
      <3>2. UNCHANGED <<queue, api, op>> /\ bound' = (bound \/ run'.receipt # 0)
        BY <1>4, <2>1, ClaimStep DEF ClaimEffect
      <3> QED
        BY <3>1, <3>2
    <2>2. CASE ~ClaimEffect(p)
      BY <1>4, <2>2, <1>q, ClaimStep
    <2> QED
      BY <2>1, <2>2
  <1>5. ASSUME NEW p \in Procs, Receive(p) \/ Boot(p) \/ Dies(p) PROVE Goal
    BY <1>5, <1>q DEF Receive, Boot, Dies
  <1>6. ASSUME NEW p \in Procs, Finalize(p) PROVE Goal
    <2>1. \A q \in Procs : q # p => api'[q] = api[q]
      BY <1>6, FinalizeStep DEF TypeOK
    <2>2. api'[p].pc = "none" \/ (api'[p].pc = "ack" /\ run'.status \in Terminal)
      BY <1>6, FinalizeStep DEF TypeOK, NoHandler
    <2>3. /\ run'.receipt = run.receipt /\ UNCHANGED <<queue, bound, op>>
          /\ run.status \in Terminal => run'.status \in Terminal
      BY <1>6, FinalizeStep
    <2> QED
      BY <2>1, <2>2, <2>3
  <1>7. ASSUME NEW p \in Procs, Acknowledge(p) PROVE Goal
    <2>1. CASE run.receipt = 0
      BY <1>7, <2>1 DEF Acknowledge, TypeOK, NoHandler
    <2>2. CASE run.receipt # 0
      <3>1. PICK ok \in BOOLEAN : /\ Delete(run.receipt, ok)
                                  /\ api' = [api EXCEPT ![p].pc = "record", ![p].ok = ok]
        BY <1>7, <2>2 DEF Acknowledge
      <3>2. \A q \in Procs : IF q = p THEN api'[q].pc = "record" /\ api'[q].ok = ok
                                      ELSE api'[q] = api[q]
        BY <3>1 DEF TypeOK, Handler
      <3>3. /\ run.status \in Terminal /\ UNCHANGED <<run, op, bound>>
            /\ queue.state = "deleted" => queue'.state = "deleted"
            /\ ok => queue'.state = "deleted"
        BY <1>7, <1>d, <3>1 DEF Acknowledge
      <3> QED
        BY <3>2, <3>3
    <2> QED
      BY <2>1, <2>2
  <1>8. ASSUME NEW p \in Procs, RecordAck(p) PROVE Goal
    <2>1. \A q \in Procs : api'[q] = IF q = p THEN NoHandler ELSE api[q]
      BY <1>8 DEF RecordAck, TypeOK
    <2>2. /\ run'.receipt = (IF api[p].ok THEN 0 ELSE run.receipt) /\ run'.status = run.status
          /\ UNCHANGED <<queue, op, bound>> /\ api[p].pc = "record"
      BY <1>8, AckRow DEF RecordAck, AckEffect
    <2> QED
      BY <2>1, <2>2 DEF NoHandler
  <1>9. ASSUME NEW p \in Procs, ApiDies(p) PROVE Goal
    BY <1>9 DEF ApiDies, TypeOK, NoHandler
  <1>10. ASSUME NEW o \in Operators, RetryReceipt(o) PROVE Goal
    <2>1. \A r \in Operators : r # o => op'[r] = op[r]
      BY <1>10 DEF RetryReceipt, TypeOK
    <2>2. op'[o].pc = "retry"
      BY <1>10 DEF RetryReceipt, TypeOK, Request
    <2> QED
      BY <1>10, <2>1, <2>2 DEF RetryReceipt
  <1>11. ASSUME NEW o \in Operators, RetryDelete(o) PROVE Goal
    <2>1. PICK ok \in BOOLEAN : /\ Delete(op[o].receipt, ok)
                                /\ op' = [op EXCEPT ![o].pc = "retried", ![o].ok = ok]
      BY <1>11 DEF RetryDelete
    <2>2. \A r \in Operators : IF r = o THEN op'[r].pc = "retried" /\ op'[r].ok = ok
                                        ELSE op'[r] = op[r]
      BY <2>1 DEF TypeOK, Request
    <2>3. /\ run.status \in Terminal /\ UNCHANGED <<run, api, bound>>
          /\ queue.state = "deleted" => queue'.state = "deleted"
          /\ ok => queue'.state = "deleted"
      BY <1>11, <1>d, <2>1 DEF RetryDelete
    <2> QED
      BY <2>2, <2>3
  <1>12. ASSUME NEW o \in Operators, RecordRetry(o) PROVE Goal
    <2>1. \A r \in Operators : op'[r] = IF r = o THEN NoRequest ELSE op[r]
      BY <1>12 DEF RecordRetry, TypeOK
    <2>2. /\ run'.receipt = (IF op[o].ok THEN 0 ELSE run.receipt) /\ run'.status = run.status
          /\ UNCHANGED <<queue, api, bound>> /\ op[o].pc = "retried"
      BY <1>12, AckRow DEF RecordRetry, AckEffect
    <2> QED
      BY <2>1, <2>2 DEF NoRequest
  <1>13. ASSUME NEW o \in Operators, Cleanup(o) \/ DeleteContainer(o) PROVE Goal
    <2>1. \A r \in Operators : op'[r].pc \in {"retry", "retried"} => op'[r] = op[r]
      BY <1>13 DEF Cleanup, DeleteContainer, TypeOK, Request
    <2> QED
      BY <1>13, <2>1 DEF Cleanup, DeleteContainer
  <1>14. ASSUME NEW o \in Operators, RecordCleanup(o) \/ RequestDies(o) PROVE Goal
    <2>1. \A r \in Operators : op'[r] = IF r = o THEN NoRequest ELSE op[r]
      BY <1>14 DEF RecordCleanup, RequestDies, TypeOK
    <2>2. /\ run'.status = run.status /\ run'.receipt = run.receipt
          /\ UNCHANGED <<queue, api, bound>>
      BY <1>14 DEF RecordCleanup, RequestDies, TypeOK, Row
    <2> QED
      BY <2>1, <2>2 DEF NoRequest
  <1>15. ASSUME NEW p \in Procs, Complete(p) PROVE Goal
    <2>1. \A q \in Procs : q # p => api'[q] = api[q]
      BY <1>15, CompleteStep DEF TypeOK
    <2>2. api'[p].pc = "finalize"
      BY <1>15, CompleteStep DEF TypeOK
    <2>3. /\ run'.receipt = run.receipt /\ run'.status = run.status
          /\ UNCHANGED <<queue, bound, op>>
      BY <1>15, CompleteStep
    <2> QED
      BY <2>1, <2>2, <2>3
  <1> QED
    BY <1>1, <1>2, <1>3, <1>4, <1>5, <1>6, <1>7, <1>8, <1>9, <1>10, <1>11, <1>12, <1>13, <1>14,
       <1>15
    DEF Next, Work, Serve, Operate, RowOnly, Prepares

\* The message of a run is deleted only once the run is over, and a receipt the row has
\* held is cleared only when the message is gone, whoever deletes it and however often it
\* was delivered.
THEOREM MessageSafe == Spec => []MessageAccounted
  <1>1. Init => Message
    BY DEF Init, Message, MessageAccounted, Deleting, Delivered, NoHandler, NoRequest, Off
  <1>2. TypeOK /\ Message /\ [Next]_vars => Message'
    BY AccountStep, DeliveredStep DEF Message
  <1>3. Message => MessageAccounted
    BY DEF Message
  <1> QED
    BY <1>1, <1>2, <1>3, TypeCorrect, StepTyped, PTL DEF Spec

-----------------------------------------------------------------------------
(***************************************************************************)
(* The patch.  No two processes hold one lease, so what is stored under a  *)
(* lease is what its process counts; a completion uses the token up, and   *)
(* without it nothing is claimed or stored any more: the artifacts and the *)
(* attempt that a finalization relies on stay as they are.                 *)
(***************************************************************************)
Holding(v) ==
  /\ v.pc = "claim" => v.sent = 0
  /\ v.pc \in Early => v.sent = 0
  /\ v.pc \in Leasing => 1 <= v.lease /\ v.lease <= run.attempts
  /\ v.pc \in Leasing /\ v.pc # "complete" => stored[v.lease] = v.sent
  /\ v.pc = "complete" /\ v.exec \in Patches => stored[v.lease] = AllUploaded

Finalizing(a) ==
  a.pc = "finalize" => /\ run.token # "live" /\ a.lease = run.attempts
                       /\ a.exec \in Patches => stored[a.lease] = AllUploaded

Leased ==
  /\ run.status = "running" => run.lease = run.attempts
  /\ \A l \in Attempts : l > run.attempts => stored[l] = 0

Apart == \A p, q \in Procs : p # q /\ proc[p].pc \in Leasing /\ proc[q].pc \in Leasing
                             => proc[p].lease # proc[q].lease

Patch ==
  /\ Leased /\ Apart
  /\ \A p \in Procs : Holding(proc[p]) /\ Finalizing(api[p])
  /\ run.patch # 0 => run.token # "live"
  /\ PatchRestsOnUploads

LEMMA PatchStep == TypeOK /\ Patch /\ [Next]_vars => Patch'
  <1> SUFFICES ASSUME TypeOK, Patch, [Next]_vars PROVE Patch'
    OBVIOUS
  <1> USE DEF Leased, Finalizing, PatchRestsOnUploads
  <1> DEFINE Same(p) == proc'[p] = proc[p] \/ proc'[p].pc \in {"off", "wait"}
             Kept == /\ run'.attempts = run.attempts /\ run'.patch = run.patch
                     /\ run'.status = "running" => run.status = "running" /\ run'.lease = run.lease
                     /\ run'.token = "live" => run.token = "live"
  <1>i. run.attempts \in Attempts /\ run.patch \in Attempts
    BY DEF TypeOK, Row
  \* The step grants nothing and stores nothing.
  <1>q. ASSUME Kept, stored' = stored,
               \A p \in Procs : Same(p),
               \A p \in Procs : api'[p] = api[p] \/ api'[p].pc # "finalize"
        PROVE  Patch'
    <2>1. \A p \in Procs : Holding(proc[p])'
      BY <1>q DEF Patch, Holding, Leasing, Early
    <2>2. Apart'
      BY <1>q DEF Patch, Apart, Leasing, Early
    <2>3. \A p \in Procs : Finalizing(api[p])'
      BY <1>q DEF Patch
    <2> QED
      BY <1>q, <2>1, <2>2, <2>3 DEF Patch
  <1>1. CASE RowOnly
    BY <1>1, <1>q, RowStep DEF RowEffect
  <1>2. CASE SendMessage \/ CreateContainer \/ Reappear \/ UNCHANGED vars
    BY <1>2, <1>q DEF SendMessage, CreateContainer, Reappear, vars
  <1>k. ASSUME NEW c, Killed(c) PROVE \A p \in Procs : Same(p)
    BY <1>k DEF Killed, Off
  <1>3. CASE SeedObjects
    BY <1>3, <1>q, <1>k DEF SeedObjects
  <1>4. ASSUME NEW p \in Procs, Prepares(p) PROVE Patch'
    <2>1. PICK w \in Process : proc' = [proc EXCEPT ![p] = w] /\ Prepared(proc[p], w)
      BY <1>4, Prepare
    <2>2. RunKept /\ UNCHANGED World
      BY <1>4, Prepare
    <2>3. /\ \A q \in Procs : q # p => proc'[q] = proc[q]
          /\ proc'[p] = w
      BY <2>1, ProcSet
    <2>4. \A q \in Procs : q # p => Holding(proc[q])'
      BY <2>2, <2>3 DEF Patch, Holding, RunKept, World
    <2>5. Holding(w)'
      BY <2>1, <2>2 DEF Patch, Holding, RunKept, World, Prepared, Leasing, Early
    <2>6. Apart'
      BY <2>1, <2>3 DEF Patch, Apart, Prepared, Leasing
    <2>7. \A q \in Procs : Finalizing(api[q])'
      BY <2>2 DEF Patch, RunKept, World
    <2> QED
      BY <2>2, <2>3, <2>4, <2>5, <2>6, <2>7 DEF Patch, RunKept, World
  <1>5. ASSUME NEW p \in Procs, Claim(p) PROVE Patch'
    <2>1. CASE proc' = [proc EXCEPT ![p] = Off] /\ UNCHANGED run
      BY <1>5, <2>1, <1>q, ClaimStep DEF TypeOK, Off
    <2>2. CASE ClaimEffect(p)
      <3>1. PICK w \in Process : /\ proc' = [proc EXCEPT ![p] = w]
                                 /\ w.pc = "payload" /\ w.lease = run.attempts + 1
                                 /\ w.sent = proc[p].sent
        BY <1>5, <2>2, ClaimStep DEF ClaimEffect, TypeOK, Row
      <3>2. /\ \A q \in Procs : q # p => proc'[q] = proc[q]
            /\ proc'[p] = w
        BY <3>1, ProcSet
      <3>3. /\ run'.attempts = run.attempts + 1 /\ run.attempts + 1 \in Attempts
            /\ run'.patch = run.patch /\ run.token = "live"
            /\ run'.lease = run.attempts + 1
            /\ UNCHANGED <<stored, api>> /\ proc[p].pc = "claim"
        BY <1>5, <2>2, ClaimStep DEF ClaimEffect
      <3>4. Attempts \subseteq Nat
        BY Numbers
      <3>5. PICK n \in Nat : n = run.attempts /\ run'.attempts = n + 1 /\ w.lease = n + 1
        BY <1>i, <3>1, <3>3, <3>4
      <3>6. \A q \in Procs : q # p => Holding(proc[q])'
        <4> SUFFICES ASSUME NEW q \in Procs, q # p PROVE Holding(proc[q])'
          OBVIOUS
        <4>1. PICK v \in Process : v = proc[q]
          BY DEF TypeOK
        <4>2. PICK k \in Nat : k = v.lease
          BY <3>4 DEF Process
        <4>3. v.pc \in Leasing => k <= n
          BY <3>5, <4>1, <4>2 DEF Patch, Holding
        <4>4. v.pc \in Leasing => k <= n + 1
          BY <4>3
        <4>5. Holding(v)
          BY <4>1 DEF Patch
        <4> QED
          BY <3>2, <3>3, <3>5, <4>1, <4>2, <4>4, <4>5 DEF Holding
      <3>7. Holding(w)'
        <4>1. n + 1 \in Attempts /\ n + 1 > n /\ stored[n + 1] = 0
          BY <3>3, <3>5 DEF Patch
        <4>2. w.sent = 0
          BY <3>1, <3>3 DEF Patch, Holding
        <4>3. 1 <= n + 1 /\ n + 1 <= n + 1
          BY <3>5
        <4> QED
          BY <3>1, <3>3, <3>5, <4>1, <4>2, <4>3 DEF Holding, Leasing, Early
      <3>8. Apart'
        <4> SUFFICES ASSUME NEW q \in Procs, q # p, proc[q].pc \in Leasing
                     PROVE  proc[q].lease # w.lease
          BY <3>1, <3>2 DEF Patch, Apart
        <4>1. PICK v \in Process : v = proc[q]
          BY DEF TypeOK
        <4>2. PICK k \in Nat : k = v.lease
          BY <3>4 DEF Process
        <4>3. k <= n
          BY <3>5, <4>1, <4>2 DEF Patch, Holding
        <4> QED
          BY <3>5, <4>1, <4>2, <4>3
      <3>9. \A q \in Procs : Finalizing(api[q])'
        BY <3>3 DEF Patch
      <3>10. Leased'
        <4>1. \A l \in Attempts : l > n + 1 => l > n
          BY <3>4, <3>5
        <4> QED
          BY <3>3, <3>5, <4>1 DEF Patch
      <3> QED
        BY <3>2, <3>3, <3>6, <3>7, <3>8, <3>9, <3>10 DEF Patch
    <2> QED
      BY <1>5, <2>1, <2>2, ClaimStep
  <1>6. ASSUME NEW p \in Procs, Upload(p) PROVE Patch'
    <2>1. PICK w \in Process :
              /\ proc' = [proc EXCEPT ![p] = w]
              /\ w.lease = proc[p].lease
              /\ \/ /\ w.exec = proc[p].exec /\ w.sent = proc[p].sent + 1
                    /\ w.pc = IF proc[p].sent + 1 = AllUploaded THEN "complete" ELSE "upload"
                    /\ stored' = [stored EXCEPT ![proc[p].lease] = @ + 1]
                    /\ LeaseIsCurrent(p)
                 \/ /\ w.exec = "failed" /\ w.sent = 0 /\ w.pc = "complete"
                    /\ \/ stored' = stored
                       \/ /\ stored' = [stored EXCEPT ![proc[p].lease] = @ + 1]
                          /\ LeaseIsCurrent(p)
      BY <1>6, UploadStep
    <2>2. /\ \A q \in Procs : q # p => proc'[q] = proc[q]
          /\ proc'[p] = w
      BY <2>1, ProcSet
    <2>3. PICK v \in Process : v = proc[p]
      BY DEF TypeOK
    <2>4. v.lease \in Attempts /\ v.pc = "upload" /\ UNCHANGED <<run, api>>
      BY <1>6, <2>3, UploadStep DEF Process
    <2>5. \/ stored' = stored
          \/ /\ LeaseIsCurrent(p)
             /\ \A l \in Attempts : stored'[l] = IF l = v.lease THEN stored[l] + 1 ELSE stored[l]
      BY <2>1, <2>3, <2>4 DEF TypeOK
    <2>6. 1 <= v.lease /\ v.lease <= run.attempts /\ stored[v.lease] = v.sent
      BY <2>3, <2>4 DEF Patch, Holding, Leasing
    <2>7. \A q \in Procs : q # p => Holding(proc[q])'
      <3> SUFFICES ASSUME NEW q \in Procs, q # p PROVE Holding(proc[q])'
        OBVIOUS
      <3>1. PICK u \in Process : u = proc[q]
        BY DEF TypeOK
      <3>2. u.lease \in Attempts /\ (u.pc \in Leasing => u.lease # v.lease)
        BY <2>3, <2>4, <3>1 DEF Patch, Apart, Leasing, Process
      <3>3. u.pc \in Leasing => stored'[u.lease] = stored[u.lease]
        BY <2>5, <3>2
      <3>4. u.pc = "complete" => u.pc \in Leasing
        BY DEF Leasing
      <3> QED
        BY <2>2, <2>4, <3>1, <3>3, <3>4 DEF Patch, Holding
    <2>8. Holding(w)'
      <3>1. CASE w.exec = "failed" /\ w.pc = "complete"
        BY <2>1, <2>3, <2>4, <2>6, <3>1 DEF Holding, Patches, Early
      <3>2. CASE ~(w.exec = "failed" /\ w.pc = "complete")
        <4>1. /\ w.sent = v.sent + 1 /\ stored'[v.lease] = v.sent + 1 /\ w.lease = v.lease
              /\ w.pc = IF v.sent + 1 = AllUploaded THEN "complete" ELSE "upload"
          BY <2>1, <2>3, <2>4, <2>6, <3>2 DEF TypeOK
        <4> QED
          BY <2>4, <2>6, <4>1 DEF Holding, Early
      <3> QED
        BY <3>1, <3>2
    <2>9. Apart'
      BY <2>1, <2>2, <2>3, <2>4 DEF Patch, Apart, Leasing
    <2>10. \A q \in Procs : Finalizing(api[q])'
      BY <1>i, <2>4, <2>5 DEF Patch, LeaseIsCurrent
    <2>11. Leased'
      <3>1. PICK k \in Nat, n \in Nat : k = v.lease /\ n = run.attempts /\ k <= n
        BY <1>i, <2>4, <2>6, Numbers
      <3>2. \A l \in Attempts : l > n => l # k
        BY <3>1, Numbers
      <3> QED
        BY <2>4, <2>5, <3>1, <3>2 DEF Patch
    <2>12. PatchRestsOnUploads'
      BY <1>i, <2>4, <2>5 DEF Patch, LeaseIsCurrent
    <2> QED
      BY <2>2, <2>4, <2>7, <2>8, <2>9, <2>10, <2>11, <2>12 DEF Patch
  <1>7. ASSUME NEW p \in Procs, Receive(p) \/ Boot(p) PROVE Patch'
    <2>1. PICK w \in Process : proc' = [proc EXCEPT ![p] = w] /\ w.pc = "claim" /\ w.sent = 0
      BY <1>7, StartStep
    <2>2. UNCHANGED <<run, stored, api>>
      BY <1>7, StartStep
    <2>3. /\ \A q \in Procs : q # p => proc'[q] = proc[q]
          /\ proc'[p] = w
      BY <2>1, ProcSet
    <2>4. \A q \in Procs : q # p => Holding(proc[q])'
      BY <2>2, <2>3 DEF Patch, Holding
    <2>5. Holding(w)'
      BY <2>1 DEF Holding, Leasing, Early
    <2>6. Apart'
      BY <2>1, <2>3 DEF Patch, Apart, Leasing, Early
    <2> QED
      BY <2>2, <2>3, <2>4, <2>5, <2>6 DEF Patch
  <1>8. ASSUME NEW p \in Procs, Dies(p) PROVE Patch'
    BY <1>8, <1>q DEF Dies, TypeOK, Off
  <1>9. ASSUME NEW p \in Procs, Complete(p) PROVE Patch'
    <2>1. PICK a \in Handler : /\ api' = [api EXCEPT ![p] = a] /\ a.pc = "finalize"
                               /\ a.lease = proc[p].lease /\ a.exec = proc[p].exec
      BY <1>9, CompleteStep
    <2>2. /\ run'.token = "used" /\ run'.status = run.status /\ run'.attempts = run.attempts
          /\ run'.lease = run.lease /\ run'.patch = run.patch /\ stored' = stored
          /\ proc[p].pc = "complete" /\ LeaseIsCurrent(p)
      BY <1>9, CompleteStep
    <2>3. Finalizing(a)'
      BY <2>1, <2>2 DEF Patch, Holding, LeaseIsCurrent
    <2>4. \A q \in Procs : Same(q)
      BY <1>9, CompleteStep DEF TypeOK
    <2>5. \A q \in Procs : q # p => Finalizing(api[q])'
      BY <2>1, <2>2 DEF Patch, TypeOK
    <2>6. api'[p] = a
      BY <2>1 DEF TypeOK
    <2>7. \A q \in Procs : Holding(proc[q])'
      BY <2>2, <2>4 DEF Patch, Holding, Leasing, Early
    <2>8. Apart'
      BY <2>4 DEF Patch, Apart, Leasing, Early
    <2> QED
      BY <2>2, <2>3, <2>5, <2>6, <2>7, <2>8 DEF Patch
  <1>10. ASSUME NEW p \in Procs, Finalize(p) PROVE Patch'
    <2>1. \A q \in Procs : Same(q)
      BY <1>10, FinalizeStep
    <2>2. \A q \in Procs : api'[q] = api[q] \/ api'[q].pc # "finalize"
      BY <1>10, FinalizeStep DEF TypeOK, NoHandler
    <2>3. CASE run' = run \/ (run'.patch = run.patch /\ Kept)
      BY <1>10, <2>1, <2>2, <2>3, <1>q, FinalizeStep
    <2>4. CASE ~(run' = run \/ (run'.patch = run.patch /\ Kept))
      <3>1. /\ run'.attempts = run.attempts /\ run'.token = run.token /\ run'.status # "running"
            /\ run'.patch = api[p].lease /\ api[p].exec \in Patches /\ stored' = stored
            /\ api[p].pc = "finalize"
        BY <1>10, <2>4, FinalizeStep DEF Terminal
      <3>2. \A q \in Procs : Holding(proc[q])'
        BY <2>1, <3>1 DEF Patch, Holding, Leasing, Early
      <3>3. Apart'
        BY <2>1 DEF Patch, Apart, Leasing, Early
      <3>4. \A q \in Procs : Finalizing(api[q])'
        BY <2>2, <3>1 DEF Patch
      <3> QED
        BY <3>1, <3>2, <3>3, <3>4 DEF Patch
    <2> QED
      BY <2>3, <2>4
  <1>11. ASSUME NEW p \in Procs, Acknowledge(p) \/ ApiDies(p) PROVE Patch'
    <2>1. \A q \in Procs : api'[q] = api[q] \/ api'[q].pc # "finalize"
      BY <1>11 DEF Acknowledge, ApiDies, NoHandler, TypeOK, Handler
    <2> QED
      BY <1>11, <2>1, <1>q DEF Acknowledge, ApiDies
  <1>12. ASSUME NEW p \in Procs, RecordAck(p) PROVE Patch'
    <2>1. \A q \in Procs : api'[q] = api[q] \/ api'[q].pc # "finalize"
      BY <1>12 DEF RecordAck, NoHandler, TypeOK
    <2> QED
      BY <1>12, <2>1, <1>q, AckRow DEF RecordAck, AckEffect
  <1>13. ASSUME NEW o \in Operators, RecordRetry(o) PROVE Patch'
    BY <1>13, <1>q, AckRow DEF RecordRetry, AckEffect
  <1>14. ASSUME NEW o \in Operators,
                RetryReceipt(o) \/ RetryDelete(o) \/ Cleanup(o) \/ RequestDies(o)
         PROVE  Patch'
    BY <1>14, <1>q DEF RetryReceipt, RetryDelete, Cleanup, RequestDies
  <1>15. ASSUME NEW o \in Operators, DeleteContainer(o) PROVE Patch'
    BY <1>15, <1>q, <1>k DEF DeleteContainer
  <1>16. ASSUME NEW o \in Operators, RecordCleanup(o) PROVE Patch'
    <2>1. Kept
      BY <1>16 DEF RecordCleanup, TypeOK, Row
    <2> QED
      BY <1>16, <2>1, <1>q DEF RecordCleanup
  <1> QED
    BY <1>1, <1>2, <1>3, <1>4, <1>5, <1>6, <1>7, <1>8, <1>9, <1>10, <1>11, <1>12, <1>13, <1>14,
       <1>15, <1>16
    DEF Next, Work, Serve, Operate, RowOnly, Prepares

\* A patch on the row was uploaded in full, by the process of the last attempt: no process
\* whose lease was taken back delivers, however late it comes.
THEOREM PatchSafe == Spec => []PatchRestsOnUploads
  <1>1. Init => Patch
    <2> SUFFICES ASSUME Init PROVE Patch
      OBVIOUS
    <2>1. Leased /\ Apart
      BY Numbers DEF Init, Leased, Apart, Off, Leasing, Early
    <2>2. \A p \in Procs : Holding(proc[p]) /\ Finalizing(api[p])
      BY DEF Init, Holding, Finalizing, Off, NoHandler, Leasing, Early
    <2> QED
      BY <2>1, <2>2 DEF Init, Patch, PatchRestsOnUploads
  <1>2. Patch => PatchRestsOnUploads
    BY DEF Patch
  <1> QED
    BY <1>1, <1>2, TypeCorrect, PatchStep, PTL DEF Spec
=============================================================================
