--------------------------- MODULE CloudRunProofs ---------------------------
(***************************************************************************)
(* Proofs about CloudRun, for any number of runs, workers, handlers and    *)
(* attempts.                                                               *)
(*                                                                         *)
(* HeldWhileOpen is not inductive: a step that ends a run closes its       *)
(* reservation only if there is one, and a handler carries the run it      *)
(* works on from step to step.  Ledger adds what every handler relies on:  *)
(* the run of a handler has been submitted, a submitted run has a          *)
(* reservation, and a stored patch has been paid for.                      *)
(*                                                                         *)
(* AgentInv is the invariant of deployments that require tokens.           *)
(* OrderlyInv is that of OrderlySpec, where a submission and a sweep meet  *)
(* no handler that could end their run: it says at each step of a handler  *)
(* what the row is known to be, whatever the other handlers have written.  *)
(***************************************************************************)
EXTENDS CloudRun, TLAPS

\* A run has a reservation from the transaction that creates it.
SubmittedReserved == \A r \in Runs : run[r].status = "absent" <=> hold[r] = "none"

\* Handlers work on submitted runs only.
HandlersOnSubmitted == \A s \in Sessions : ~Idles(s) => hold[sess[s].run] # "none"

\* A lease is claimed for a remote worker, never for the local one.
LeasesClaimedRemotely == \A s \in Sessions : At(s, "claim") => sess[s].worker \in Workers

\* A stored patch was settled, by the transaction that stored it.
PatchSettled == \A r \in Runs : patches[r] > 0 => hold[r] = "settled"

\* The states of a reservation.
Holds == {"none", "reserved", "released", "settled"}

Types  == TypeOK /\ LeasesClaimedRemotely
Ledger == /\ Types
          /\ SubmittedReserved /\ HandlersOnSubmitted
          /\ HeldWhileOpen /\ OnePatchPerRun /\ PatchSettled

-----------------------------------------------------------------------------
(***************************************************************************)
(* Lemmas about the helpers.                                               *)
(***************************************************************************)

\* The handler that does nothing is a handler.
LEMMA IdleTyped == Idle \in Session /\ Idle.pc = "idle" /\ Idle.run \in Runs
<1>1. SomeRun \in Runs
  BY RunsAssumption DEF SomeRun
<1>2. NoLease \in Leases
  BY AttemptsAssumption DEF NoLease, Leases
<1>3. Absent \in Row
  BY <1>2, AttemptsAssumption DEF Absent, Row
<1> QED
  BY <1>1, <1>2, <1>3 DEF Idle, Session, Steps

\* Finish makes one handler idle and leaves the others alone.
LEMMA FinishEffect ==
  ASSUME sess \in [Sessions -> Session], NEW s \in Sessions, Finish(s)
  PROVE  /\ sess' \in [Sessions -> Session]
         /\ \A t \in Sessions : sess'[t] = IF t = s THEN Idle ELSE sess[t]
BY IdleTyped DEF Finish

\* Goto changes the step of one handler.
LEMMA GotoEffect ==
  ASSUME sess \in [Sessions -> Session], NEW s \in Sessions, NEW step \in Steps, Goto(s, step)
  PROVE  /\ sess' \in [Sessions -> Session]
         /\ \A t \in Sessions : t # s => sess'[t] = sess[t]
         /\ sess'[s].pc = step /\ sess'[s].run = sess[s].run /\ sess'[s].worker = sess[s].worker
BY DEF Goto, Session

\* A handler that goes on with the row it has just read keeps its run and worker.
LEMMA StoreEffect ==
  ASSUME sess \in [Sessions -> Session], NEW s \in Sessions, NEW step \in Steps,
         NEW row \in Row, sess' = [sess EXCEPT ![s].pc = step, ![s].saw = row]
  PROVE  /\ sess' \in [Sessions -> Session]
         /\ \A t \in Sessions : t # s => sess'[t] = sess[t]
         /\ sess'[s].pc = step /\ sess'[s].run = sess[s].run /\ sess'[s].worker = sess[s].worker
BY DEF Session

\* Begin gives one idle handler its run and worker.
LEMMA BeginEffect ==
  ASSUME sess \in [Sessions -> Session], NEW s \in Sessions, NEW step \in Steps,
         NEW r \in Runs, NEW w \in Workers \cup {Local, NoWorker}, Begin(s, step, r, w)
  PROVE  /\ sess' \in [Sessions -> Session]
         /\ \A t \in Sessions : t # s => sess'[t] = sess[t]
         /\ sess'[s].pc = step /\ sess'[s].run = r /\ sess'[s].worker = w
<1>1. Handler(step, r, w, NoLease, Absent) \in Session
  BY IdleTyped DEF Handler, Idle, Session
<1> QED
  BY <1>1 DEF Begin, Handler

\* Load does the same, and remembers the row.
LEMMA LoadEffect ==
  ASSUME sess \in [Sessions -> Session], NEW s \in Sessions, NEW step \in Steps,
         NEW r \in Runs, run[r] \in Row, NEW w \in Workers \cup {Local, NoWorker},
         NEW l \in Leases, Load(s, step, r, w, l)
  PROVE  /\ sess' \in [Sessions -> Session]
         /\ \A t \in Sessions : t # s => sess'[t] = sess[t]
         /\ sess'[s].pc = step /\ sess'[s].run = r /\ sess'[s].worker = w
<1>1. Handler(step, r, w, l, run[r]) \in Session
  BY DEF Handler, Session
<1> QED
  BY <1>1 DEF Load, Handler

\* A reservation is closed only while it is reserved.
LEMMA CloseEffect ==
  ASSUME hold \in [Runs -> {"none", "reserved", "released", "settled"}], NEW r \in Runs,
         NEW how \in {"released", "settled"}, Close(r, how)
  PROVE  /\ hold' \in [Runs -> {"none", "reserved", "released", "settled"}]
         /\ \A q \in Runs : q # r => hold'[q] = hold[q]
         /\ hold'[r] = IF hold[r] = "reserved" THEN how ELSE hold[r]
BY DEF Close

-----------------------------------------------------------------------------
(***************************************************************************)
(* Type correctness.                                                       *)
(***************************************************************************)

\* Every step keeps rows, reservations and handlers within their types.
LEMMA TypesStep == Types /\ [Next]_vars => Types'
<1> SUFFICES ASSUME Types, [Next]_vars PROVE Types'
  OBVIOUS
<1> USE AttemptsAssumption DEF Holds
<1> DEFINE Working(s) == /\ sess[s].run \in Runs /\ run[sess[s].run] \in Row
                         /\ sess[s].worker \in Workers \cup {Local, NoWorker}
                         /\ sess[s].lease \in Leases
<1>0. /\ run \in [Runs -> Row] /\ sess \in [Sessions -> Session]
      /\ hold \in [Runs -> Holds]
      /\ patches \in [Runs -> Nat] /\ handed \subseteq Runs
      /\ LeasesClaimedRemotely
  BY DEF Types, TypeOK
<1>1. \A r \in Runs : run[r] \in Row
  BY <1>0
<1>2. ASSUME NEW n \in 1 .. MaxAttempts, NEW w \in Workers 
      PROVE  <<n, w>> \in Leases /\ <<n, w>>[2] = w
  BY DEF Leases
<1>3. NoLease \in Leases /\ NoWorker \in Workers \cup {Local, NoWorker}
  BY DEF NoLease, Leases
<1>4. Absent \in Row
  BY IdleTyped DEF Idle, Session
<1>c. ASSUME NEW s \in Sessions, \A t \in Sessions : t # s => sess'[t] = sess[t],
             sess'[s].pc # "claim" \/ sess'[s].worker \in Workers
      PROVE  LeasesClaimedRemotely'
  BY <1>0, <1>c DEF LeasesClaimedRemotely, At
<1>s. ASSUME NEW s \in Sessions, NEW step \in Steps \ {"claim"}, NEW row \in Row,
             sess' = [sess EXCEPT ![s].pc = step, ![s].saw = row]
      PROVE  sess' \in [Sessions -> Session] /\ LeasesClaimedRemotely'
  <2>1. /\ sess' \in [Sessions -> Session]
        /\ \A t \in Sessions : t # s => sess'[t] = sess[t]
        /\ sess'[s].pc = step
    BY <1>0, <1>s, StoreEffect
  <2> QED
    BY <2>1, <1>c
<1>5. ASSUME NEW s \in Sessions, NEW r \in Runs, Submit(s, r) PROVE Types'
  <2>0. Working(s)
    BY <1>0 DEF Session
  <2>1. run' \in [Runs -> Row]
    BY <1>0, <2>0, <1>5 DEF Submit, Row
  <2>2. hold' \in [Runs -> Holds]
    BY <1>0, <1>5 DEF Submit
  <2>3. sess' \in [Sessions -> Session] /\ LeasesClaimedRemotely'
    <3>1. CASE sess' = sess
      BY <1>0, <3>1 DEF LeasesClaimedRemotely, At
    <3>2. CASE Begin(s, "tokenise", r, NoWorker)
      <4>1. "tokenise" \in Steps
        BY DEF Steps
      <4>2. /\ sess' \in [Sessions -> Session]
            /\ \A t \in Sessions : t # s => sess'[t] = sess[t]
            /\ sess'[s].pc = "tokenise"
        BY <1>0, <1>3, <3>2, <4>1, BeginEffect
      <4> QED
        BY <4>2, <1>c
    <3>3. sess' = sess \/ Begin(s, "tokenise", r, NoWorker)
      BY <1>5 DEF Submit
    <3> QED
      BY <3>1, <3>2, <3>3
  <2> QED
    BY <1>0, <1>5, <2>1, <2>2, <2>3 DEF Submit, Types, TypeOK
<1>6. ASSUME NEW s \in Sessions, Tokenise(s) PROVE Types'
  <2>0. Working(s)
    BY <1>0 DEF Session
  <2>1. Agent[sess[s].run] \in Workers
    BY <2>0, WorkersAssumption
  <2>2. [run[sess[s].run] EXCEPT !.worker = Agent[sess[s].run], !.token = "live"] \in Row
    BY <2>0, <2>1 DEF Row
  <2>3. run' \in [Runs -> Row]
    BY <1>0, <2>0, <2>2, <1>6 DEF Tokenise
  <2>4. sess' \in [Sessions -> Session] /\ LeasesClaimedRemotely'
    <3>1. "send" \in Steps \ {"claim"}
      BY DEF Steps
    <3>2. PICK row \in Row : sess' = [sess EXCEPT ![s].pc = "send", ![s].saw = row]
      BY <2>2, <1>6 DEF Tokenise
    <3> QED
      BY <3>1, <3>2, <1>s
  <2> QED
    BY <1>0, <1>6, <2>3, <2>4 DEF Tokenise, Types, TypeOK
<1>7. ASSUME NEW s \in Sessions, CallProvider(s) PROVE Types'
  <2>0. Working(s)
    BY <1>0 DEF Session
  <2>3. sess' \in [Sessions -> Session] /\ LeasesClaimedRemotely'
    BY <1>0, <2>0, <1>7, GotoEffect DEF CallProvider, Steps, LeasesClaimedRemotely, At
  <2> QED
    BY <1>0, <2>0, <1>7, <2>3 DEF CallProvider, Types, TypeOK
<1>8. ASSUME NEW s \in Sessions, ProviderAccepted(s) PROVE Types'
  <2>0. Working(s)
    BY <1>0 DEF Session
  <2>3. sess' \in [Sessions -> Session] /\ LeasesClaimedRemotely'
    BY <1>0, <2>0, <1>8, FinishEffect, IdleTyped
    DEF ProviderAccepted, Steps, LeasesClaimedRemotely, At
  <2> QED
    BY <1>0, <1>8, <2>3 DEF ProviderAccepted, Types, TypeOK
<1>9. ASSUME NEW s \in Sessions, ProviderFailed(s) PROVE Types'
  <2>0. Working(s)
    BY <1>0 DEF Session
  <2>1. sess[s].saw \in Row
    BY <1>0 DEF Session
  <2>2. PICK row \in Row : sess' = [sess EXCEPT ![s].pc = "withdraw", ![s].saw = row]
    BY <1>0, <2>0, <2>1, <1>9 DEF ProviderFailed
  <2>3. sess' \in [Sessions -> Session] /\ LeasesClaimedRemotely'
    <3>1. "withdraw" \in Steps \ {"claim"}
      BY DEF Steps
    <3> QED
      BY <2>2, <3>1, <1>s
  <2> QED
    BY <1>0, <1>9, <2>3 DEF ProviderFailed, Types, TypeOK
<1>10. ASSUME NEW s \in Sessions, Withdraw(s) PROVE Types'
  <2>0. Working(s)
    BY <1>0 DEF Session
  <2>1. run' \in [Runs -> Row]
    BY <1>0, <2>0, <1>10 DEF Withdraw, Row, Flushed, Terminal
  <2>2. hold' \in [Runs -> Holds]
    BY <1>0, <2>0, <1>10, CloseEffect DEF Withdraw
  <2>3. sess' \in [Sessions -> Session] /\ LeasesClaimedRemotely'
    BY <1>0, <2>0, <1>10, FinishEffect, IdleTyped DEF Withdraw, Steps, LeasesClaimedRemotely, At
  <2> QED
    BY <1>0, <1>10, <2>1, <2>2, <2>3 DEF Withdraw, Types, TypeOK
<1>11. ASSUME NEW s \in Sessions, NEW w \in Workers, NEW r \in Runs,
             SelectCandidate(s, w, r)
      PROVE  Types'
  <2>0. Working(s)
    BY <1>0 DEF Session
  <2>3. sess' \in [Sessions -> Session] /\ LeasesClaimedRemotely'
    BY <1>0, <2>0, <1>11, BeginEffect DEF SelectCandidate, Steps, LeasesClaimedRemotely, At
  <2> QED
    BY <1>0, <1>11, <2>3 DEF SelectCandidate, Types, TypeOK
<1>12. ASSUME NEW s \in Sessions, ClaimLease(s) PROVE Types'
  <2>0. Working(s)
    BY <1>0 DEF Session
  <2>1. run' \in [Runs -> Row]
    <3>1. CASE Claimable(sess[s].run)
      <4>1. sess[s].worker \in Workers
        BY <1>0, <1>12 DEF ClaimLease, LeasesClaimedRemotely, At
      <4>2. run[sess[s].run].attempts + 1 \in 1 .. MaxAttempts
        BY <2>0, <3>1 DEF Claimable, Row
      <4>3. <<run[sess[s].run].attempts + 1, sess[s].worker>> \in Leases
        BY <4>1, <4>2 DEF Leases
      <4> QED
        BY SMTT(30), <1>0, <2>0, <1>12, <3>1, <4>1, <4>2, <4>3 DEF ClaimLease, Row
    <3>2. CASE ~Claimable(sess[s].run)
      BY <1>0, <1>12, <3>2 DEF ClaimLease
    <3> QED
      BY <3>1, <3>2
  <2>3. sess' \in [Sessions -> Session] /\ LeasesClaimedRemotely'
    BY <1>0, <2>0, <1>12, FinishEffect, IdleTyped DEF ClaimLease, Steps, LeasesClaimedRemotely, At
  <2> QED
    BY <1>0, <1>12, <2>1, <2>3 DEF ClaimLease, Types, TypeOK
<1>13. ASSUME NEW s \in Sessions, NEW w \in Workers, NEW r \in Runs, NEW n \in 1 .. MaxAttempts,
             Heartbeat(s, r, <<n, w>>)
      PROVE  Types'
  <2>0. Working(s)
    BY <1>0 DEF Session
  <2>3. sess' \in [Sessions -> Session] /\ LeasesClaimedRemotely'
    BY <1>0, <2>0, <1>2, <1>13, BeginEffect DEF Heartbeat, Steps, LeasesClaimedRemotely, At
  <2> QED
    BY <1>0, <1>13, <2>3 DEF Heartbeat, Types, TypeOK
<1>14. ASSUME NEW s \in Sessions, ExtendLease(s) PROVE Types'
  <2>0. Working(s)
    BY <1>0 DEF Session
  <2>1. run' \in [Runs -> Row]
    BY <1>0, <2>0, <1>14 DEF ExtendLease, Row
  <2>3. sess' \in [Sessions -> Session] /\ LeasesClaimedRemotely'
    BY <1>0, <2>0, <1>14, FinishEffect, IdleTyped
    DEF ExtendLease, Steps, LeasesClaimedRemotely, At
  <2> QED
    BY <1>0, <1>14, <2>1, <2>3 DEF ExtendLease, Types, TypeOK
<1>15. ASSUME NEW s \in Sessions, NEW r \in Runs, Sweep(s, r) PROVE Types'
  <2>0. Working(s)
    BY <1>0 DEF Session
  <2>3. sess' \in [Sessions -> Session] /\ LeasesClaimedRemotely'
    <3>1. "sweep" \in Steps \ {"claim"}
      BY DEF Steps
    <3>2. Load(s, "sweep", r, NoWorker, NoLease)
      BY <1>15 DEF Sweep
    <3>3. /\ sess' \in [Sessions -> Session]
          /\ \A t \in Sessions : t # s => sess'[t] = sess[t]
          /\ sess'[s].pc = "sweep"
      BY <1>0, <1>1, <1>3, <3>1, <3>2, LoadEffect
    <3> QED
      BY <3>3, <1>c
  <2> QED
    BY <1>0, <1>15, <2>3 DEF Sweep, Types, TypeOK
<1>16. ASSUME NEW s \in Sessions, Requeue(s) PROVE Types'
  <2>0. Working(s)
    BY <1>0 DEF Session
  <2>1. run' \in [Runs -> Row]
    <3> DEFINE row == run[sess[s].run]
               w   == Flushed(sess[s].saw.worker, NoWorker, row.worker)
               l   == Flushed(sess[s].saw.lease, NoLease, row.lease)
    <3>1. w \in Workers \cup {Local, NoWorker} /\ l \in Leases
      BY <2>0, <1>3 DEF Flushed, Row
    <3>2. run' = [run EXCEPT ![sess[s].run].status = "queued", ![sess[s].run].worker = w,
                             ![sess[s].run].lease = l, ![sess[s].run].expires = "none"]
      BY <1>0, <1>16 DEF Requeue
    <3> HIDE DEF w, l
    <3> QED
      BY <1>0, <2>0, <3>1, <3>2 DEF Row
  <2>3. sess' \in [Sessions -> Session] /\ LeasesClaimedRemotely'
    BY <1>0, <2>0, <1>16, FinishEffect, IdleTyped DEF Requeue, Steps, LeasesClaimedRemotely, At
  <2> QED
    BY <1>0, <1>16, <2>1, <2>3 DEF Requeue, Types, TypeOK
<1>17. ASSUME NEW s \in Sessions, Exhaust(s) PROVE Types'
  <2>0. Working(s)
    BY <1>0 DEF Session
  <2>1. run' \in [Runs -> Row]
    BY <1>0, <2>0, <1>17 DEF Exhaust, Row, Terminal
  <2>2. hold' \in [Runs -> Holds]
    BY <1>0, <2>0, <1>17, CloseEffect DEF Exhaust
  <2>3. sess' \in [Sessions -> Session] /\ LeasesClaimedRemotely'
    BY <1>0, <2>0, <1>17, FinishEffect, IdleTyped DEF Exhaust, Steps, LeasesClaimedRemotely, At
  <2> QED
    BY <1>0, <1>17, <2>1, <2>2, <2>3 DEF Exhaust, Types, TypeOK
<1>18. ASSUME NEW s \in Sessions, NEW w \in Workers, NEW r \in Runs, NEW n \in 1 .. MaxAttempts,
             Complete(s, r, <<n, w>>)
      PROVE  Types'
  <2>0. Working(s)
    BY <1>0 DEF Session
  <2>3. sess' \in [Sessions -> Session] /\ LeasesClaimedRemotely'
    <3>1. Load(s, "consume", r, w, <<n, w>>)
      BY <1>18 DEF Complete
    <3>2. "consume" \in Steps
      BY DEF Steps
    <3>3. /\ sess' \in [Sessions -> Session]
          /\ \A t \in Sessions : t # s => sess'[t] = sess[t]
          /\ sess'[s].pc = "consume"
      BY <1>0, <1>1, <1>2, <3>1, <3>2, LoadEffect
    <3> QED
      BY <3>3, <1>c
  <2> QED
    BY <1>0, <1>18, <2>3 DEF Complete, Types, TypeOK
<1>19. ASSUME NEW s \in Sessions, ConsumeToken(s) PROVE Types'
  <2>0. Working(s)
    BY <1>0 DEF Session
  <2>1. run' \in [Runs -> Row]
    BY <1>0, <2>0, <1>19 DEF ConsumeToken, Row
  <2>3. sess' \in [Sessions -> Session] /\ LeasesClaimedRemotely'
    <3>1. "reload" \in Steps \ {"claim"}
      BY DEF Steps
    <3>2. sess' = [sess EXCEPT ![s].pc = "reload", ![s].saw = Absent]
      BY <1>19 DEF ConsumeToken
    <3> QED
      BY <1>4, <3>1, <3>2, <1>s
  <2> QED
    BY <1>0, <1>19, <2>1, <2>3 DEF ConsumeToken, Types, TypeOK
<1>20. ASSUME NEW s \in Sessions, NEW r \in Runs, ProcessLocally(s, r) PROVE Types'
  <2>0. Working(s)
    BY <1>0 DEF Session
  <2>3. sess' \in [Sessions -> Session] /\ LeasesClaimedRemotely'
    BY <1>0, <2>0, <1>20, BeginEffect DEF ProcessLocally, Steps, LeasesClaimedRemotely, At
  <2> QED
    BY <1>0, <1>20, <2>3 DEF ProcessLocally, Types, TypeOK
<1>21. ASSUME NEW s \in Sessions, ClaimLocally(s) PROVE Types'
  <2>0. Working(s)
    BY <1>0 DEF Session
  <2>1. run' \in [Runs -> Row]
    BY <1>0, <2>0, <1>21 DEF ClaimLocally, Row
  <2>3. sess' \in [Sessions -> Session] /\ LeasesClaimedRemotely'
    BY <1>0, <2>0, <1>21, GotoEffect, FinishEffect, IdleTyped
    DEF ClaimLocally, Steps, LeasesClaimedRemotely, At
  <2> QED
    BY <1>0, <1>21, <2>1, <2>3 DEF ClaimLocally, Types, TypeOK
<1>22. ASSUME NEW s \in Sessions, Executed(s) PROVE Types'
  <2>0. Working(s)
    BY <1>0 DEF Session
  <2>3. sess' \in [Sessions -> Session] /\ LeasesClaimedRemotely'
    BY <1>0, <2>0, <1>22, GotoEffect DEF Executed, Steps, LeasesClaimedRemotely, At
  <2> QED
    BY <1>0, <1>22, <2>3 DEF Executed, Types, TypeOK
<1>23. ASSUME NEW s \in Sessions, PreflightFailed(s) PROVE Types'
  <2>0. Working(s)
    BY <1>0 DEF Session
  <2>1. run' \in [Runs -> Row]
    BY <1>0, <2>0, <1>23 DEF PreflightFailed, Row, Terminal
  <2>2. hold' \in [Runs -> Holds]
    BY <1>0, <2>0, <1>23, CloseEffect DEF PreflightFailed
  <2>3. sess' \in [Sessions -> Session] /\ LeasesClaimedRemotely'
    BY <1>0, <2>0, <1>23, FinishEffect, IdleTyped
    DEF PreflightFailed, Steps, LeasesClaimedRemotely, At
  <2> QED
    BY <1>0, <1>23, <2>1, <2>2, <2>3 DEF PreflightFailed, Types, TypeOK
<1>24. ASSUME NEW s \in Sessions, Reload(s) PROVE Types'
  <2>0. Working(s)
    BY <1>0 DEF Session
  <2>3. CASE run[sess[s].run].cancel
    <3>1. Load(s, "discard", sess[s].run, sess[s].worker, sess[s].lease)
      BY <1>24, <2>3 DEF Reload
    <3>2. /\ sess' \in [Sessions -> Session]
          /\ \A t \in Sessions : t # s => sess'[t] = sess[t]
          /\ sess'[s].pc = "discard"
      <4>1. "discard" \in Steps
        BY DEF Steps
      <4> QED
        BY <1>0, <2>0, <3>1, <4>1, LoadEffect
    <3>3. LeasesClaimedRemotely'
      BY <1>0, <3>2 DEF LeasesClaimedRemotely, At
    <3> QED
      BY <1>0, <3>3, <1>24, <3>2 DEF Reload, Types, TypeOK
  <2>4. CASE ~run[sess[s].run].cancel
    BY <1>0, <2>0, <1>24, <2>4, GotoEffect
    DEF Reload, Steps, LeasesClaimedRemotely, At, Types, TypeOK
  <2> QED
    BY <2>3, <2>4
<1>25. ASSUME NEW s \in Sessions, NEW status \in {"patch_ready", "failed"},
             NEW withPatch \in BOOLEAN,
             Finalize(s, status, withPatch)
      PROVE  Types'
  <2>0. Working(s)
    BY <1>0 DEF Session
  <2>1. run' \in [Runs -> Row]
    BY <1>0, <2>0, <1>25 DEF Finalize, Row, Finalized, Terminal
  <2>2. hold' \in [Runs -> Holds]
    BY <1>0, <2>0, <1>25, CloseEffect DEF Finalize
  <2>3. sess' \in [Sessions -> Session] /\ LeasesClaimedRemotely'
    BY <1>0, <2>0, <1>25, FinishEffect, IdleTyped DEF Finalize, Steps, LeasesClaimedRemotely, At
  <2> QED
    BY <1>0, <1>25, <2>1, <2>2, <2>3 DEF Finalize, Types, TypeOK
<1>26. ASSUME NEW s \in Sessions, FinalizationLost(s) PROVE Types'
  <2>0. Working(s)
    BY <1>0 DEF Session
  <2>3. CASE run[sess[s].run].cancel
    <3>1. Load(s, "discard", sess[s].run, sess[s].worker, sess[s].lease)
      BY <1>26, <2>3 DEF FinalizationLost
    <3>2. /\ sess' \in [Sessions -> Session]
          /\ \A t \in Sessions : t # s => sess'[t] = sess[t]
          /\ sess'[s].pc = "discard"
      <4>1. "discard" \in Steps
        BY DEF Steps
      <4> QED
        BY <1>0, <2>0, <3>1, <4>1, LoadEffect
    <3>3. LeasesClaimedRemotely'
      BY <1>0, <3>2 DEF LeasesClaimedRemotely, At
    <3> QED
      BY <1>0, <3>3, <1>26, <3>2 DEF FinalizationLost, Types, TypeOK
  <2>4. CASE ~run[sess[s].run].cancel
    BY <1>0, <2>0, <1>26, <2>4, FinishEffect, IdleTyped
    DEF FinalizationLost, Steps, LeasesClaimedRemotely, At, Types, TypeOK
  <2> QED
    BY <2>3, <2>4
<1>27. ASSUME NEW s \in Sessions, Discard(s) PROVE Types'
  <2>0. Working(s)
    BY <1>0 DEF Session
  <2>1. run' \in [Runs -> Row]
    <3> DEFINE row == run[sess[s].run]
               st  == Flushed(sess[s].saw.status, "cancelled", row.status)
               p   == Flushed(sess[s].saw.patch, FALSE, row.patch)
               tk  == IF sess[s].saw.token \in {"live", "expired"} THEN "used" ELSE row.token
    <3>1. /\ st \in {"cancelled", row.status} /\ p \in {FALSE, row.patch}
          /\ tk \in {"used", row.token}
      BY DEF Flushed
    <3>2. run' = [run EXCEPT ![sess[s].run].status = st, ![sess[s].run].done = TRUE,
                             ![sess[s].run].patch = p, ![sess[s].run].token = tk]
      BY <1>0, <1>27 DEF Discard
    <3> HIDE DEF st, p, tk
    <3> QED
      BY ZenonT(60), <1>0, <2>0, <3>1, <3>2 DEF Row, Terminal
  <2>2. hold' \in [Runs -> Holds]
    BY <1>0, <2>0, <1>27, CloseEffect DEF Discard
  <2>3. sess' \in [Sessions -> Session] /\ LeasesClaimedRemotely'
    BY <1>0, <2>0, <1>27, FinishEffect, IdleTyped DEF Discard, Steps, LeasesClaimedRemotely, At
  <2> QED
    BY <1>0, <1>27, <2>1, <2>2, <2>3 DEF Discard, Types, TypeOK
<1>28. ASSUME NEW s \in Sessions, NEW r \in Runs, Cancel(s, r) PROVE Types'
  <2>0. Working(s)
    BY <1>0 DEF Session
  <2>3. sess' \in [Sessions -> Session] /\ LeasesClaimedRemotely'
    BY <1>0, <2>0, <1>28, BeginEffect DEF Cancel, Steps, LeasesClaimedRemotely, At
  <2> QED
    BY <1>0, <1>28, <2>3 DEF Cancel, Types, TypeOK
<1>29. ASSUME NEW s \in Sessions, CancelQueued(s) PROVE Types'
  <2>0. Working(s)
    BY <1>0 DEF Session
  <2>1. run' \in [Runs -> Row]
    BY <1>0, <2>0, <1>29 DEF CancelQueued, Row, Terminal
  <2>2. hold' \in [Runs -> Holds]
    BY <1>0, <2>0, <1>29, CloseEffect DEF CancelQueued
  <2>3. sess' \in [Sessions -> Session] /\ LeasesClaimedRemotely'
    BY <1>0, <2>0, <1>29, FinishEffect, IdleTyped
    DEF CancelQueued, Steps, LeasesClaimedRemotely, At
  <2> QED
    BY <1>0, <1>29, <2>1, <2>2, <2>3 DEF CancelQueued, Types, TypeOK
<1>30. ASSUME NEW s \in Sessions, CancelLostRace(s) PROVE Types'
  <2>0. Working(s)
    BY <1>0 DEF Session
  <2>3. sess' \in [Sessions -> Session] /\ LeasesClaimedRemotely'
    BY <1>0, <2>0, <1>30, GotoEffect, FinishEffect, IdleTyped
    DEF CancelLostRace, Steps, LeasesClaimedRemotely, At
  <2> QED
    BY <1>0, <1>30, <2>3 DEF CancelLostRace, Types, TypeOK
<1>31. ASSUME NEW s \in Sessions, CancelRunning(s) PROVE Types'
  <2>0. Working(s)
    BY <1>0 DEF Session
  <2>1. run' \in [Runs -> Row]
    BY <1>0, <2>0, <1>31 DEF CancelRunning, Row
  <2>3. sess' \in [Sessions -> Session] /\ LeasesClaimedRemotely'
    BY <1>0, <2>0, <1>31, FinishEffect, IdleTyped
    DEF CancelRunning, Steps, LeasesClaimedRemotely, At
  <2> QED
    BY <1>0, <1>31, <2>1, <2>3 DEF CancelRunning, Types, TypeOK
<1>32. ASSUME NEW s \in Sessions, Abort(s) PROVE Types'
  <2>0. Working(s)
    BY <1>0 DEF Session
  <2>3. sess' \in [Sessions -> Session] /\ LeasesClaimedRemotely'
    BY <1>0, <2>0, <1>32, FinishEffect, IdleTyped DEF Abort, Steps, LeasesClaimedRemotely, At
  <2> QED
    BY <1>0, <1>32, <2>3 DEF Abort, Types, TypeOK
<1>33. ASSUME NEW r \in Runs, LeaseExpires(r) PROVE Types'
  <2>1. run' \in [Runs -> Row]
    BY <1>0, <1>33 DEF LeaseExpires, Row
  <2> QED
    BY <1>0, <1>33, <2>1 DEF LeaseExpires, Types, TypeOK, LeasesClaimedRemotely, At
<1>34. ASSUME NEW r \in Runs, TokenExpires(r) PROVE Types'
  <2>1. run' \in [Runs -> Row]
    BY <1>0, <1>34 DEF TokenExpires, Row
  <2> QED
    BY <1>0, <1>34, <2>1 DEF TokenExpires, Types, TypeOK, LeasesClaimedRemotely, At
<1>35. ASSUME UNCHANGED vars PROVE Types'
  BY <1>35 DEF vars, Types, TypeOK, LeasesClaimedRemotely, At
<1> QED
  BY <1>5, <1>6, <1>7, <1>8, <1>9, <1>10, <1>11, <1>12, <1>13, <1>14, <1>15, <1>16, <1>17, <1>18, <1>19,
     <1>20, <1>21, <1>22, <1>23, <1>24, <1>25, <1>26, <1>27, <1>28, <1>29, <1>30, <1>31, <1>32, <1>33, <1>34, <1>35
  DEF Next, Enqueueing, Leasing, Sweeping, LocalWorking, Finalizing, Cancelling

-----------------------------------------------------------------------------
(***************************************************************************)
(* What a step can do to the books.  Whatever handler takes it, a step either    *)
(* leaves reservations, patches and completed_at alone, or submits one     *)
(* run, or ends one run, or publishes the patch of one run.                *)
(***************************************************************************)
Cancelled == [q \in Runs |-> run[q].cancel]
Cancels(r) == Cancelled' = [Cancelled EXCEPT ![r] = TRUE]

Untouched(q) == /\ run'[q].done = run[q].done
                /\ run'[q].status = "absent" <=> run[q].status = "absent"
                /\ run'[q].status \in Terminal => run[q].status \in Terminal

Keeps == /\ hold' = hold /\ patches' = patches
         /\ \A q \in Runs : Untouched(q)
         /\ \/ Cancelled' = Cancelled
            \/ \E r \in Runs : hold[r] # "none" /\ Cancels(r)

Opens(r) == /\ hold[r] = "none"
            /\ hold' = [hold EXCEPT ![r] = "reserved"] /\ patches' = patches
            /\ run'[r].status = "queued" /\ run'[r].done = run[r].done
            /\ \A q \in Runs : q # r => Untouched(q)
            /\ Cancelled' = Cancelled

Ends(r, how) == /\ hold[r] # "none"
                /\ Close(r, how) /\ patches' = patches
                /\ run'[r].done /\ run'[r].status # "absent"
                /\ \A q \in Runs : q # r => Untouched(q)
                /\ Cancelled' = Cancelled \/ Cancels(r)

Publishes(r) == /\ hold[r] # "none" /\ ~run[r].done /\ ~run[r].cancel
                /\ Close(r, "settled") /\ patches' = [patches EXCEPT ![r] = @ + 1]
                /\ run'[r].done /\ run'[r].status # "absent"
                /\ \A q \in Runs : q # r => Untouched(q)
                /\ Cancelled' = Cancelled

Effect == \/ Keeps
          \/ \E r \in Runs : \/ Opens(r) \/ Publishes(r)
                             \/ Ends(r, "settled") \/ Ends(r, "released")

\* Every handler's step is one of these.
LEMMA StepEffect ==
  ASSUME Types, SubmittedReserved, HandlersOnSubmitted, [Next]_vars
  PROVE  Effect
<1>0. /\ run \in [Runs -> Row] /\ hold \in [Runs -> Holds] /\ patches \in [Runs -> Nat]
  BY DEF Types, TypeOK, Holds
<1>1. ASSUME UNCHANGED <<run, hold, patches>> PROVE Effect
  BY <1>1 DEF Effect, Keeps, Untouched, Cancelled
<1>2. ASSUME NEW s \in Sessions, ~Idles(s)
      PROVE  sess[s].run \in Runs /\ hold[sess[s].run] # "none" /\ run[sess[s].run].status # "absent"
  BY <1>2 DEF HandlersOnSubmitted, SubmittedReserved, Types, TypeOK, Session
<1>3. ASSUME NEW s \in Sessions, NEW r \in Runs, Submit(s, r) PROVE Effect
  <2>1. Opens(r)
    BY <1>0, <1>3 DEF Submit, SubmittedReserved, Opens, Untouched, Row, Cancelled
  <2> QED
    BY <2>1 DEF Effect
<1>4. ASSUME NEW s \in Sessions, Tokenise(s) PROVE Effect
  <2>1. sess[s].run \in Runs /\ hold[sess[s].run] # "none" /\ run[sess[s].run].status # "absent"
    BY <1>2, <1>4 DEF Tokenise, At, Idles
  <2>2. Keeps
    BY <1>0, <1>4, <2>1 DEF Tokenise, Untouched, Terminal, Row, Keeps, Cancelled, Cancels
  <2> QED
    BY <2>1, <2>2 DEF Effect
<1>5. ASSUME NEW s \in Sessions, ClaimLease(s) PROVE Effect
  <2>1. sess[s].run \in Runs /\ hold[sess[s].run] # "none" /\ run[sess[s].run].status # "absent"
    BY <1>2, <1>5 DEF ClaimLease, At, Idles
  <2>2. CASE Claimable(sess[s].run)
    <3>1. /\ \A q \in Runs : run'[q].done = run[q].done /\ run'[q].cancel = run[q].cancel
          /\ \A q \in Runs : q # sess[s].run => run'[q].status = run[q].status
          /\ run'[sess[s].run].status = "running"
      <4>1. run[sess[s].run] \in Row
        BY <1>0, <2>1
      <4>2. \A q \in Runs : q # sess[s].run => run'[q] = run[q]
        BY <1>0, <1>5, <2>1, <2>2 DEF ClaimLease
      <4>a. PICK w, l, n : run' = [run EXCEPT ![sess[s].run].status = "running",
                ![sess[s].run].worker = w, ![sess[s].run].lease = l,
                ![sess[s].run].expires = "live", ![sess[s].run].attempts = n]
        <5> DEFINE n == run[sess[s].run].attempts + 1
                   l == <<n, sess[s].worker>>
        <5>1. run' = [run EXCEPT ![sess[s].run].status = "running",
                ![sess[s].run].worker = sess[s].worker, ![sess[s].run].lease = l,
                ![sess[s].run].expires = "live", ![sess[s].run].attempts = n]
          BY <1>0, <1>5, <2>1, <2>2, <4>1 DEF ClaimLease, Row
        <5> HIDE DEF n, l
        <5> QED
          BY <5>1
      <4>3. run'[sess[s].run].status = "running"
        BY <1>0, <2>1, <4>1, <4>a DEF Row
      <4>4. run'[sess[s].run].done = run[sess[s].run].done
        BY <1>0, <2>1, <4>1, <4>a DEF Row
      <4>5. run'[sess[s].run].cancel = run[sess[s].run].cancel
        BY <1>0, <2>1, <4>1, <4>a DEF Row
      <4> QED
        BY <4>2, <4>3, <4>4, <4>5
    <3>2. UNCHANGED <<hold, patches>>
      BY <1>5 DEF ClaimLease
    <3> QED
      BY <2>1, <3>1, <3>2 DEF Effect, Keeps, Untouched, Cancelled, Terminal
  <2>3. CASE ~Claimable(sess[s].run)
    BY <1>1, <1>5, <2>3 DEF ClaimLease
  <2> QED
    BY <2>2, <2>3
<1>6. ASSUME NEW s \in Sessions, ExtendLease(s) PROVE Effect
  <2>1. sess[s].run \in Runs /\ hold[sess[s].run] # "none" /\ run[sess[s].run].status # "absent"
    BY <1>2, <1>6 DEF ExtendLease, At, Idles
  <2>2. Keeps
    BY <1>0, <1>6, <2>1 DEF ExtendLease, Untouched, Terminal, Row, Keeps, Cancelled, Cancels
  <2> QED
    BY <2>1, <2>2 DEF Effect
<1>7. ASSUME NEW s \in Sessions, Requeue(s) PROVE Effect
  <2>1. sess[s].run \in Runs /\ hold[sess[s].run] # "none" /\ run[sess[s].run].status # "absent"
    BY <1>2, <1>7 DEF Requeue, At, Idles
  <2>2. /\ \A q \in Runs : run'[q].done = run[q].done /\ run'[q].cancel = run[q].cancel
        /\ \A q \in Runs : q # sess[s].run => run'[q].status = run[q].status
        /\ run'[sess[s].run].status = "queued"
    <3>1. run[sess[s].run] \in Row
      BY SMTT(30), <1>0, <2>1
    <3>2. /\ \A q \in Runs \ {sess[s].run} : run'[q] = run[q]
          /\ run'[sess[s].run].status = "queued"
          /\ run'[sess[s].run].done = run[sess[s].run].done
          /\ run'[sess[s].run].cancel = run[sess[s].run].cancel
      <4> DEFINE w == Flushed(sess[s].saw.worker, NoWorker, run[sess[s].run].worker)
                 l == Flushed(sess[s].saw.lease, NoLease, run[sess[s].run].lease)
      <4>1. run' = [run EXCEPT ![sess[s].run].status = "queued", ![sess[s].run].worker = w,
                               ![sess[s].run].lease = l, ![sess[s].run].expires = "none"]
        BY <1>0, <1>7 DEF Requeue
      <4> HIDE DEF w, l
      <4> QED
        BY <1>0, <2>1, <3>1, <4>1 DEF Row
    <3> QED
      BY <3>2
  <2>3. UNCHANGED <<hold, patches>>
    BY <1>7 DEF Requeue
  <2>4. Keeps
    BY <2>1, <2>2, <2>3 DEF Keeps, Untouched, Cancelled, Terminal
  <2> QED
    BY <2>4 DEF Effect
<1>8. ASSUME NEW s \in Sessions, ConsumeToken(s) PROVE Effect
  <2>1. sess[s].run \in Runs /\ hold[sess[s].run] # "none" /\ run[sess[s].run].status # "absent"
    BY <1>2, <1>8 DEF ConsumeToken, At, Idles
  <2>2. Keeps
    BY <1>0, <1>8, <2>1 DEF ConsumeToken, Untouched, Terminal, Row, Keeps, Cancelled, Cancels
  <2> QED
    BY <2>1, <2>2 DEF Effect
<1>9. ASSUME NEW s \in Sessions, ClaimLocally(s) PROVE Effect
  <2>1. sess[s].run \in Runs /\ hold[sess[s].run] # "none" /\ run[sess[s].run].status # "absent"
    BY <1>2, <1>9 DEF ClaimLocally, At, Idles
  <2>2. CASE run[sess[s].run].status = "queued"
    <3>1. /\ \A q \in Runs : run'[q].done = run[q].done /\ run'[q].cancel = run[q].cancel
          /\ \A q \in Runs : q # sess[s].run => run'[q].status = run[q].status
          /\ run'[sess[s].run].status = "running"
      BY <1>0, <1>9, <2>1, <2>2 DEF ClaimLocally, Row
    <3>2. UNCHANGED <<hold, patches>>
      BY <1>9 DEF ClaimLocally
    <3> QED
      BY <2>1, <3>1, <3>2 DEF Effect, Keeps, Untouched, Cancelled, Terminal
  <2>3. CASE ~(run[sess[s].run].status = "queued")
    BY <1>1, <1>9, <2>3 DEF ClaimLocally
  <2> QED
    BY <2>2, <2>3
<1>10. ASSUME NEW s \in Sessions, CancelRunning(s) PROVE Effect
  <2>1. sess[s].run \in Runs /\ hold[sess[s].run] # "none" /\ run[sess[s].run].status # "absent"
    BY <1>2, <1>10 DEF CancelRunning, At, Idles
  <2>2. /\ \A q \in Runs : run'[q].done = run[q].done /\ run'[q].status = run[q].status
        /\ \A q \in Runs : q # sess[s].run => run'[q].cancel = run[q].cancel
        /\ run'[sess[s].run].cancel \in {TRUE, run[sess[s].run].cancel}
    <3>1. PICK c \in {TRUE, run[sess[s].run].cancel} :
                 run' = [run EXCEPT ![sess[s].run].cancel = c]
      <4>1. run[sess[s].run] \in Row
        BY <1>0, <2>1
      <4> QED
        BY <1>0, <1>10, <4>1 DEF CancelRunning, Row
    <3>2. \A q \in Runs \ {sess[s].run} : run'[q] = run[q]
      BY <1>0, <3>1
    <3>3. /\ run'[sess[s].run].status = run[sess[s].run].status
          /\ run'[sess[s].run].done = run[sess[s].run].done
          /\ run'[sess[s].run].cancel = c
      BY <1>0, <2>1, <3>1 DEF Row
    <3> QED
      BY <3>2, <3>3
  <2>3. UNCHANGED <<hold, patches>>
    BY <1>10 DEF CancelRunning
  <2>4. Cancelled' = Cancelled \/ Cancels(sess[s].run)
    BY <2>1, <2>2 DEF Cancelled, Cancels
  <2> QED
    BY <2>1, <2>2, <2>3, <2>4 DEF Effect, Keeps, Untouched
<1>11. ASSUME NEW s \in Sessions, Withdraw(s) PROVE Effect
  <2>1. sess[s].run \in Runs /\ hold[sess[s].run] # "none" /\ run[sess[s].run].status # "absent"
    BY <1>2, <1>11 DEF Withdraw, At, Idles
  <2>2. Ends(sess[s].run, "settled") \/ Ends(sess[s].run, "released")
    <3>1. PICK st \in {"failed", run[sess[s].run].status} :
                 run' = [run EXCEPT ![sess[s].run].status = st, ![sess[s].run].done = TRUE]
      BY <1>0, <1>11 DEF Withdraw, Flushed
    <3>2. \A q \in Runs \ {sess[s].run} : run'[q] = run[q]
      BY <1>0, <3>1
    <3>3. run'[sess[s].run].done /\ run'[sess[s].run].status = st
          /\ run'[sess[s].run].cancel = run[sess[s].run].cancel
      BY <1>0, <2>1, <3>1 DEF Row
    <3>4. Cancelled' = Cancelled
      BY <3>2, <3>3 DEF Cancelled
    <3>5. \A q \in Runs : q # sess[s].run => Untouched(q)
      BY <3>2 DEF Untouched
    <3>6. /\ Close(sess[s].run, "settled") \/ Close(sess[s].run, "released")
          /\ patches' = patches
      BY <1>11 DEF Withdraw
    <3> QED
      BY <2>1, <3>3, <3>4, <3>5, <3>6 DEF Ends
  <2> QED
    BY <2>1, <2>2 DEF Effect
<1>12. ASSUME NEW s \in Sessions, Exhaust(s) PROVE Effect
  <2>1. sess[s].run \in Runs /\ hold[sess[s].run] # "none" /\ run[sess[s].run].status # "absent"
    BY <1>2, <1>12 DEF Exhaust, At, Idles
  <2>2. Ends(sess[s].run, "settled")
    BY <1>0, <1>12, <2>1 DEF Exhaust, Untouched, Terminal, Row, Ends, Cancelled, Cancels
  <2> QED
    BY <2>1, <2>2 DEF Effect
<1>13. ASSUME NEW s \in Sessions, PreflightFailed(s) PROVE Effect
  <2>1. sess[s].run \in Runs /\ hold[sess[s].run] # "none" /\ run[sess[s].run].status # "absent"
    BY <1>2, <1>13 DEF PreflightFailed, At, Idles
  <2>2. Ends(sess[s].run, "settled")
    BY <1>0, <1>13, <2>1 DEF PreflightFailed, Untouched, Terminal, Row, Ends, Cancelled, Cancels
  <2> QED
    BY <2>1, <2>2 DEF Effect
<1>14. ASSUME NEW s \in Sessions, Discard(s) PROVE Effect
  <2>1. sess[s].run \in Runs /\ hold[sess[s].run] # "none" /\ run[sess[s].run].status # "absent"
    BY <1>2, <1>14 DEF Discard, At, Idles
  <2>2. /\ \A q \in Runs : q # sess[s].run => run'[q] = run[q]
        /\ run'[sess[s].run].done /\ run'[sess[s].run].status # "absent"
        /\ run'[sess[s].run].cancel \in {TRUE, run[sess[s].run].cancel}
    <3>1. \A q \in Runs : q # sess[s].run => run'[q] = run[q]
      BY <1>0, <1>14, <2>1 DEF Discard
    <3>0. run[sess[s].run] \in Row
      BY <1>0, <2>1
    <3> DEFINE r  == sess[s].run
               st == Flushed(sess[s].saw.status, "cancelled", run[r].status)
               pa == Flushed(sess[s].saw.patch, FALSE, run[r].patch)
               to == IF sess[s].saw.token \in {"live", "expired"} THEN "used" ELSE run[r].token
    <3>a. st \in {"cancelled", run[r].status}
      BY DEF Flushed
    <3>b. run' = [run EXCEPT ![r].status = st, ![r].done = TRUE, ![r].patch = pa, ![r].token = to]
      BY <1>0, <1>14, <2>1, <3>0 DEF Discard, Row
    <3> HIDE DEF st, pa, to
    <3>2. run'[sess[s].run].done
      BY <1>0, <2>1, <3>0, <3>a, <3>b DEF Row
    <3>3. run'[sess[s].run].status # "absent"
      BY <1>0, <2>1, <3>0, <3>a, <3>b DEF Row
    <3>4. run'[sess[s].run].cancel = run[sess[s].run].cancel
      BY <1>0, <2>1, <3>0, <3>a, <3>b DEF Row
    <3> QED
      BY <3>1, <3>2, <3>3, <3>4
  <2>3. Close(sess[s].run, "settled") /\ patches' = patches
    BY <1>14 DEF Discard
  <2>4. Cancelled' = Cancelled \/ Cancels(sess[s].run)
    BY <2>1, <2>2 DEF Cancelled, Cancels
  <2>5. Ends(sess[s].run, "settled")
    BY <2>1, <2>2, <2>3, <2>4 DEF Ends, Untouched
  <2> QED
    BY <2>1, <2>5 DEF Effect
<1>15. ASSUME NEW s \in Sessions, CancelQueued(s) PROVE Effect
  <2>1. sess[s].run \in Runs /\ hold[sess[s].run] # "none" /\ run[sess[s].run].status # "absent"
    BY <1>2, <1>15 DEF CancelQueued, At, Idles
  <2>2. /\ \A q \in Runs : q # sess[s].run => run'[q] = run[q]
        /\ run'[sess[s].run].done /\ run'[sess[s].run].status # "absent"
        /\ run'[sess[s].run].cancel \in {TRUE, run[sess[s].run].cancel}
    <3>1. \A q \in Runs : q # sess[s].run => run'[q] = run[q]
      BY <1>0, <1>15, <2>1 DEF CancelQueued
    <3>2. run'[sess[s].run].done
      BY <1>0, <1>15, <2>1 DEF CancelQueued, Row
    <3>3. run'[sess[s].run].status # "absent"
      BY <1>0, <1>15, <2>1 DEF CancelQueued, Row
    <3>4. run'[sess[s].run].cancel = TRUE
      BY <1>0, <1>15, <2>1 DEF CancelQueued, Row
    <3> QED
      BY <3>1, <3>2, <3>3, <3>4
  <2>3. Close(sess[s].run, "released") /\ patches' = patches
    BY <1>15 DEF CancelQueued
  <2>4. Cancelled' = Cancelled \/ Cancels(sess[s].run)
    BY <2>1, <2>2 DEF Cancelled, Cancels
  <2>5. Ends(sess[s].run, "released")
    BY <2>1, <2>2, <2>3, <2>4 DEF Ends, Untouched
  <2> QED
    BY <2>1, <2>5 DEF Effect
<1>16. ASSUME NEW s \in Sessions, NEW status \in {"patch_ready", "failed"},
             NEW withPatch \in BOOLEAN, Finalize(s, status, withPatch)
      PROVE  Effect
  <2>1. sess[s].run \in Runs /\ hold[sess[s].run] # "none" /\ run[sess[s].run].status # "absent"
    BY <1>2, <1>16 DEF Finalize, At, Idles
  <2>2. CASE withPatch
    <3>1. Publishes(sess[s].run)
      BY <1>0, <1>16, <2>1, <2>2
      DEF Finalize, Finalizable, Finalized, Publishes, Untouched, Row, Cancelled
    <3> QED
      BY <2>1, <3>1 DEF Effect
  <2>3. CASE ~withPatch
    <3>1. Ends(sess[s].run, "settled")
      BY <1>0, <1>16, <2>1, <2>3
      DEF Finalize, Finalizable, Finalized, Ends, Untouched, Row, Cancelled
    <3> QED
      BY <2>1, <3>1 DEF Effect
  <2> QED
    BY <2>2, <2>3
<1>17. ASSUME NEW r \in Runs, LeaseExpires(r) PROVE Effect
  <2>1. Keeps
    BY <1>0, <1>17 DEF LeaseExpires, Keeps, Untouched, Row, Cancelled
  <2> QED
    BY <2>1 DEF Effect
<1>18. ASSUME NEW r \in Runs, TokenExpires(r) PROVE Effect
  <2>1. Keeps
    BY <1>0, <1>18 DEF TokenExpires, Keeps, Untouched, Row, Cancelled
  <2> QED
    BY <2>1 DEF Effect
<1>19. CASE UNCHANGED vars
  BY <1>1, <1>19 DEF vars
<1>20. ASSUME NEW s \in Sessions,
             \/ CallProvider(s) \/ ProviderAccepted(s) \/ ProviderFailed(s)
             \/ Executed(s) \/ Reload(s) \/ FinalizationLost(s) \/ CancelLostRace(s) \/ Abort(s)
             \/ \E r \in Runs : Sweep(s, r) \/ ProcessLocally(s, r) \/ Cancel(s, r)
             \/ \E r \in Runs, w \in Workers : SelectCandidate(s, w, r)
             \/ \E r \in Runs, w \in Workers, n \in 1 .. MaxAttempts :
                  Heartbeat(s, r, <<n, w>>) \/ Complete(s, r, <<n, w>>)
      PROVE  Effect
  <2>1. UNCHANGED <<run, hold, patches>>
    BY <1>20
    DEF CallProvider, ProviderAccepted, ProviderFailed, Executed, Reload, FinalizationLost,
      CancelLostRace, Abort, Sweep, ProcessLocally, Cancel, SelectCandidate, Heartbeat, Complete
  <2> QED
    BY <1>1, <2>1
<1> QED
  BY <1>3, <1>4, <1>5, <1>6, <1>7, <1>8, <1>9, <1>10, <1>11, <1>12, <1>13, <1>14, <1>15, <1>16, <1>17, <1>18, <1>19, <1>20
  DEF Next, Enqueueing, Leasing, Sweeping, LocalWorking, Finalizing, Cancelling

\* A reservation, once there, stays on the books.
LEMMA ReservationStays ==
  ASSUME Types, Effect, NEW r \in Runs, hold[r] # "none"
  PROVE  hold'[r] # "none"
BY CloseEffect DEF Types, TypeOK, Effect, Keeps, Opens, Ends, Publishes

\* A handler starts on a submitted run and stays with it.
LEMMA HandlersStep ==
  ASSUME Types, SubmittedReserved, HandlersOnSubmitted, [Next]_vars
  PROVE  HandlersOnSubmitted'
<1>0. sess \in [Sessions -> Session] /\ \A r \in Runs : run[r] \in Row
  BY DEF Types, TypeOK
<1>1. \A r \in Runs : hold[r] # "none" => hold'[r] # "none"
  BY StepEffect, ReservationStays
<1>2. ASSUME NEW s \in Sessions, \A t \in Sessions : t # s => sess'[t] = sess[t],
             \/ sess'[s].pc = "idle"
             \/ ~Idles(s) /\ sess'[s].run = sess[s].run
             \/ sess'[s].run \in Runs /\ hold'[sess'[s].run] # "none"
      PROVE  HandlersOnSubmitted'
  BY <1>0, <1>1, <1>2 DEF HandlersOnSubmitted, Idles, At, Session
<1>3. ASSUME NEW s \in Sessions, Finish(s) PROVE HandlersOnSubmitted'
  <2>1. sess'[s].pc = "idle" /\ \A t \in Sessions : t # s => sess'[t] = sess[t]
    BY <1>0, <1>3, FinishEffect, IdleTyped
  <2> QED
    BY <1>2, <2>1
<1>4. ASSUME NEW s \in Sessions, ~Idles(s), NEW step \in Steps, Goto(s, step)
      PROVE  HandlersOnSubmitted'
  <2>1. sess'[s].run = sess[s].run /\ \A t \in Sessions : t # s => sess'[t] = sess[t]
    BY <1>0, <1>4, GotoEffect
  <2> QED
    BY <1>2, <1>4, <2>1
<1>5. ASSUME NEW s \in Sessions, NEW r \in Runs, hold'[r] # "none", NEW step \in Steps,
             NEW w \in Workers \cup {Local, NoWorker}, Begin(s, step, r, w)
      PROVE  HandlersOnSubmitted'
  <2>1. sess'[s].run = r /\ \A t \in Sessions : t # s => sess'[t] = sess[t]
    BY <1>0, <1>5, BeginEffect
  <2> QED
    BY <1>2, <1>5, <2>1
<1>6. ASSUME NEW s \in Sessions, NEW r \in Runs, hold'[r] # "none", NEW step \in Steps,
             NEW w \in Workers \cup {Local, NoWorker}, NEW l \in Leases, Load(s, step, r, w, l)
      PROVE  HandlersOnSubmitted'
  <2>0. sess \in [Sessions -> Session] /\ run[r] \in Row
    BY <1>0
  <2>1. sess'[s].run = r /\ \A t \in Sessions : t # s => sess'[t] = sess[t]
    <3>1. Load(s, step, r, w, l)
      BY <1>6
    <3>2. ASSUME NEW x \in Leases PROVE Handler(step, r, w, x, run[r]) \in Session
      BY <2>0 DEF Handler, Session
    <3> QED
      BY <2>0, <3>1, <3>2 DEF Load, Handler
  <2> QED
    BY <1>2, <1>6, <2>1
<1>7. \A r \in Runs : run[r].status # "absent" => hold'[r] # "none"
  BY <1>1 DEF SubmittedReserved
<1>8. ASSUME NEW s \in Sessions,
             \/ ProviderAccepted(s) \/ Withdraw(s) \/ ClaimLease(s) \/ ExtendLease(s) \/ Requeue(s)
             \/ Exhaust(s) \/ PreflightFailed(s) \/ Discard(s) \/ CancelQueued(s)
             \/ CancelRunning(s) \/ Abort(s)
             \/ \E status \in {"patch_ready", "failed"}, withPatch \in BOOLEAN :
                  Finalize(s, status, withPatch)
      PROVE  HandlersOnSubmitted'
  <2>1. Finish(s)
    BY <1>8, ZenonT(60)
    DEF ProviderAccepted, Withdraw, ClaimLease, ExtendLease, Requeue, Exhaust, PreflightFailed,
      Discard, CancelQueued, CancelRunning, Abort, Finalize
  <2> QED
    BY <1>3, <2>1
<1>9. ASSUME NEW s \in Sessions, NEW r \in Runs, Submit(s, r) PROVE HandlersOnSubmitted'
  <2>1. hold'[r] # "none"
    BY <1>9 DEF Submit, Types, TypeOK
  <2>2. CASE r \in Protected
    BY <1>5, <1>9, <2>1, <2>2 DEF Submit, Steps
  <2>3. CASE r \notin Protected
    BY <1>1, <1>9, <2>3 DEF Submit, HandlersOnSubmitted, Idles, At, Types, TypeOK, Session
  <2> QED
    BY <2>2, <2>3
<1>10. ASSUME NEW s \in Sessions, Tokenise(s) \/ ProviderFailed(s) \/ ConsumeToken(s)
       PROVE  HandlersOnSubmitted'
  <2>1. ~Idles(s)
    BY <1>10 DEF Tokenise, ProviderFailed, ConsumeToken, Idles, At
  <2>2. sess'[s].run = sess[s].run /\ \A t \in Sessions : t # s => sess'[t] = sess[t]
    BY <1>0, <1>10 DEF Tokenise, ProviderFailed, ConsumeToken, Session
  <2> QED
    BY <1>2, <2>1, <2>2
<1>11. ASSUME NEW s \in Sessions, CallProvider(s) \/ Executed(s) PROVE HandlersOnSubmitted'
  BY <1>4, <1>11 DEF CallProvider, Executed, Steps, Idles, At
<1>12. ASSUME NEW s \in Sessions, ClaimLocally(s) \/ CancelLostRace(s) PROVE HandlersOnSubmitted'
  <2>1. ~Idles(s)
    BY <1>12 DEF ClaimLocally, CancelLostRace, Idles, At
  <2>2. Finish(s) \/ Goto(s, "execute") \/ Goto(s, "cancel_running")
    BY <1>12 DEF ClaimLocally, CancelLostRace
  <2>3. {"execute", "cancel_running"} \subseteq Steps
    BY DEF Steps
  <2> QED
    BY <1>3, <1>4, <2>1, <2>2, <2>3
<1>13. ASSUME NEW s \in Sessions, Reload(s) \/ FinalizationLost(s) PROVE HandlersOnSubmitted'
  <2>1. ~Idles(s) /\ sess[s].run \in Runs /\ sess[s].lease \in Leases
        /\ sess[s].worker \in Workers \cup {Local, NoWorker}
    BY <1>0, <1>13 DEF Reload, FinalizationLost, Idles, At, Session
  <2>2. \/ Finish(s) \/ Goto(s, "finalize")
        \/ Load(s, "discard", sess[s].run, sess[s].worker, sess[s].lease)
    BY <1>13 DEF Reload, FinalizationLost
  <2>3. hold'[sess[s].run] # "none"
    BY <1>1, <2>1 DEF HandlersOnSubmitted
  <2>4. {"finalize", "discard"} \subseteq Steps
    BY DEF Steps
  <2> QED
    BY <1>3, <1>4, <1>6, <2>1, <2>2, <2>3, <2>4
<1>14. ASSUME NEW s \in Sessions, NEW r \in Runs,
              \/ Sweep(s, r) \/ ProcessLocally(s, r) \/ Cancel(s, r)
              \/ \E w \in Workers : SelectCandidate(s, w, r)
              \/ \E w \in Workers, n \in 1 .. MaxAttempts :
                   Heartbeat(s, r, <<n, w>>) \/ Complete(s, r, <<n, w>>)
       PROVE  HandlersOnSubmitted'
  <2>1. hold'[r] # "none"
    BY <1>7, <1>14 DEF Sweep, ProcessLocally, Cancel, SelectCandidate, Heartbeat, Complete,
      Claimable, LeaseIsCurrent
  <2>2. NoLease \in Leases /\ \A w \in Workers, n \in 1 .. MaxAttempts : <<n, w>> \in Leases
    BY AttemptsAssumption DEF NoLease, Leases
  <2>3. CASE Sweep(s, r)
    BY <1>6, <2>1, <2>2, <2>3 DEF Sweep, Steps
  <2>4. CASE ProcessLocally(s, r) \/ Cancel(s, r)
    BY <1>5, <2>1, <2>4 DEF ProcessLocally, Cancel, Steps
  <2>5. ASSUME NEW w \in Workers, SelectCandidate(s, w, r) PROVE HandlersOnSubmitted'
    BY <1>5, <2>1, <2>5 DEF SelectCandidate, Steps
  <2>6. ASSUME NEW w \in Workers, NEW n \in 1 .. MaxAttempts, Heartbeat(s, r, <<n, w>>)
        PROVE  HandlersOnSubmitted'
    BY <1>5, <2>1, <2>6 DEF Heartbeat, Steps
  <2>7. ASSUME NEW w \in Workers, NEW n \in 1 .. MaxAttempts, Complete(s, r, <<n, w>>)
        PROVE  HandlersOnSubmitted'
    BY <1>6, <2>1, <2>2, <2>7 DEF Complete, Steps
  <2> QED
    BY <1>14, <2>3, <2>4, <2>5, <2>6, <2>7
<1>15. CASE UNCHANGED sess
  BY <1>1, <1>15 DEF HandlersOnSubmitted, Idles, At, Types, TypeOK, Session
<1> QED
  BY <1>8, <1>9, <1>10, <1>11, <1>12, <1>13, <1>14, <1>15
  DEF Next, vars, Enqueueing, Leasing, Sweeping, LocalWorking, Finalizing, Cancelling,
    LeaseExpires, TokenExpires

-----------------------------------------------------------------------------
(***************************************************************************)
(* Ledger is inductive.                                                    *)
(***************************************************************************)
\* Before any request the books are empty.
LEMMA LedgerInit == Init => Ledger
<1> SUFFICES ASSUME Init PROVE Ledger
  OBVIOUS
<1>1. Absent \in Row /\ Idle \in Session
  BY IdleTyped DEF Idle, Session
<1>2. TypeOK
  BY <1>1 DEF Init, TypeOK
<1>3. LeasesClaimedRemotely /\ HandlersOnSubmitted
  BY IdleTyped DEF Init, LeasesClaimedRemotely, HandlersOnSubmitted, Idles, At
<1>4. SubmittedReserved /\ HeldWhileOpen /\ OnePatchPerRun /\ PatchSettled
  BY DEF Init, Absent, SubmittedReserved, HeldWhileOpen, OnePatchPerRun, PatchSettled, Terminal
<1> QED
  BY <1>2, <1>3, <1>4 DEF Ledger, Types

\* No step of any handler, in any interleaving, upsets the books.
LEMMA LedgerStep == Ledger /\ [Next]_vars => Ledger'
<1> SUFFICES ASSUME Ledger, [Next]_vars PROVE Ledger'
  OBVIOUS
<1>1. Types' /\ HandlersOnSubmitted' /\ Effect
  BY TypesStep, HandlersStep, StepEffect DEF Ledger
<1>2. /\ run \in [Runs -> Row] /\ hold \in [Runs -> Holds] /\ patches \in [Runs -> Nat]
      /\ run' \in [Runs -> Row] /\ hold' \in [Runs -> Holds] /\ patches' \in [Runs -> Nat]
  BY <1>1 DEF Ledger, Types, TypeOK, Holds
<1> DEFINE Sound(r) == /\ run[r].status = "absent" <=> hold[r] = "none"
                       /\ run[r].done <=> hold[r] \in {"released", "settled"}
                       /\ run[r].status \in Terminal => run[r].done
                       /\ patches[r] <= 1
                       /\ hold[r] = "released" => patches[r] = 0
                       /\ patches[r] > 0 => hold[r] = "settled"
<1>3. \A r \in Runs : Sound(r)
  BY DEF Ledger, SubmittedReserved, HeldWhileOpen, OnePatchPerRun, PatchSettled
<1>4. ASSUME NEW r \in Runs, Untouched(r), hold'[r] = hold[r], patches'[r] = patches[r]
      PROVE  Sound(r)'
  BY <1>2, <1>3, <1>4 DEF Untouched, Row
<1>5. ASSUME Keeps, NEW r \in Runs PROVE Sound(r)'
  BY <1>4, <1>5 DEF Keeps
<1>6. ASSUME NEW q \in Runs, Opens(q), NEW r \in Runs PROVE Sound(r)'
  <2>1. CASE r = q
    BY <1>2, <1>3, <1>6, <2>1 DEF Opens, Terminal
  <2>2. CASE r # q
    BY <1>2, <1>4, <1>6, <2>2 DEF Opens
  <2> QED
    BY <2>1, <2>2
<1>7. ASSUME NEW q \in Runs, NEW how \in {"released", "settled"}, Ends(q, how), NEW r \in Runs
      PROVE  Sound(r)'
  <2>1. /\ \A x \in Runs : x # q => hold'[x] = hold[x]
        /\ hold'[q] = IF hold[q] = "reserved" THEN how ELSE hold[q]
    BY <1>2, <1>7, CloseEffect DEF Ends, Holds
  <2>2. CASE r = q
    BY <1>2, <1>3, <1>7, <2>1, <2>2 DEF Ends, Holds, Row
  <2>3. CASE r # q
    BY <1>2, <1>4, <1>7, <2>1, <2>3 DEF Ends
  <2> QED
    BY <2>2, <2>3
<1>8. ASSUME NEW q \in Runs, Publishes(q), NEW r \in Runs PROVE Sound(r)'
  <2>1. /\ \A x \in Runs : x # q => hold'[x] = hold[x]
        /\ hold'[q] = IF hold[q] = "reserved" THEN "settled" ELSE hold[q]
    BY <1>2, <1>8, CloseEffect DEF Publishes, Holds
  <2>2. CASE r = q
    BY <1>2, <1>3, <1>8, <2>1, <2>2 DEF Publishes, Holds, Row
  <2>3. CASE r # q
    BY <1>2, <1>4, <1>8, <2>1, <2>3 DEF Publishes
  <2> QED
    BY <2>2, <2>3
<1>9. \A r \in Runs : Sound(r)'
  BY <1>1, <1>5, <1>6, <1>7, <1>8 DEF Effect
<1> QED
  BY <1>1, <1>9 DEF Ledger, SubmittedReserved, HeldWhileOpen, OnePatchPerRun, PatchSettled

\* So the books are in order in every reachable state.
LEMMA LedgerInvariant == Spec => []Ledger
<1> QED
  BY LedgerInit, LedgerStep, PTL DEF Spec

-----------------------------------------------------------------------------
(***************************************************************************)
(* Theorems.                                                               *)
(***************************************************************************)

\* Every row, reservation and handler keeps its type, whatever is in flight.
THEOREM TypeCorrect == Spec => []TypeOK
<1>1. Ledger => TypeOK
  BY DEF Ledger, Types
<1> QED
  BY <1>1, LedgerInvariant, PTL

\* The budget of a run is held exactly until the run is completed, on every path that
\* ends it.
THEOREM BudgetHeldWhileOpen == Spec => []HeldWhileOpen
<1>1. Ledger => HeldWhileOpen
  BY DEF Ledger
<1> QED
  BY <1>1, LedgerInvariant, PTL

\* Finalization stores at most one patch for a run, and none for a refunded run.
THEOREM AtMostOnePatch == Spec => []OnePatchPerRun
<1>1. Ledger => OnePatchPerRun
  BY DEF Ledger
<1> QED
  BY <1>1, LedgerInvariant, PTL

\* No handler closes a reservation a second time.
THEOREM ReservationsCloseOnce == Spec => ReservationClosesOnce
<1>1. Ledger /\ [Next]_vars
        => [\A r \in Runs : hold[r] \in {"released", "settled"} => hold'[r] = hold[r]]_vars
  <2> SUFFICES ASSUME Ledger, [Next]_vars, NEW r \in Runs, hold[r] \in {"released", "settled"}
               PROVE  hold'[r] = hold[r]
    OBVIOUS
  <2>1. Effect /\ hold \in [Runs -> Holds]
    BY StepEffect DEF Ledger, Types, TypeOK, Holds
  <2> QED
    BY <2>1, CloseEffect DEF Effect, Keeps, Opens, Ends, Publishes, Holds
<1> QED
  BY <1>1, LedgerInvariant, PTL DEF Spec, ReservationClosesOnce

\* Once a cancellation is on a run's row, no handler stores a patch for it.
THEOREM CancellationPrecludesPatch == Spec => CancelPrecludesPatch
<1>1. Ledger /\ [Next]_vars
        => [\A r \in Runs : run[r].cancel => patches'[r] = patches[r]]_vars
  <2> SUFFICES ASSUME Ledger, [Next]_vars, NEW r \in Runs, run[r].cancel
               PROVE  patches'[r] = patches[r]
    OBVIOUS
  <2>1. Effect /\ patches \in [Runs -> Nat]
    BY StepEffect DEF Ledger, Types, TypeOK
  <2> QED
    BY <2>1 DEF Effect, Keeps, Opens, Ends, Publishes
<1> QED
  BY <1>1, LedgerInvariant, PTL DEF Spec, CancelPrecludesPatch

-----------------------------------------------------------------------------
(***************************************************************************)
(* CloudRun implements RunSettlement.                                      *)
(***************************************************************************)
Published == [r \in Runs |-> patches[r] > 0]

\* No run is reserved, published or cancelled before it is submitted.
LEMMA InitRefines == Init => Settlement!Init
<1> SUFFICES ASSUME Init PROVE Settlement!Init
  OBVIOUS
<1>1. \A r \in Runs : run[r].cancel = FALSE /\ (patches[r] > 0) = FALSE
  BY DEF Init, Absent
<1>2. hold = [r \in Runs |-> "none"]
  BY DEF Init
<1> QED
  BY <1>1, <1>2, Zenon DEF Settlement!Init

\* Submitting reserves, finalizing with a patch publishes, every other end forgoes.
LEMMA StepRefines == Ledger /\ [Next]_vars => [Settlement!Next]_(Settlement!settlementVars)
<1> SUFFICES ASSUME Ledger, [Next]_vars
             PROVE  Settlement!Next \/ UNCHANGED Settlement!settlementVars
  OBVIOUS
<1>1. Effect /\ hold \in [Runs -> Holds] /\ patches \in [Runs -> Nat]
  BY StepEffect DEF Ledger, Types, TypeOK, Holds
<1>2. \A r \in Runs : ~run[r].done => hold[r] \in {"none", "reserved"}
  BY <1>1 DEF Ledger, HeldWhileOpen, Holds
<1>3. ASSUME patches' = patches PROVE Published' = Published
  BY <1>3 DEF Published
<1>4. CASE Keeps
  <2>1. hold' = hold /\ Published' = Published
    BY <1>3, <1>4 DEF Keeps
  <2>2. CASE Cancelled' = Cancelled
    BY <2>1, <2>2 DEF Settlement!settlementVars, Published, Cancelled
  <2>3. ASSUME NEW r \in Runs, hold[r] # "none", Cancels(r) PROVE Settlement!Revoke(r)
    BY <2>1, <2>3 DEF Settlement!Revoke, Published, Cancelled, Cancels
  <2> QED
    BY <1>4, <2>2, <2>3 DEF Keeps, Settlement!Next
<1>5. ASSUME NEW r \in Runs, Opens(r) PROVE Settlement!Reserve(r)
  BY <1>3, <1>5 DEF Opens, Settlement!Reserve, Published, Cancelled
<1>6. ASSUME NEW r \in Runs, NEW how \in {"released", "settled"}, Ends(r, how)
      PROVE  \/ Settlement!Forgo(r, how) \/ Settlement!Revoke(r)
             \/ UNCHANGED Settlement!settlementVars
  <2>1. Published' = Published
    BY <1>3, <1>6 DEF Ends
  <2>2. CASE hold[r] = "reserved"
    BY <1>6, <2>1, <2>2
    DEF Ends, Close, Settlement!Forgo, Published, Cancelled, Cancels
  <2>3. CASE hold[r] # "reserved"
    <3>1. hold' = hold
      BY <1>1, <1>6, <2>3 DEF Ends, Close
    <3> QED
      BY <1>6, <2>1, <3>1
      DEF Ends, Settlement!Revoke, Settlement!settlementVars, Published, Cancelled, Cancels
  <2> QED
    BY <2>2, <2>3
<1>7. ASSUME NEW r \in Runs, Publishes(r) PROVE Settlement!Publish(r)
  <2>1. hold[r] = "reserved"
    BY <1>2, <1>7 DEF Publishes
  <2>2. hold' = [hold EXCEPT ![r] = "settled"]
    BY <1>7, <2>1 DEF Publishes, Close
  <2>3. \A q \in Runs : (patches'[q] > 0) = IF q = r THEN TRUE ELSE patches[q] > 0
    <3>1. patches'[r] > 0
      BY <1>1, <1>7 DEF Publishes
    <3>2. \A q \in Runs : q # r => patches'[q] = patches[q]
      BY <1>1, <1>7 DEF Publishes
    <3> QED
      BY <3>1, <3>2, Zenon
  <2>4. Published' = [Published EXCEPT ![r] = TRUE]
    BY <2>3 DEF Published
  <2> QED
    BY <1>7, <2>1, <2>2, <2>4 DEF Publishes, Settlement!Publish, Published, Cancelled
<1> QED
  BY <1>1, <1>4, <1>5, <1>6, <1>7 DEF Effect, Settlement!Next

\* Seen through its reservations, patches and cancellations, the control plane settles
\* every run the way RunSettlement promises.
THEOREM SettlementImplemented == Spec => ImplementsSettlement
<1> QED
  BY InitRefines, StepRefines, LedgerInvariant, PTL
  DEF Spec, Settlement!Spec, ImplementsSettlement

-----------------------------------------------------------------------------
(***************************************************************************)
(* What the steps write.                                                   *)
(***************************************************************************)

\* One row is written; these are its status, completed_at, lease and token afterwards.
Writes(r, status, done, lease, token) ==
  /\ \A q \in Runs : q # r => run'[q] = run[q]
  /\ run'[r].status = status /\ run'[r].done = done
  /\ run'[r].lease = lease /\ run'[r].token = token

\* A submission creates a row.
LEMMA SubmitWrites ==
  ASSUME Types, NEW s \in Sessions, NEW r \in Runs, Submit(s, r)
  PROVE  Writes(r, "queued", run[r].done, run[r].lease, run[r].token)
BY DEF Submit, Writes, Types, TypeOK, Row

\* The clock writes no more than the two expiries.
LEMMA ClockWrites ==
  ASSUME Types, NEW r \in Runs
  PROVE  /\ LeaseExpires(r) => Writes(r, run[r].status, run[r].done, run[r].lease, run[r].token)
         /\ TokenExpires(r) => Writes(r, run[r].status, run[r].done, run[r].lease, "expired")
<1>1. run \in [Runs -> Row] /\ run[r] \in Row
  BY DEF Types, TypeOK
<1>2. ASSUME LeaseExpires(r)
      PROVE  Writes(r, run[r].status, run[r].done, run[r].lease, run[r].token)
  BY <1>1, <1>2 DEF LeaseExpires, Writes, Row
<1>3. ASSUME TokenExpires(r)
      PROVE  Writes(r, run[r].status, run[r].done, run[r].lease, "expired")
  BY <1>1, <1>3 DEF TokenExpires, Writes, Row
<1> QED
  BY <1>2, <1>3

\* Every other write is a handler's, to the row of its run.
LEMMA HandlerWrites ==
  ASSUME Types, NEW s \in Sessions, NEW r \in Runs, r = sess[s].run, NEW saw, saw = sess[s].saw
  PROVE  /\ Tokenise(s) => Writes(r, run[r].status, run[r].done, run[r].lease, "live")
         /\ Withdraw(s) => Writes(r, Flushed(saw.status, "failed", run[r].status), TRUE,
                                  run[r].lease, run[r].token)
         /\ ClaimLease(s) /\ Claimable(r)
              => Writes(r, "running", run[r].done, <<run[r].attempts + 1, sess[s].worker>>,
                        run[r].token)
         /\ ExtendLease(s) \/ CancelRunning(s)
              => Writes(r, run[r].status, run[r].done, run[r].lease, run[r].token)
         /\ Requeue(s) => Writes(r, "queued", run[r].done,
                                 Flushed(saw.lease, NoLease, run[r].lease), run[r].token)
         /\ Exhaust(s) \/ PreflightFailed(s)
              => Writes(r, "failed", TRUE, run[r].lease, run[r].token)
         /\ ConsumeToken(s)
              => Writes(r, run[r].status, run[r].done, run[r].lease,
                        IF saw.token = "none" THEN run[r].token ELSE "used")
         /\ ClaimLocally(s) /\ run[r].status = "queued"
              => Writes(r, "running", run[r].done, run[r].lease, run[r].token)
         /\ \A status \in {"patch_ready", "failed"}, withPatch \in BOOLEAN :
              Finalize(s, status, withPatch)
                => Writes(r, status, TRUE, run[r].lease, run[r].token)
         /\ Discard(s)
              => Writes(r, Flushed(saw.status, "cancelled", run[r].status), TRUE, run[r].lease,
                        IF saw.token \in {"live", "expired"} THEN "used" ELSE run[r].token)
         /\ CancelQueued(s)
              => Writes(r, "cancelled", TRUE, run[r].lease,
                        IF run[r].token = "none" THEN run[r].token ELSE "used")
<1>0. run \in [Runs -> Row] /\ run[r] \in Row
  BY DEF Types, TypeOK
<1>1. ASSUME Tokenise(s)
      PROVE  Writes(r, run[r].status, run[r].done, run[r].lease, "live")
  BY <1>0, <1>1 DEF Tokenise, Writes, Row
<1>2. ASSUME Withdraw(s)
      PROVE  Writes(r, Flushed(saw.status, "failed", run[r].status), TRUE, run[r].lease, run[r].token)
  <2> DEFINE st == Flushed(saw.status, "failed", run[r].status)
  <2>1. run' = [run EXCEPT ![r].status = st, ![r].done = TRUE]
    BY <1>0, <1>2 DEF Withdraw
  <2> HIDE DEF st
  <2>2. Writes(r, st, TRUE, run[r].lease, run[r].token)
    BY <1>0, <2>1 DEF Writes, Row
  <2> QED
    BY <2>2 DEF st
<1>3. ASSUME ClaimLease(s), Claimable(r)
      PROVE  Writes(r, "running", run[r].done, <<run[r].attempts + 1, sess[s].worker>>, run[r].token)
  <2> DEFINE n == run[r].attempts + 1
             w == sess[s].worker
             l == <<n, w>>
  <2>1. run' = [run EXCEPT ![r].status = "running", ![r].worker = w, ![r].lease = l,
                           ![r].expires = "live", ![r].attempts = n]
    BY <1>0, <1>3 DEF ClaimLease
  <2> HIDE DEF n, w, l
  <2>2. Writes(r, "running", run[r].done, l, run[r].token)
    BY <1>0, <2>1 DEF Writes, Row
  <2> QED
    BY <2>2 DEF n, w, l
<1>4. ASSUME ExtendLease(s) \/ CancelRunning(s)
      PROVE  Writes(r, run[r].status, run[r].done, run[r].lease, run[r].token)
  <2>1. CASE ExtendLease(s)
    BY <1>0, <2>1 DEF ExtendLease, Writes, Row
  <2>2. CASE CancelRunning(s)
    <3> DEFINE c == run[r].cancel \/ (run[r].status = "running" /\ ~run[r].done)
    <3>1. run' = [run EXCEPT ![r].cancel = c]
      BY <1>0, <2>2 DEF CancelRunning
    <3> HIDE DEF c
    <3> QED
      BY <1>0, <3>1 DEF Writes, Row
  <2> QED
    BY <1>4, <2>1, <2>2
<1>5. ASSUME Requeue(s)
      PROVE  Writes(r, "queued", run[r].done, Flushed(saw.lease, NoLease, run[r].lease), run[r].token)
  <2> DEFINE w == Flushed(saw.worker, NoWorker, run[r].worker)
             l == Flushed(saw.lease, NoLease, run[r].lease)
  <2>1. run' = [run EXCEPT ![r].status = "queued", ![r].worker = w, ![r].lease = l,
                           ![r].expires = "none"]
    BY <1>0, <1>5 DEF Requeue
  <2> HIDE DEF w, l
  <2>2. Writes(r, "queued", run[r].done, l, run[r].token)
    BY <1>0, <2>1 DEF Writes, Row
  <2> QED
    BY <2>2 DEF l
<1>6. ASSUME Exhaust(s) \/ PreflightFailed(s)
      PROVE  Writes(r, "failed", TRUE, run[r].lease, run[r].token)
  BY <1>0, <1>6 DEF Exhaust, PreflightFailed, Writes, Row
<1>7. ASSUME ConsumeToken(s)
      PROVE  Writes(r, run[r].status, run[r].done, run[r].lease,
                    IF saw.token = "none" THEN run[r].token ELSE "used")
  <2> DEFINE t == IF saw.token = "none" THEN run[r].token ELSE "used"
  <2>1. run' = [run EXCEPT ![r].token = t]
    BY <1>0, <1>7 DEF ConsumeToken
  <2> HIDE DEF t
  <2>2. Writes(r, run[r].status, run[r].done, run[r].lease, t)
    BY <1>0, <2>1 DEF Writes, Row
  <2> QED
    BY <2>2 DEF t
<1>8. ASSUME ClaimLocally(s), run[r].status = "queued"
      PROVE  Writes(r, "running", run[r].done, run[r].lease, run[r].token)
  BY <1>0, <1>8 DEF ClaimLocally, Writes, Row
<1>9. ASSUME NEW status \in {"patch_ready", "failed"}, NEW withPatch \in BOOLEAN,
             Finalize(s, status, withPatch)
      PROVE  Writes(r, status, TRUE, run[r].lease, run[r].token)
  <2> DEFINE p == withPatch \/ run[r].patch
  <2>1. run' = [run EXCEPT ![r] = [run[r] EXCEPT !.status = status, !.done = TRUE, !.patch = p]]
    BY <1>0, <1>9 DEF Finalize, Finalized
  <2> HIDE DEF p
  <2> QED
    BY <1>0, <2>1 DEF Writes, Row
<1>10. ASSUME Discard(s)
       PROVE  Writes(r, Flushed(saw.status, "cancelled", run[r].status), TRUE, run[r].lease,
                     IF saw.token \in {"live", "expired"} THEN "used" ELSE run[r].token)
  <2> DEFINE st == Flushed(saw.status, "cancelled", run[r].status)
             p  == Flushed(saw.patch, FALSE, run[r].patch)
             t  == IF saw.token \in {"live", "expired"} THEN "used" ELSE run[r].token
  <2>1. run' = [run EXCEPT ![r].status = st, ![r].done = TRUE, ![r].patch = p, ![r].token = t]
    BY <1>0, <1>10 DEF Discard
  <2> HIDE DEF st, p, t
  <2>2. Writes(r, st, TRUE, run[r].lease, t)
    BY <1>0, <2>1 DEF Writes, Row
  <2> QED
    BY <2>2 DEF st, t
<1>11. ASSUME CancelQueued(s)
       PROVE  Writes(r, "cancelled", TRUE, run[r].lease,
                     IF run[r].token = "none" THEN run[r].token ELSE "used")
  <2> DEFINE t == IF run[r].token = "none" THEN run[r].token ELSE "used"
  <2>1. run' = [run EXCEPT ![r].status = "cancelled", ![r].cancel = TRUE, ![r].done = TRUE,
                           ![r].token = t]
    BY <1>0, <1>11 DEF CancelQueued
  <2> HIDE DEF t
  <2>2. Writes(r, "cancelled", TRUE, run[r].lease, t)
    BY <1>0, <2>1 DEF Writes, Row
  <2> QED
    BY <2>2 DEF t
<1> QED
  BY <1>1, <1>2, <1>3, <1>4, <1>5, <1>6, <1>7, <1>8, <1>9, <1>10, <1>11

-----------------------------------------------------------------------------
(***************************************************************************)
(* Leases on protected runs.  LeaseOnlyToAgent is not inductive: a claim   *)
(* commits in a later step than the one that checked the token.  AgentInv  *)
(* adds what a claim under way has established, and that no sweep runs     *)
(* where tokens are required.                                              *)
(***************************************************************************)
ClaimsByAgent ==
  \A s \in Sessions : At(s, "claim") => /\ sess[s].worker = Agent[sess[s].run]
                                        /\ run[sess[s].run].token # "none"

NoSweep == \A s \in Sessions : ~At(s, "sweep")

AgentInv == Types /\ LeaseOnlyToAgent /\ ClaimsByAgent /\ NoSweep

\* A token is never taken back, and a new lease is the agent's.
RowGuarded(r) ==
  /\ run[r].token # "none" => run'[r].token # "none"
  /\ run'[r].lease # run[r].lease => run'[r].lease[2] = Agent[r] /\ run[r].token # "none"

\* A claim comes from a selection that checked the token; a sweep from its route.
Origin(s) ==
  \/ sess'[s] = sess[s]
  \/ sess'[s].pc \notin {"claim", "sweep"}
  \/ \E w \in Workers, r \in Runs :
       SelectCandidate(s, w, r) /\ sess'[s].run = r /\ sess'[s].worker = w
  \/ ~TokenRequired

\* Where tokens are required every step keeps the rows guarded.
LEMMA RowsGuarded ==
  ASSUME TokenRequired, AgentInv, [Next]_vars, NEW q \in Runs
  PROVE  RowGuarded(q)
<1> USE DEF RowGuarded
<1>0. /\ Types /\ ClaimsByAgent /\ NoSweep
      /\ run \in [Runs -> Row] /\ \A r \in Runs : run[r] \in Row
      /\ \A s \in Sessions : sess[s].run \in Runs
  BY DEF AgentInv, Types, TypeOK, Session
<1>1. CASE run' = run
  BY <1>1
<1>2. ASSUME NEW r \in Runs, NEW st, NEW dn, NEW tk, Writes(r, st, dn, run[r].lease, tk),
             run[r].token # "none" => tk # "none"
      PROVE  RowGuarded(q)
  BY <1>2 DEF Writes
<1>3. ASSUME NEW s \in Sessions, NEW r \in Runs, Submit(s, r) PROVE RowGuarded(q)
  BY <1>0, <1>2, <1>3, SubmitWrites
<1>4. ASSUME NEW s \in Sessions, ClaimLease(s) PROVE RowGuarded(q)
  <2>1. CASE Claimable(sess[s].run)
    <3> DEFINE r == sess[s].run
               l == <<run[r].attempts + 1, sess[s].worker>>
    <3>1. Writes(r, "running", run[r].done, l, run[r].token)
      BY <1>0, <1>4, <2>1, HandlerWrites
    <3>2. l[2] = Agent[r] /\ run[r].token # "none"
      BY <1>0, <1>4 DEF ClaimsByAgent, ClaimLease
    <3> QED
      BY <3>1, <3>2 DEF Writes
  <2>2. CASE ~Claimable(sess[s].run)
    BY <1>1, <1>4, <2>2 DEF ClaimLease
  <2> QED
    BY <2>1, <2>2
<1>5. ASSUME NEW s \in Sessions,
             \/ Tokenise(s) \/ Withdraw(s) \/ ExtendLease(s) \/ CancelRunning(s)
             \/ PreflightFailed(s) \/ ConsumeToken(s) \/ Discard(s) \/ CancelQueued(s)
             \/ ClaimLocally(s)
             \/ \E status \in {"patch_ready", "failed"}, withPatch \in BOOLEAN :
                  Finalize(s, status, withPatch)
      PROVE  RowGuarded(q)
  <2> DEFINE r == sess[s].run
  <2>1. CASE ClaimLocally(s) /\ run[r].status # "queued"
    BY <1>1, <2>1 DEF ClaimLocally
  <2>2. r = sess[s].run /\ r \in Runs
    BY <1>0
  <2> HIDE DEF r
  <2>3. CASE Tokenise(s)
    <3>1. Writes(r, run[r].status, run[r].done, run[r].lease, "live")
      BY <1>0, <2>2, <2>3, HandlerWrites
    <3> QED
      BY <1>0, <2>2, <3>1 DEF Writes
  <2>4. CASE Withdraw(s)
    <3>1. Writes(r, Flushed(sess[s].saw.status, "failed", run[r].status), TRUE,
            run[r].lease, run[r].token)
      BY <1>0, <2>2, <2>4, HandlerWrites
    <3> QED
      BY <1>0, <2>2, <3>1 DEF Writes
  <2>5. CASE ExtendLease(s) \/ CancelRunning(s) \/ PreflightFailed(s)
    <3>1. \/ Writes(r, run[r].status, run[r].done, run[r].lease, run[r].token)
          \/ Writes(r, "failed", TRUE, run[r].lease, run[r].token)
      BY <1>0, <2>2, <2>5, HandlerWrites
    <3> QED
      BY <1>0, <2>2, <3>1 DEF Writes
  <2>6. CASE ConsumeToken(s)
    <3>1. Writes(r, run[r].status, run[r].done, run[r].lease,
            IF sess[s].saw.token = "none" THEN run[r].token ELSE "used")
      BY <1>0, <2>2, <2>6, HandlerWrites
    <3> QED
      BY <1>0, <2>2, <3>1 DEF Writes
  <2>7. CASE Discard(s)
    <3>1. Writes(r, Flushed(sess[s].saw.status, "cancelled", run[r].status), TRUE,
            run[r].lease,
            IF sess[s].saw.token \in {"live", "expired"} THEN "used" ELSE run[r].token)
      BY <1>0, <2>2, <2>7, HandlerWrites
    <3> QED
      BY <1>0, <2>2, <3>1 DEF Writes
  <2>8. CASE CancelQueued(s)
    <3>1. Writes(r, "cancelled", TRUE, run[r].lease,
            IF run[r].token = "none" THEN run[r].token ELSE "used")
      BY <1>0, <2>2, <2>8, HandlerWrites
    <3> QED
      BY <1>0, <2>2, <3>1 DEF Writes
  <2>9. CASE ClaimLocally(s) /\ run[r].status = "queued"
    <3>1. Writes(r, "running", run[r].done, run[r].lease, run[r].token)
      BY <1>0, <2>2, <2>9, HandlerWrites
    <3> QED
      BY <1>0, <2>2, <3>1 DEF Writes
  <2>10. ASSUME NEW status \in {"patch_ready", "failed"}, NEW withPatch \in BOOLEAN,
                Finalize(s, status, withPatch)
         PROVE  RowGuarded(q)
    <3>1. Writes(r, status, TRUE, run[r].lease, run[r].token)
      BY <1>0, <2>2, <2>10, HandlerWrites
    <3> QED
      BY <1>0, <2>2, <3>1 DEF Writes
  <2> QED
    BY <1>5, <2>1, <2>3, <2>4, <2>5, <2>6, <2>7, <2>8, <2>9, <2>10
<1>6. ASSUME NEW s \in Sessions, Requeue(s) \/ Exhaust(s) PROVE RowGuarded(q)
  BY <1>0, <1>6 DEF Requeue, Exhaust, NoSweep
<1>7. ASSUME NEW r \in Runs, LeaseExpires(r) \/ TokenExpires(r) PROVE RowGuarded(q)
  BY <1>0, <1>2, <1>7, ClockWrites
<1>8. ASSUME NEW s \in Sessions,
             \/ CallProvider(s) \/ ProviderAccepted(s) \/ ProviderFailed(s) \/ Executed(s)
             \/ Reload(s) \/ FinalizationLost(s) \/ CancelLostRace(s) \/ Abort(s)
             \/ \E r \in Runs : Sweep(s, r) \/ ProcessLocally(s, r) \/ Cancel(s, r)
             \/ \E w \in Workers, r \in Runs : SelectCandidate(s, w, r)
             \/ \E w \in Workers, r \in Runs, n \in 1 .. MaxAttempts :
                  Heartbeat(s, r, <<n, w>>) \/ Complete(s, r, <<n, w>>)
      PROVE  run' = run
  BY <1>8, ZenonT(60)
  DEF CallProvider, ProviderAccepted, ProviderFailed, Executed, Reload, FinalizationLost,
    CancelLostRace, Abort, Sweep, ProcessLocally, Cancel, SelectCandidate, Heartbeat, Complete
<1> QED
  BY <1>1, <1>3, <1>4, <1>5, <1>6, <1>7, <1>8
  DEF Next, vars, Enqueueing, Leasing, Sweeping, LocalWorking, Finalizing, Cancelling

\* Every handler at a claim or a sweep came there the way Origin says.
LEMMA ClaimOrigins ==
  ASSUME Types, [Next]_vars, NEW q \in Sessions
  PROVE  Origin(q)
<1>0. /\ sess \in [Sessions -> Session] /\ run \in [Runs -> Row]
      /\ \A s \in Sessions : sess[s].run \in Runs /\ sess[s].lease \in Leases
                             /\ sess[s].worker \in Workers \cup {Local, NoWorker}
  BY DEF Types, TypeOK, Session
<1>1. CASE sess' = sess
  BY <1>1 DEF Origin
<1>2. ASSUME NEW s \in Sessions, \A t \in Sessions : t # s => sess'[t] = sess[t],
             sess'[s].pc \notin {"claim", "sweep"}
      PROVE  Origin(q)
  BY <1>2 DEF Origin
<1>3. ASSUME NEW s \in Sessions, Finish(s) PROVE Origin(q)
  BY <1>0, <1>2, <1>3, FinishEffect, IdleTyped
<1>4. ASSUME NEW s \in Sessions, NEW step \in Steps \ {"claim", "sweep"}, Goto(s, step)
      PROVE  Origin(q)
  BY <1>0, <1>2, <1>4, GotoEffect
<1>5. ASSUME NEW s \in Sessions, NEW step \in Steps \ {"claim", "sweep"}, NEW r \in Runs,
             NEW w \in Workers \cup {Local, NoWorker}, Begin(s, step, r, w)
      PROVE  Origin(q)
  BY <1>0, <1>2, <1>5, BeginEffect
<1>6. ASSUME NEW s \in Sessions, NEW step \in Steps \ {"claim", "sweep"}, NEW r \in Runs,
             NEW w \in Workers \cup {Local, NoWorker}, NEW l \in Leases, Load(s, step, r, w, l)
      PROVE  Origin(q)
  <2>1. run[r] \in Row
    BY <1>0
  <2>2. /\ \A t \in Sessions : t # s => sess'[t] = sess[t]
        /\ sess'[s].pc = step
    BY <1>0, <1>6, <2>1, LoadEffect
  <2> QED
    BY <1>2, <2>2
<1>7. ASSUME NEW s \in Sessions, NEW w \in Workers, NEW r \in Runs, SelectCandidate(s, w, r)
      PROVE  Origin(q)
  <2>1. "claim" \in Steps /\ Begin(s, "claim", r, w)
    BY <1>7 DEF SelectCandidate, Steps
  <2>2. /\ \A t \in Sessions : t # s => sess'[t] = sess[t]
        /\ sess'[s].run = r /\ sess'[s].worker = w
    BY <1>0, <2>1, BeginEffect
  <2> QED
    BY <1>7, <2>2 DEF Origin
<1>8. ASSUME NEW s \in Sessions, NEW r \in Runs, Sweep(s, r) PROVE Origin(q)
  BY <1>8 DEF Sweep, Origin
<1>9. ASSUME NEW s \in Sessions,
             \/ ProviderAccepted(s) \/ Withdraw(s) \/ ClaimLease(s) \/ ExtendLease(s) \/ Requeue(s)
             \/ Exhaust(s) \/ PreflightFailed(s) \/ Discard(s) \/ CancelQueued(s)
             \/ CancelRunning(s) \/ Abort(s)
             \/ \E status \in {"patch_ready", "failed"}, withPatch \in BOOLEAN :
                  Finalize(s, status, withPatch)
      PROVE  Finish(s)
  BY <1>9, ZenonT(60)
  DEF ProviderAccepted, Withdraw, ClaimLease, ExtendLease, Requeue, Exhaust, PreflightFailed,
    Discard, CancelQueued, CancelRunning, Abort, Finalize
<1>10. ASSUME NEW s \in Sessions, Tokenise(s) \/ ProviderFailed(s) \/ ConsumeToken(s)
       PROVE  Origin(q)
  <2>1. /\ \A t \in Sessions : t # s => sess'[t] = sess[t]
        /\ sess'[s].pc \in {"send", "withdraw", "reload"}
    BY <1>0, <1>10 DEF Tokenise, ProviderFailed, ConsumeToken, Session
  <2> QED
    BY <1>2, <2>1
<1>11. ASSUME NEW s \in Sessions,
              \/ CallProvider(s) \/ Executed(s) \/ ClaimLocally(s) \/ CancelLostRace(s)
       PROVE  Origin(q)
  <2>1. \/ Finish(s) \/ Goto(s, "sent") \/ Goto(s, "reload") \/ Goto(s, "execute")
        \/ Goto(s, "cancel_running")
    BY <1>11 DEF CallProvider, Executed, ClaimLocally, CancelLostRace
  <2>2. {"sent", "reload", "execute", "cancel_running"} \subseteq Steps \ {"claim", "sweep"}
    BY DEF Steps
  <2> QED
    BY <1>3, <1>4, <2>1, <2>2
<1>12. ASSUME NEW s \in Sessions, Reload(s) \/ FinalizationLost(s) PROVE Origin(q)
  <2>1. \/ Finish(s) \/ Goto(s, "finalize")
        \/ Load(s, "discard", sess[s].run, sess[s].worker, sess[s].lease)
    BY <1>12 DEF Reload, FinalizationLost
  <2>2. {"finalize", "discard"} \subseteq Steps \ {"claim", "sweep"}
    BY DEF Steps
  <2> QED
    BY <1>0, <1>3, <1>4, <1>6, <2>1, <2>2
<1>13. ASSUME NEW s \in Sessions, NEW r \in Runs,
              Submit(s, r) \/ ProcessLocally(s, r) \/ Cancel(s, r)
       PROVE  Origin(q)
  <2>1. \/ sess' = sess \/ Begin(s, "tokenise", r, NoWorker) \/ Begin(s, "take", r, Local)
        \/ Begin(s, "cancel_queued", r, NoWorker) \/ Begin(s, "cancel_running", r, NoWorker)
    BY <1>13 DEF Submit, ProcessLocally, Cancel
  <2>2. {"tokenise", "take", "cancel_queued", "cancel_running"} \subseteq Steps \ {"claim", "sweep"}
    BY DEF Steps
  <2> QED
    BY <1>1, <1>5, <2>1, <2>2
<1>14. ASSUME NEW s \in Sessions, NEW w \in Workers, NEW r \in Runs, NEW n \in 1 .. MaxAttempts,
              Heartbeat(s, r, <<n, w>>) \/ Complete(s, r, <<n, w>>)
       PROVE  Origin(q)
  <2>1. Begin(s, "beat", r, w) \/ Load(s, "consume", r, w, <<n, w>>)
    BY <1>14 DEF Heartbeat, Complete
  <2>2. {"beat", "consume"} \subseteq Steps \ {"claim", "sweep"} /\ <<n, w>> \in Leases
    BY AttemptsAssumption DEF Steps, Leases
  <2> QED
    BY <1>5, <1>6, <2>1, <2>2
<1>15. ASSUME NEW r \in Runs, LeaseExpires(r) \/ TokenExpires(r) PROVE sess' = sess
  BY <1>15 DEF LeaseExpires, TokenExpires
<1> QED
  BY <1>1, <1>3, <1>7, <1>8, <1>9, <1>10, <1>11, <1>12, <1>13, <1>14, <1>15
  DEF Next, vars, Enqueueing, Leasing, Sweeping, LocalWorking, Finalizing, Cancelling

\* The invariant is kept by every step, in any interleaving.
LEMMA AgentStep == TokenRequired /\ AgentInv /\ [Next]_vars => AgentInv'
<1> SUFFICES ASSUME TokenRequired, AgentInv, [Next]_vars PROVE AgentInv'
  OBVIOUS
<1>1. /\ Types /\ Types' /\ LeaseOnlyToAgent /\ ClaimsByAgent /\ NoSweep
      /\ sess \in [Sessions -> Session] /\ \A s \in Sessions : sess[s].run \in Runs
  BY TypesStep DEF AgentInv, Types, TypeOK, Session
<1>2. \A r \in Runs : RowGuarded(r)
  BY RowsGuarded
<1>3. LeaseOnlyToAgent'
  BY <1>1, <1>2 DEF LeaseOnlyToAgent, RowGuarded
<1>4. ASSUME NEW s \in Sessions
      PROVE  /\ ~At(s, "sweep")'
             /\ At(s, "claim")' => /\ sess'[s].worker = Agent[sess'[s].run]
                                   /\ run'[sess'[s].run].token # "none"
  <2>1. Origin(s)
    BY <1>1, ClaimOrigins
  <2>2. CASE sess'[s] = sess[s]
    BY <1>1, <1>2, <2>2 DEF ClaimsByAgent, NoSweep, At, RowGuarded
  <2>3. CASE sess'[s].pc \notin {"claim", "sweep"}
    BY <2>3 DEF At
  <2>4. ASSUME NEW w \in Workers, NEW r \in Runs, SelectCandidate(s, w, r),
               sess'[s].run = r, sess'[s].worker = w
        PROVE  /\ ~At(s, "sweep")'
               /\ sess'[s].worker = Agent[sess'[s].run]
               /\ run'[sess'[s].run].token # "none"
    <3>1. "claim" \in Steps /\ Begin(s, "claim", r, w) /\ TokenOk(r, w)
      BY <2>4 DEF SelectCandidate, Steps
    <3>2. sess'[s].pc = "claim"
      BY <1>1, <3>1, BeginEffect
    <3>3. w = Agent[r] /\ run[r].token # "none"
      BY <3>1 DEF TokenOk
    <3> QED
      BY <1>2, <2>4, <3>2, <3>3 DEF At, RowGuarded
  <2> QED
    BY <2>1, <2>2, <2>3, <2>4 DEF Origin
<1> QED
  BY <1>1, <1>3, <1>4 DEF AgentInv, ClaimsByAgent, NoSweep

\* Where tokens are required, only the worker a run was bound to is ever given a lease on
\* it, and only once the run has its token.
THEOREM LeasesOnlyToAgents ==
  ASSUME TokenRequired = TRUE
  PROVE  Spec => []LeaseOnlyToAgent
<1>1. Init => AgentInv
  <2> SUFFICES ASSUME Init PROVE AgentInv
    OBVIOUS
  <2>1. Types
    BY LedgerInit DEF Ledger
  <2>2. LeaseOnlyToAgent
    BY DEF Init, Absent, LeaseOnlyToAgent
  <2>3. ClaimsByAgent /\ NoSweep
    BY IdleTyped DEF Init, ClaimsByAgent, NoSweep, At
  <2> QED
    BY <2>1, <2>2, <2>3 DEF AgentInv
<1>2. AgentInv /\ [Next]_vars => AgentInv'
  BY AgentStep
<1>3. AgentInv => LeaseOnlyToAgent
  BY DEF AgentInv
<1> QED
  BY <1>1, <1>2, <1>3, PTL DEF Spec

-----------------------------------------------------------------------------
(***************************************************************************)
(* Orderly handlers.  RunningIsFunded, TerminalIsFinal and                 *)
(* OnlyCurrentLeaseFinalizes fail when a submission or a sweep overlaps    *)
(* with a handler that ends the run, for it writes the status it decided   *)
(* on by id.  Where OwnersAlone they hold: HandlerSound says what the row  *)
(* is known to be at each step of a handler, and what the other handlers   *)
(* may do to it meanwhile.                                                 *)
(***************************************************************************)

\* A run that is over has a terminal status; a run that waits has no lease.
RowSound(row) == /\ row.done => row.status \in Terminal
                 /\ row.status \in {"absent", "queued"} => row.lease = NoLease

\* Handlers at these steps rely on what they know of the row.
Committed == Submitting \cup Ending \cup {"sweep"}

\* A handler that ends a run may find it ended by another one, but under the same lease,
\* and not after a cancellation unless as cancelled.
HandlerSound(h, row) ==
  /\ h.pc \in Submitting => row.status = "queued"
  /\ h.pc \in {"send", "sent", "withdraw"} => h.saw.status = "queued"
  /\ h.pc = "sweep" => /\ row.status = "running" 
                       /\ h.saw.lease = row.lease /\ h.saw.attempts = row.attempts
  /\ h.pc \in Ending => /\ row.lease = h.lease
                        /\ row.status = "running" \/ row.status \in Terminal
                        /\ row.status \in Terminal /\ row.cancel => row.status = "cancelled"
  /\ h.pc = "execute" => row.status = "running"
  /\ h.pc \in {"take", "execute"} => h.lease = NoLease
  /\ h.pc = "discard" => /\ row.cancel /\ h.saw.status \in {"running", "cancelled"}
                         /\ h.saw.status = "cancelled" => row.status = "cancelled"

\* Nobody else is about to end a run while the local worker executes it.
LocalAlone ==
  \A s, t \in Sessions :
    s # t /\ sess[s].run = sess[t].run /\ At(s, "execute") => sess[t].pc \notin Ending

OrderlyInv == /\ Types /\ OwnersAlone /\ LocalAlone
              /\ \A r \in Runs : RowSound(run[r])
              /\ \A s \in Sessions : HandlerSound(sess[s], run[sess[s].run])

\* A step leaves a terminal status alone.
StaysTerminal(r) == run[r].status \in Terminal => run'[r].status = run[r].status

\* One row is written, soundly; the other rows are as they were.
WritesSoundly(r) == /\ \A q \in Runs : q # r => run'[q] = run[q]
                    /\ RowSound(run'[r]) /\ StaysTerminal(r)

\* A write that no handler minds: at most a running run's cancellation is new.
Quiet(row, new) ==
  /\ new.status = row.status /\ new.lease = row.lease /\ new.attempts = row.attempts
  /\ row.cancel => new.cancel
  /\ new.cancel => row.cancel \/ row.status = "running"

\* A write that ends the run and that only its submission or a sweep would mind.
Closing(row, new) ==
  /\ new.status \in Terminal /\ new.lease = row.lease /\ new.cancel = row.cancel
  /\ row.cancel => new.status = "cancelled"

\* No handler other than s is at one of the steps on run r.
Nobody(s, r, steps) == \A t \in Sessions : t # s /\ sess[t].run = r => sess[t].pc \notin steps

\* The other handlers keep their steps.
Only(s) == \A t \in Sessions : t # s => sess'[t] = sess[t]

-----------------------------------------------------------------------------
\* What a handler knows survives quiet writes.
LEMMA QuietKeeps ==
  ASSUME NEW h, NEW row, NEW new, HandlerSound(h, row), Quiet(row, new)
  PROVE  HandlerSound(h, new)
BY DEF HandlerSound, Quiet, Terminal, Ending, Submitting

\* The step of one handler keeps the invariant if what it writes suits the others and if it
\* knows enough about its own next step.
LEMMA StepKeeps ==
  ASSUME OrderlyInv, Types', OwnersAlone', NEW s \in Sessions, Only(s), NEW r \in Runs,
         WritesSoundly(r),
         \/ Quiet(run[r], run'[r])
         \/ Nobody(s, r, Committed)
         \/ Nobody(s, r, Submitting \cup {"sweep", "execute"}) /\ Closing(run[r], run'[r]),
         HandlerSound(sess'[s], run'[sess'[s].run]),
         sess'[s].pc = "execute" => Nobody(s, sess'[s].run, Ending),
         sess'[s].pc \in Ending => Nobody(s, sess'[s].run, {"execute"})
  PROVE  OrderlyInv'
<1>0. /\ sess \in [Sessions -> Session] /\ run \in [Runs -> Row]
      /\ \A t \in Sessions : sess[t].run \in Runs /\ HandlerSound(sess[t], run[sess[t].run])
      /\ LocalAlone
  BY DEF OrderlyInv, Types, TypeOK, Session
<1>1. \A q \in Runs : RowSound(run'[q])
  BY DEF OrderlyInv, WritesSoundly
<1>2. ASSUME NEW t \in Sessions, t # s PROVE HandlerSound(sess'[t], run'[sess'[t].run])
  <2>1. sess'[t] = sess[t] /\ sess[t].run \in Runs /\ HandlerSound(sess[t], run[sess[t].run])
    BY <1>0, <1>2 DEF Only
  <2>2. CASE sess[t].run # r
    BY <2>1, <2>2 DEF WritesSoundly
  <2>3. CASE sess[t].run = r /\ Quiet(run[r], run'[r])
    BY <2>1, <2>3, QuietKeeps
  <2>4. CASE sess[t].run = r /\ Nobody(s, r, Committed)
    BY <1>2, <2>1, <2>4 DEF Nobody, Committed, HandlerSound, Submitting, Ending
  <2>5. CASE /\ sess[t].run = r /\ Nobody(s, r, Submitting \cup {"sweep", "execute"})
             /\ Closing(run[r], run'[r])
    <3>1. sess[t].pc \notin Submitting \cup {"sweep", "execute"}
      BY <1>2, <2>5 DEF Nobody
    <3> QED
      BY <2>1, <2>5, <3>1 DEF Closing, HandlerSound, Submitting, Ending, Terminal
  <2> QED
    BY <2>2, <2>3, <2>4, <2>5
<1>3. \A t \in Sessions : HandlerSound(sess'[t], run'[sess'[t].run])
  BY <1>2
<1>4. LocalAlone'
  <2> SUFFICES ASSUME NEW t \in Sessions, NEW u \in Sessions, t # u, sess'[t].run = sess'[u].run,
                      sess'[t].pc = "execute", sess'[u].pc \in Ending
               PROVE  FALSE
    BY DEF LocalAlone, At
  <2>1. CASE t # s /\ u # s
    BY <1>0, <2>1 DEF Only, LocalAlone, At
  <2>2. CASE t = s
    BY <2>2 DEF Only, Nobody
  <2>3. CASE u = s
    BY <2>3 DEF Only, Nobody
  <2> QED
    BY <2>1, <2>2, <2>3
<1> QED
  BY <1>1, <1>3, <1>4 DEF OrderlyInv

\* While a run waits, nobody relies on its row but its submission, which is alone.
LEMMA QueuedIsFree ==
  ASSUME OrderlyInv, NEW s \in Sessions, sess[s].pc \notin Bystanding,
         run[sess[s].run].status = "queued"
  PROVE  Nobody(s, sess[s].run, Committed)
<1> SUFFICES ASSUME NEW t \in Sessions, t # s, sess[t].run = sess[s].run, sess[t].pc \in Committed
             PROVE  FALSE
  BY DEF Nobody
<1>1. HandlerSound(sess[t], run[sess[s].run])
  BY DEF OrderlyInv
<1>2. sess[t].pc \notin Ending \cup {"sweep"}
  BY <1>1 DEF HandlerSound, Terminal
<1>3. sess[t].pc \notin Submitting
  BY DEF OrderlyInv, OwnersAlone
<1> QED
  BY <1>2, <1>3 DEF Committed

\* A run that has not been submitted has no handlers that rely on it.
LEMMA AbsentIsFree ==
  ASSUME OrderlyInv, NEW s \in Sessions, NEW r \in Runs, run[r].status = "absent"
  PROVE  Nobody(s, r, Committed)
BY DEF OrderlyInv, Nobody, Committed, HandlerSound, Terminal

\* A submission and a sweep are alone with the handlers that may be there anyway; a
\* handler that ends a run has no sweep or submission beside it, and the local worker
\* nobody who might end its run.
LEMMA OwnersAreFree ==
  ASSUME OrderlyInv, NEW s \in Sessions
  PROVE  /\ sess[s].pc \in Submitting \cup {"sweep", "execute"} => Nobody(s, sess[s].run, Committed)
         /\ sess[s].pc \in Ending
              => Nobody(s, sess[s].run, Submitting \cup {"sweep", "execute"})
<1>1. Submitting \cap Bystanding = {} /\ Ending \cap Bystanding = {} /\ "execute" \in Ending
  BY DEF Submitting, Ending, Bystanding
<1>2. "sweep" \notin Bystanding /\ (Ending \cup {"sweep"}) \cap Bystanding = {}
  BY DEF Ending, Bystanding
<1>3. ASSUME NEW t \in Sessions, t # s, sess[t].run = sess[s].run
      PROVE  /\ sess[s].pc \in Submitting => sess[t].pc \in Bystanding
             /\ sess[t].pc \in Submitting => sess[s].pc \in Bystanding
             /\ sess[s].pc = "sweep" => sess[t].pc \notin Ending \cup {"sweep"}
             /\ sess[t].pc = "sweep" => sess[s].pc \notin Ending \cup {"sweep"}
             /\ sess[s].pc = "execute" => sess[t].pc \notin Ending
             /\ sess[t].pc = "execute" => sess[s].pc \notin Ending
  BY <1>3 DEF OrderlyInv, OwnersAlone, LocalAlone, At
<1>4. ASSUME sess[s].pc \in Submitting \cup {"sweep", "execute"}
      PROVE  Nobody(s, sess[s].run, Committed)
  BY <1>1, <1>2, <1>3, <1>4 DEF Nobody, Committed
<1>5. ASSUME sess[s].pc \in Ending
      PROVE  Nobody(s, sess[s].run, Submitting \cup {"sweep", "execute"})
  BY <1>1, <1>2, <1>3, <1>5 DEF Nobody
<1> QED
  BY <1>4, <1>5

\* Only claims count attempts; only cancellations set cancel_requested.
KeepsRest(r) == run'[r].attempts = run[r].attempts /\ run'[r].cancel = run[r].cancel

LEMMA RestWrites ==
  ASSUME Types, NEW s \in Sessions, NEW r \in Runs, r = sess[s].run
  PROVE  /\ Tokenise(s) \/ Withdraw(s) \/ ExtendLease(s) => KeepsRest(r)
         /\ Requeue(s) \/ Exhaust(s) \/ PreflightFailed(s) => KeepsRest(r)
         /\ ConsumeToken(s) \/ ClaimLocally(s) \/ Discard(s) => KeepsRest(r)
         /\ \A status \in {"patch_ready", "failed"}, withPatch \in BOOLEAN :
              Finalize(s, status, withPatch) => KeepsRest(r)
         /\ CancelQueued(s) => run'[r].attempts = run[r].attempts
         /\ CancelRunning(s)
              => /\ run'[r].attempts = run[r].attempts
                 /\ run'[r].cancel = (run[r].cancel \/ (run[r].status = "running" /\ ~run[r].done))
         /\ ClaimLease(s) /\ Claimable(r)
              => /\ run'[r].attempts = run[r].attempts + 1
                 /\ run'[r].cancel = run[r].cancel
<1>0. run \in [Runs -> Row] /\ run[r] \in Row
  BY DEF Types, TypeOK
<1>1. ASSUME Tokenise(s) PROVE KeepsRest(r)
  BY <1>0, <1>1 DEF Tokenise, KeepsRest, Row
<1>2. ASSUME Withdraw(s) PROVE KeepsRest(r)
  BY <1>0, <1>2 DEF Withdraw, KeepsRest, Row
<1>3. ASSUME ExtendLease(s) PROVE KeepsRest(r)
  BY <1>0, <1>3 DEF ExtendLease, KeepsRest, Row
<1>4. ASSUME Requeue(s) PROVE KeepsRest(r)
  BY <1>0, <1>4 DEF Requeue, KeepsRest, Row
<1>5. ASSUME Exhaust(s) PROVE KeepsRest(r)
  BY <1>0, <1>5 DEF Exhaust, KeepsRest, Row
<1>6. ASSUME ConsumeToken(s) PROVE KeepsRest(r)
  BY <1>0, <1>6 DEF ConsumeToken, KeepsRest, Row
<1>7. ASSUME ClaimLocally(s) PROVE KeepsRest(r)
  BY <1>0, <1>7 DEF ClaimLocally, KeepsRest, Row
<1>8. ASSUME PreflightFailed(s) PROVE KeepsRest(r)
  BY <1>0, <1>8 DEF PreflightFailed, KeepsRest, Row
<1>9. ASSUME Discard(s) PROVE KeepsRest(r)
  BY <1>0, <1>9 DEF Discard, KeepsRest, Row
<1>10. ASSUME NEW status \in {"patch_ready", "failed"}, NEW withPatch \in BOOLEAN,
              Finalize(s, status, withPatch)
       PROVE  KeepsRest(r)
  BY <1>0, <1>10 DEF Finalize, Finalized, KeepsRest, Row
<1>11. ASSUME CancelQueued(s) PROVE run'[r].attempts = run[r].attempts
  BY <1>0, <1>11 DEF CancelQueued, Row
<1>12. ASSUME CancelRunning(s)
       PROVE  /\ run'[r].attempts = run[r].attempts
              /\ run'[r].cancel = (run[r].cancel \/ (run[r].status = "running" /\ ~run[r].done))
  BY <1>0, <1>12 DEF CancelRunning, Row
<1>13. ASSUME ClaimLease(s), Claimable(r)
       PROVE  /\ run'[r].attempts = run[r].attempts + 1
              /\ run'[r].cancel = run[r].cancel
  BY <1>0, <1>13 DEF ClaimLease, Row
<1> QED
  BY <1>1, <1>2, <1>3, <1>4, <1>5, <1>6, <1>7, <1>8, <1>9, <1>10, <1>11, <1>12, <1>13

\* What a handler writes suits the row, whatever it became since the handler read it.
LEMMA SoundWrites ==
  ASSUME OrderlyInv, NEW s \in Sessions,
         \/ Tokenise(s) \/ Withdraw(s) \/ ClaimLease(s) \/ ExtendLease(s) \/ CancelRunning(s)
         \/ Requeue(s) \/ Exhaust(s) \/ PreflightFailed(s) \/ ConsumeToken(s) \/ ClaimLocally(s)
         \/ Discard(s) \/ CancelQueued(s)
         \/ \E status \in {"patch_ready", "failed"}, withPatch \in BOOLEAN :
              Finalize(s, status, withPatch)
  PROVE  WritesSoundly(sess[s].run)
<1> DEFINE r == sess[s].run
           saw == sess[s].saw
<1>1. /\ Types /\ r \in Runs /\ RowSound(run[r]) /\ HandlerSound(sess[s], run[r])
      /\ r = sess[s].run /\ saw = sess[s].saw
  BY DEF OrderlyInv, Types, TypeOK, Session
<1> HIDE DEF r, saw
<1> USE DEF WritesSoundly, StaysTerminal, Writes
<1>2. CASE Tokenise(s)
  BY <1>1, <1>2, HandlerWrites DEF RowSound
<1>3. CASE Withdraw(s)
  <2>1. saw.status = "queued" /\ run[r].status = "queued"
    BY <1>1, <1>3 DEF Withdraw, At, HandlerSound, Submitting
  <2>2. run'[r].status = "failed" /\ \A q \in Runs : q # r => run'[q] = run[q]
    BY <1>1, <1>3, <2>1, HandlerWrites DEF Flushed
  <2> QED
    BY <1>1, <2>1, <2>2 DEF RowSound, Terminal
<1>4. CASE ClaimLease(s) /\ Claimable(r)
  <2>1. run[r].status = "queued" /\ ~run[r].done
    BY <1>1, <1>4 DEF Claimable, RowSound, Terminal, Types, TypeOK, Row
  <2>2. /\ run'[r].status = "running" /\ run'[r].done = run[r].done
        /\ \A q \in Runs : q # r => run'[q] = run[q]
    BY <1>1, <1>4, HandlerWrites
  <2> QED
    BY <1>1, <2>1, <2>2 DEF RowSound, Terminal
<1>5. CASE ClaimLease(s) /\ ~Claimable(r)
  BY <1>1, <1>5 DEF ClaimLease
<1>6. CASE ExtendLease(s) \/ CancelRunning(s)
  BY <1>1, <1>6, HandlerWrites DEF RowSound
<1>7. CASE Requeue(s)
  <2>1. run[r].status = "running" /\ saw.lease = run[r].lease
    BY <1>1, <1>7 DEF Requeue, At, HandlerSound
  <2>2. /\ run'[r].status = "queued" /\ run'[r].done = run[r].done
        /\ run'[r].lease = NoLease
        /\ \A q \in Runs : q # r => run'[q] = run[q]
    BY <1>1, <1>7, <2>1, HandlerWrites DEF Flushed
  <2> QED
    BY <1>1, <2>1, <2>2 DEF RowSound, Terminal
<1>8. CASE Exhaust(s) \/ PreflightFailed(s)
  <2>1. run[r].status = "running"
    BY <1>1, <1>8 DEF Exhaust, PreflightFailed, At, HandlerSound
  <2>2. run'[r].status = "failed" /\ \A q \in Runs : q # r => run'[q] = run[q]
    BY <1>1, <1>8, HandlerWrites
  <2> QED
    BY <2>1, <2>2, <1>1 DEF RowSound, Terminal
<1>9. CASE ConsumeToken(s)
  BY <1>1, <1>9, HandlerWrites DEF RowSound
<1>10. CASE ClaimLocally(s) /\ run[r].status = "queued"
  <2>1. ~run[r].done
    BY <1>1, <1>10 DEF RowSound, Terminal, Types, TypeOK, Row
  <2>2. /\ run'[r].status = "running" /\ run'[r].done = run[r].done
        /\ \A q \in Runs : q # r => run'[q] = run[q]
    BY <1>1, <1>10, HandlerWrites
  <2> QED
    BY <1>1, <1>10, <2>1, <2>2 DEF RowSound, Terminal
<1>11. CASE ClaimLocally(s) /\ run[r].status # "queued"
  BY <1>1, <1>11 DEF ClaimLocally
<1>12. CASE Discard(s)
  <2>1. /\ saw.status \in {"running", "cancelled"}
        /\ saw.status = "cancelled" => run[r].status = "cancelled"
        /\ run[r].status \in {"running", "cancelled"}
    BY <1>1, <1>12 DEF Discard, At, HandlerSound, Ending
  <2>2. Flushed(saw.status, "cancelled", run[r].status) = "cancelled"
    BY <2>1 DEF Flushed
  <2>3. run'[r].status = "cancelled" /\ \A q \in Runs : q # r => run'[q] = run[q]
    BY <1>1, <1>12, <2>2, HandlerWrites
  <2> QED
    BY <1>1, <2>1, <2>3 DEF RowSound, Terminal
<1>13. CASE CancelQueued(s)
  <2>1. run[r].status = "queued"
    BY <1>1, <1>13 DEF CancelQueued
  <2>2. run'[r].status = "cancelled" /\ \A q \in Runs : q # r => run'[q] = run[q]
    BY <1>1, <1>13, HandlerWrites
  <2> QED
    BY <1>1, <2>1, <2>2 DEF RowSound, Terminal
<1>14. ASSUME NEW status \in {"patch_ready", "failed"}, NEW withPatch \in BOOLEAN,
              Finalize(s, status, withPatch)
       PROVE  WritesSoundly(r)
  <2>1. run[r].status = "running"
    BY <1>1, <1>14 DEF Finalize, Finalizable
  <2>2. run'[r].status = status /\ \A q \in Runs : q # r => run'[q] = run[q]
    BY <1>1, <1>14, HandlerWrites
  <2> QED
    BY <1>1, <2>1, <2>2 DEF RowSound, Terminal
<1> QED
  BY <1>1, <1>2, <1>3, <1>4, <1>5, <1>6, <1>7, <1>8, <1>9, <1>10, <1>11, <1>12, <1>13, <1>14


\* Where submissions and sweeps are alone, no step finds its row changed under it.
LEMMA OrderlyStep ==
  ASSUME OrderlyInv, [Next]_vars, OwnersAlone'
  PROVE  OrderlyInv' /\ \A r \in Runs : StaysTerminal(r)
<1> DEFINE Goal == OrderlyInv' /\ \A r \in Runs : StaysTerminal(r)
<1>0. /\ sess \in [Sessions -> Session] /\ run \in [Runs -> Row]
      /\ \A s \in Sessions : sess[s].run \in Runs /\ sess[s].lease \in Leases
      /\ \A r \in Runs : RowSound(run[r]) /\ run[r] \in Row
      /\ \A s \in Sessions : HandlerSound(sess[s], run[sess[s].run])
      /\ Types /\ Types'
  BY TypesStep DEF OrderlyInv, Types, TypeOK, Session
\* One handler steps and writes its row in one of the ways that the others do not mind.
<1>1. ASSUME NEW s \in Sessions, Only(s), NEW r \in Runs, WritesSoundly(r),
             \/ Quiet(run[r], run'[r])
             \/ Nobody(s, r, Committed)
             \/ Nobody(s, r, Submitting \cup {"sweep", "execute"}) /\ Closing(run[r], run'[r]),
             HandlerSound(sess'[s], run'[sess'[s].run]),
             sess'[s].pc = "execute" => Nobody(s, sess'[s].run, Ending),
             sess'[s].pc \in Ending => Nobody(s, sess'[s].run, {"execute"})
      PROVE  Goal
  <2>1. OrderlyInv'
    BY <1>0, <1>1, StepKeeps
  <2> QED
    BY <1>0, <1>1, <2>1 DEF WritesSoundly, StaysTerminal
\* It writes nothing.
<1>2. ASSUME NEW s \in Sessions, Only(s), run' = run,
             HandlerSound(sess'[s], run'[sess'[s].run]),
             sess'[s].pc \in Ending
               => sess'[s].pc # "execute" /\ Nobody(s, sess'[s].run, {"execute"})
      PROVE  Goal
  <2>1. PICK r \in Runs : TRUE
    BY RunsAssumption
  <2>2. WritesSoundly(r) /\ Quiet(run[r], run'[r])
    BY <1>0, <1>2 DEF WritesSoundly, StaysTerminal, Quiet
  <2>3. "execute" \in Ending
    BY DEF Ending
  <2> QED
    BY <1>1, <1>2, <2>2, <2>3
\* It ends.
<1>3. ASSUME NEW s \in Sessions, Finish(s) 
      PROVE  /\ Only(s) /\ HandlerSound(sess'[s], run'[sess'[s].run])
             /\ sess'[s].pc # "execute" /\ sess'[s].pc \notin Ending
  <2>1. sess'[s].pc = "idle" /\ Only(s)
    BY <1>0, <1>3, FinishEffect, IdleTyped DEF Only
  <2> QED
    BY <2>1 DEF HandlerSound, Submitting, Ending
<1>4. ASSUME NEW s \in Sessions, Finish(s), NEW r \in Runs, WritesSoundly(r),
             \/ Quiet(run[r], run'[r])
             \/ Nobody(s, r, Committed)
             \/ Nobody(s, r, Submitting \cup {"sweep", "execute"}) /\ Closing(run[r], run'[r])
      PROVE  Goal
  BY <1>1, <1>3, <1>4
<1>5. ASSUME NEW s \in Sessions, Finish(s), run' = run PROVE Goal
  BY <1>2, <1>3, <1>5
<1> HIDE DEF Goal
\* It goes to a step at which it relies on nothing.
<1>6. ASSUME NEW s \in Sessions, Only(s), run' = run,
             \/ sess'[s].pc \in {"idle", "claim", "beat", "cancel_queued", "cancel_running"}
             \/ sess'[s].pc = "take" /\ sess'[s].lease = NoLease
      PROVE  Goal
  <2>1. HandlerSound(sess'[s], run'[sess'[s].run]) /\ sess'[s].pc \notin Ending
    BY <1>6 DEF HandlerSound, Submitting, Ending
  <2> QED
    BY <1>2, <1>6, <2>1
\* It goes on to end its run.
<1>7. ASSUME NEW s \in Sessions, sess[s].pc \in Ending
      PROVE  Nobody(s, sess[s].run, {"execute"})
  BY <1>7, OwnersAreFree DEF Nobody
<1>8. ASSUME NEW s \in Sessions, ProviderAccepted(s) \/ Abort(s) PROVE Goal
  BY <1>5, <1>8 DEF ProviderAccepted, Abort
<1>9. ASSUME NEW s \in Sessions, NEW r \in Runs, Submit(s, r) PROVE Goal
  <2>1. Writes(r, "queued", run[r].done, run[r].lease, run[r].token)
    BY <1>0, <1>9, SubmitWrites
  <2>2. /\ run[r].status = "absent" /\ run'[r].status = "queued"
        /\ run'[r].done = run[r].done /\ run'[r].lease = run[r].lease
        /\ \A q \in Runs : q # r => run'[q] = run[q]
    BY <1>9, <2>1 DEF Writes, Submit
  <2>3. WritesSoundly(r)
    BY <1>0, <2>2 DEF WritesSoundly, RowSound, StaysTerminal, Terminal
  <2>4. Nobody(s, r, Committed)
    BY <2>2, AbsentIsFree
  <2>5. /\ Only(s)
        /\ sess'[s].pc \in {"idle", "tokenise"}
        /\ sess'[s].pc = "tokenise" => sess'[s].run = r
    <3>1. CASE Begin(s, "tokenise", r, NoWorker)
      BY <1>0, <3>1 DEF Begin, Handler, Only
    <3>2. CASE sess' = sess
      <4>1. sess[s].pc = "idle"
        BY <1>9 DEF Submit, Idles, At
      <4> QED
        BY <3>2, <4>1 DEF Only
    <3> QED
      BY <1>9, <3>1, <3>2 DEF Submit
  <2>6. HandlerSound(sess'[s], run'[sess'[s].run]) /\ sess'[s].pc \notin Ending
    BY <2>2, <2>5 DEF HandlerSound, Submitting, Ending
  <2>7. "execute" \in Ending
    BY DEF Ending
  <2> QED
    BY <1>1, <2>3, <2>4, <2>5, <2>6, <2>7
<1>10. ASSUME NEW s \in Sessions, Tokenise(s) PROVE Goal
  <2> DEFINE r == sess[s].run
             new == [run[r] EXCEPT !.worker = Agent[r], !.token = "live"]
  <2>1. run[r] \in Row /\ r \in Runs /\ run[r].status = "queued"
    BY <1>0, <1>10 DEF Tokenise, At, HandlerSound, Submitting
  <2>2. /\ new.status = run[r].status /\ new.lease = run[r].lease
        /\ new.attempts = run[r].attempts /\ new.cancel = run[r].cancel
    BY <2>1 DEF Row
  <2>3. run' = [run EXCEPT ![r] = new] /\ sess' = [sess EXCEPT ![s].pc = "send", ![s].saw = new]
    BY <1>10 DEF Tokenise
  <2> HIDE DEF new
  <2>4. /\ sess'[s].pc = "send" /\ sess'[s].saw = new /\ sess'[s].run = r /\ run'[r] = new
        /\ Only(s)
    BY <1>0, <2>1, <2>3 DEF Session, Only
  <2>5. HandlerSound(sess'[s], run'[sess'[s].run]) /\ sess'[s].pc \notin Ending
    BY <2>1, <2>2, <2>4 DEF HandlerSound, Ending
  <2>6. WritesSoundly(r)
    BY <1>10, SoundWrites
  <2>7. Quiet(run[r], run'[r]) /\ "execute" \in Ending
    BY <2>2, <2>4 DEF Quiet, Ending
  <2> QED
    BY <1>1, <2>1, <2>4, <2>5, <2>6, <2>7
<1>11. ASSUME NEW s \in Sessions, CallProvider(s) \/ ProviderFailed(s) PROVE Goal
  <2>1. /\ run' = run /\ run[sess[s].run].status = "queued" /\ sess[s].saw.status = "queued"
        /\ sess'[s].pc \in {"sent", "withdraw"} /\ sess'[s].run = sess[s].run
        /\ sess'[s].saw \in {sess[s].saw, run[sess[s].run]}
        /\ Only(s)
    BY <1>0, <1>11
    DEF CallProvider, ProviderFailed, Goto, At, HandlerSound, Session, Only, Submitting
  <2>2. HandlerSound(sess'[s], run'[sess'[s].run]) /\ sess'[s].pc \notin Ending
    BY <2>1 DEF HandlerSound, Ending
  <2> QED
    BY <1>2, <2>1, <2>2
<1>12. ASSUME NEW s \in Sessions, Withdraw(s) \/ Requeue(s) \/ Exhaust(s) \/ PreflightFailed(s)
       PROVE  Goal
  <2>1. Finish(s) /\ sess[s].pc \in Submitting \cup {"sweep", "execute"}
    BY <1>12 DEF Withdraw, Requeue, Exhaust, PreflightFailed, At, Submitting
  <2>2. WritesSoundly(sess[s].run) /\ Nobody(s, sess[s].run, Committed)
    BY <1>12, <2>1, SoundWrites, OwnersAreFree
  <2> QED
    BY <1>0, <1>4, <2>1, <2>2
<1>13. ASSUME NEW s \in Sessions,
              \/ ClaimLease(s) /\ Claimable(sess[s].run)
              \/ CancelQueued(s)
       PROVE  Goal
  <2>1. /\ Finish(s) /\ sess[s].pc \notin Bystanding /\ run[sess[s].run].status = "queued"
    BY <1>13 DEF ClaimLease, CancelQueued, At, Claimable, Bystanding
  <2>2. WritesSoundly(sess[s].run) /\ Nobody(s, sess[s].run, Committed)
    BY <1>13, <2>1, SoundWrites, QueuedIsFree
  <2> QED
    BY <1>0, <1>4, <2>1, <2>2
<1>14. ASSUME NEW s \in Sessions,
              \/ ClaimLease(s) /\ ~Claimable(sess[s].run)
              \/ ClaimLocally(s) /\ run[sess[s].run].status # "queued"
       PROVE  Goal
  BY <1>5, <1>14 DEF ClaimLease, ClaimLocally
<1>15. ASSUME NEW s \in Sessions, ExtendLease(s) \/ CancelRunning(s) PROVE Goal
  <2> DEFINE r == sess[s].run
  <2>0. r \in Runs /\ r = sess[s].run
    BY <1>0
  <2> HIDE DEF r
  <2>1. run'[r].status = run[r].status /\ run'[r].lease = run[r].lease
    BY <1>0, <1>15, <2>0, HandlerWrites DEF Writes
  <2>2. \/ KeepsRest(r)
        \/ /\ run'[r].attempts = run[r].attempts
           /\ run'[r].cancel = (run[r].cancel \/ (run[r].status = "running" /\ ~run[r].done))
    BY <1>0, <1>15, <2>0, RestWrites
  <2>3. Quiet(run[r], run'[r])
    BY <1>0, <2>0, <2>1, <2>2 DEF KeepsRest, Quiet, Row
  <2>4. Finish(s) /\ WritesSoundly(r)
    BY <1>15, <2>0, SoundWrites DEF ExtendLease, CancelRunning
  <2> QED
    BY <1>4, <2>0, <2>3, <2>4
<1>16. ASSUME NEW s \in Sessions,
              \/ Discard(s)
              \/ \E status \in {"patch_ready", "failed"}, withPatch \in BOOLEAN :
                   Finalize(s, status, withPatch)
       PROVE  Goal
  <2> DEFINE r == sess[s].run
  <2>0. r \in Runs /\ r = sess[s].run
    BY <1>0
  <2> HIDE DEF r
  <2>1. Finish(s) /\ sess[s].pc \in Ending
    BY <1>16 DEF Discard, Finalize, At, Ending
  <2>2. WritesSoundly(r) /\ Nobody(s, r, Submitting \cup {"sweep", "execute"})
    BY <1>16, <2>0, <2>1, SoundWrites, OwnersAreFree
  <2>3. run'[r].cancel = run[r].cancel
    BY <1>0, <1>16, <2>0, RestWrites DEF KeepsRest
  <2>4. CASE Discard(s)
    <3>1. /\ sess[s].saw.status \in {"running", "cancelled"}
          /\ sess[s].saw.status = "cancelled" => run[r].status = "cancelled"
      BY <1>0, <2>0, <2>4 DEF Discard, At, HandlerSound
    <3>2. Flushed(sess[s].saw.status, "cancelled", run[r].status) = "cancelled"
      BY <3>1 DEF Flushed
    <3>3. run'[r].status = "cancelled" /\ run'[r].lease = run[r].lease
      BY <1>0, <2>0, <2>4, <3>2, HandlerWrites DEF Writes
    <3> QED
      BY <1>4, <2>0, <2>1, <2>2, <2>3, <3>3 DEF Closing, Terminal
  <2>5. ASSUME NEW status \in {"patch_ready", "failed"}, NEW withPatch \in BOOLEAN,
               Finalize(s, status, withPatch)
        PROVE  Goal
    <3>1. run'[r].status = status /\ run'[r].lease = run[r].lease
      BY <1>0, <2>0, <2>5, HandlerWrites DEF Writes
    <3>2. ~run[r].cancel
      BY <2>0, <2>5 DEF Finalize, Finalizable
    <3> QED
      BY <1>4, <2>0, <2>1, <2>2, <2>3, <3>1, <3>2 DEF Closing, Terminal
  <2> QED
    BY <1>16, <2>4, <2>5
<1>17. ASSUME NEW s \in Sessions, NEW r \in Runs,
              \/ ProcessLocally(s, r) \/ Cancel(s, r)
              \/ \E w \in Workers : SelectCandidate(s, w, r)
              \/ \E w \in Workers, n \in 1 .. MaxAttempts : Heartbeat(s, r, <<n, w>>)
       PROVE  Goal
  <2>1. run' = run
    BY <1>17 DEF ProcessLocally, Cancel, SelectCandidate, Heartbeat
  <2>2. PICK step \in {"take", "claim", "beat", "cancel_queued", "cancel_running"} :
          \E w : Begin(s, step, r, w)
    BY <1>17 DEF ProcessLocally, Cancel, SelectCandidate, Heartbeat
  <2>3. Only(s) /\ sess'[s].pc = step /\ sess'[s].lease = NoLease
    BY <1>0, <2>2 DEF Begin, Handler, Only
  <2> QED
    BY <1>6, <2>1, <2>3
\* A handler remembers the row that it has just read.
<1>18. ASSUME NEW s \in Sessions, NEW step, NEW r \in Runs, NEW w, NEW l, Load(s, step, r, w, l)
       PROVE  /\ Only(s) /\ sess'[s].pc = step /\ sess'[s].run = r /\ sess'[s].lease = l
              /\ sess'[s].saw = run[r]
  BY <1>0, <1>18 DEF Load, Handler, Only
<1>19. ASSUME NEW s \in Sessions, NEW r \in Runs, Sweep(s, r) PROVE Goal
  <2>1. run' = run /\ run[r].status = "running" /\ Load(s, "sweep", r, NoWorker, NoLease)
    BY <1>19 DEF Sweep
  <2>2. /\ Only(s) /\ sess'[s].pc = "sweep" /\ sess'[s].run = r /\ sess'[s].saw = run[r]
    BY <1>18, <2>1
  <2>3. HandlerSound(sess'[s], run'[sess'[s].run]) /\ sess'[s].pc \notin Ending
    BY <2>1, <2>2 DEF HandlerSound, Submitting, Ending
  <2> QED
    BY <1>2, <2>1, <2>2, <2>3
<1>20. ASSUME NEW s \in Sessions, NEW r \in Runs, NEW w \in Workers, NEW n \in 1 .. MaxAttempts,
              Complete(s, r, <<n, w>>)
       PROVE  Goal
  <2>1. /\ Load(s, "consume", r, w, <<n, w>>) /\ run' = run
        /\ run[r].status = "running" /\ run[r].lease = <<n, w>>
    BY <1>20 DEF Complete, LeaseIsCurrent
  <2>2. /\ Only(s) /\ sess'[s].pc = "consume" /\ sess'[s].run = r
        /\ sess'[s].lease = <<n, w>>
    BY <1>18, <2>1
  <2>3. HandlerSound(sess'[s], run'[sess'[s].run])
    BY <2>1, <2>2 DEF HandlerSound, Submitting, Ending, Terminal
  <2>4. <<n, w>> # NoLease
    BY AttemptsAssumption DEF NoLease
  <2>5. Nobody(s, r, {"execute"})
    BY <1>0, <2>1, <2>4 DEF Nobody, HandlerSound, Ending
  <2> QED
    BY <1>2, <2>1, <2>2, <2>3, <2>5
\* A handler that has been ending its run, and knows what it knew, goes on with it.
<1>21. ASSUME NEW s \in Sessions, sess[s].pc \in Ending,
              sess'[s].pc \in {"reload", "finalize"}, sess'[s].run = sess[s].run,
              sess'[s].lease = sess[s].lease, 
              Quiet(run[sess[s].run], run'[sess[s].run])
       PROVE  /\ HandlerSound(sess'[s], run'[sess'[s].run])
              /\ Nobody(s, sess'[s].run, {"execute"})
  <2>1. Nobody(s, sess'[s].run, {"execute"})
    BY <1>7, <1>21
  <2>2. HandlerSound(sess[s], run'[sess[s].run])
    BY <1>0, <1>21, QuietKeeps
  <2>3. HandlerSound(sess'[s], run'[sess'[s].run])
    BY <1>21, <2>2 DEF HandlerSound, Submitting, Ending
  <2> QED
    BY <2>1, <2>3
<1>22. ASSUME run' = run, NEW r \in Runs PROVE Quiet(run[r], run'[r])
  BY <1>0, <1>22 DEF Quiet
<1>23. ASSUME NEW s \in Sessions, ConsumeToken(s) PROVE Goal
  <2> DEFINE r == sess[s].run
  <2>0. r \in Runs /\ r = sess[s].run
    BY <1>0
  <2> HIDE DEF r
  <2>1. run'[r].status = run[r].status /\ run'[r].lease = run[r].lease
    BY <1>0, <1>23, <2>0, HandlerWrites DEF Writes
  <2>2. run'[r].attempts = run[r].attempts /\ run'[r].cancel = run[r].cancel
    BY <1>0, <1>23, <2>0, RestWrites DEF KeepsRest
  <2>3. Quiet(run[r], run'[r])
    BY <2>1, <2>2 DEF Quiet
  <2>4. /\ sess'[s].pc = "reload" /\ sess'[s].run = r /\ sess'[s].lease = sess[s].lease
        /\ Only(s)
    BY <1>0, <1>23, <2>0 DEF ConsumeToken, Session, Only
  <2>5. sess[s].pc \in Ending
    BY <1>23 DEF ConsumeToken, At, Ending
  <2>6. WritesSoundly(r)
    BY <1>23, <2>0, SoundWrites
  <2> QED
    BY <1>1, <1>21, <2>0, <2>3, <2>4, <2>5, <2>6
<1>24. ASSUME NEW s \in Sessions, ClaimLocally(s), run[sess[s].run].status = "queued"
       PROVE  Goal
  <2> DEFINE r == sess[s].run
  <2>0. r \in Runs /\ r = sess[s].run /\ run[r].status = "queued"
    BY <1>0, <1>24
  <2> HIDE DEF r
  <2>1. run'[r].status = "running" /\ run'[r].lease = run[r].lease
    BY <1>0, <1>24, <2>0, HandlerWrites DEF Writes
  <2>2. run[r].lease = NoLease
    BY <1>0, <2>0 DEF RowSound
  <2>3. /\ sess'[s].pc = "execute" /\ sess'[s].run = r /\ sess'[s].lease = sess[s].lease
        /\ Only(s)
    BY <1>0, <1>24, <2>0 DEF ClaimLocally, Goto, Session, Only
  <2>4. sess[s].lease = NoLease /\ sess[s].pc \notin Bystanding
    BY <1>0, <1>24 DEF ClaimLocally, At, HandlerSound, Bystanding
  <2>5. HandlerSound(sess'[s], run'[sess'[s].run])
    BY <2>1, <2>2, <2>3, <2>4 DEF HandlerSound, Submitting, Ending, Terminal
  <2>6. WritesSoundly(r)
    BY <1>24, <2>0, SoundWrites
  <2>7. Nobody(s, r, Committed)
    BY <2>0, <2>4, QueuedIsFree
  <2>8. Nobody(s, r, Ending) /\ Nobody(s, r, {"execute"})
    BY <2>7 DEF Nobody, Committed, Ending
  <2> QED
    BY <1>1, <2>0, <2>3, <2>5, <2>6, <2>7, <2>8
<1>25. ASSUME NEW s \in Sessions, Executed(s) \/ Reload(s) \/ FinalizationLost(s) PROVE Goal
  <2> DEFINE r == sess[s].run
  <2>0. r \in Runs /\ r = sess[s].run
    BY <1>0
  <2> HIDE DEF r
  <2>1. run' = run /\ sess[s].pc \in {"execute", "reload", "finalize"}
    BY <1>25 DEF Executed, Reload, FinalizationLost, At
  <2>2. sess[s].pc \in Ending
    BY <2>1 DEF Ending
  <2>3. \/ Finish(s) \/ Goto(s, "reload") \/ Goto(s, "finalize")
        \/ Load(s, "discard", r, sess[s].worker, sess[s].lease) /\ run[r].cancel
    BY <1>25, <2>0 DEF Executed, Reload, FinalizationLost
  <2>4. ASSUME NEW step \in {"reload", "finalize"}, Goto(s, step) PROVE Goal
    <3>1. /\ sess'[s].pc = step /\ sess'[s].run = r /\ sess'[s].lease = sess[s].lease
          /\ Only(s)
      BY <1>0, <2>0, <2>4 DEF Goto, Session, Only
    <3> QED
      BY <1>2, <1>21, <1>22, <2>0, <2>1, <2>2, <3>1
  <2>5. ASSUME Load(s, "discard", r, sess[s].worker, sess[s].lease), run[r].cancel PROVE Goal
    <3>1. /\ sess'[s].pc = "discard" /\ sess'[s].run = r /\ sess'[s].lease = sess[s].lease
          /\ sess'[s].saw = run[r] /\ Only(s)
      BY <1>18, <2>0, <2>5
    <3>2. /\ run[r].lease = sess[s].lease
          /\ run[r].status \in {"running", "cancelled"}
      BY <1>0, <2>0, <2>2, <2>5 DEF HandlerSound
    <3>3. HandlerSound(sess'[s], run'[sess'[s].run])
      BY <2>1, <2>5, <3>1, <3>2 DEF HandlerSound, Submitting, Ending, Terminal
    <3> QED
      BY <1>2, <1>7, <2>0, <2>1, <2>2, <3>1, <3>3
  <2> QED
    BY <1>5, <2>1, <2>3, <2>4, <2>5
<1>26. ASSUME NEW s \in Sessions, CancelLostRace(s) PROVE Goal
  <2>1. run' = run /\ (Finish(s) \/ Goto(s, "cancel_running"))
    BY <1>26 DEF CancelLostRace
  <2>2. Goto(s, "cancel_running") => Only(s) /\ sess'[s].pc = "cancel_running"
    BY <1>0 DEF Goto, Session, Only
  <2> QED
    BY <1>5, <1>6, <2>1, <2>2
\* No handler steps.
<1>27. ASSUME sess' = sess,
              \A r \in Runs : /\ RowSound(run'[r]) /\ StaysTerminal(r)
                              /\ Quiet(run[r], run'[r])
       PROVE  Goal
  <2>1. \A s \in Sessions : HandlerSound(sess'[s], run'[sess'[s].run])
    BY <1>0, <1>27, QuietKeeps
  <2>2. LocalAlone'
    BY <1>27 DEF OrderlyInv, LocalAlone, At
  <2> QED
    BY <1>0, <1>27, <2>1, <2>2 DEF Goal, OrderlyInv
<1>28. ASSUME NEW r \in Runs, LeaseExpires(r) \/ TokenExpires(r) PROVE Goal
  <2>1. /\ run'[r].status = run[r].status /\ run'[r].done = run[r].done
        /\ run'[r].lease = run[r].lease
        /\ \A q \in Runs : q # r => run'[q] = run[q]
    BY <1>0, <1>28, ClockWrites DEF Writes
  <2>2. /\ sess' = sess
        /\ run'[r].attempts = run[r].attempts /\ run'[r].cancel = run[r].cancel
    BY <1>0, <1>28 DEF LeaseExpires, TokenExpires, Row
  <2>3. \A q \in Runs : /\ RowSound(run'[q]) /\ StaysTerminal(q)
                        /\ Quiet(run[q], run'[q])
    BY <1>0, <2>1, <2>2 DEF RowSound, StaysTerminal, Quiet
  <2> QED
    BY <1>27, <2>2, <2>3
<1>29. ASSUME UNCHANGED vars PROVE Goal
  <2>1. run' = run /\ sess' = sess
    BY <1>29 DEF vars
  <2> QED
    BY <1>0, <1>22, <1>27, <2>1 DEF StaysTerminal
<1>30. Goal
  BY <1>8, <1>9, <1>10, <1>11, <1>12, <1>13, <1>14, <1>15, <1>16, <1>17, <1>19, <1>20, <1>23,
     <1>24, <1>25, <1>26, <1>28, <1>29
  DEF Next, Enqueueing, Leasing, Sweeping, LocalWorking, Finalizing, Cancelling
<1> QED
  BY <1>30 DEF Goal

\* Before any request, nothing is known to be otherwise.
LEMMA OrderlyInit == Init => OrderlyInv
<1> SUFFICES ASSUME Init PROVE OrderlyInv
  OBVIOUS
<1>1. Types
  BY LedgerInit DEF Ledger
<1>2. \A r \in Runs : RowSound(run[r])
  BY DEF Init, Absent, RowSound
<1>3. \A s \in Sessions : sess[s] = Idle /\ sess[s].pc = "idle"
  BY IdleTyped DEF Init
<1>4. \A s \in Sessions : HandlerSound(sess[s], run[sess[s].run])
  BY <1>3 DEF HandlerSound, Submitting, Ending
<1>5. OwnersAlone /\ LocalAlone
  BY <1>3 DEF OwnersAlone, LocalAlone, At, Submitting
<1> QED
  BY <1>1, <1>2, <1>4, <1>5 DEF OrderlyInv

\* The orderly behaviours keep both invariants, and their terminal statuses.
LEMMA OrderlyInvariant ==
  OrderlySpec => /\ [](OrderlyInv /\ Ledger)
                 /\ [][OrderlyInv /\ [Next]_vars /\ \A r \in Runs : StaysTerminal(r)]_vars
<1>1. Init => OrderlyInv /\ Ledger
  BY OrderlyInit, LedgerInit
<1>2. ASSUME OrderlyInv, Ledger, [Next /\ OwnersAlone']_vars
      PROVE  OrderlyInv' /\ Ledger' /\ [Next]_vars /\ \A r \in Runs : StaysTerminal(r)
  <2>1. [Next]_vars
    BY <1>2
  <2>2. Ledger'
    BY <1>2, <2>1, LedgerStep
  <2>3. OwnersAlone'
    BY <1>2 DEF vars, OrderlyInv, OwnersAlone
  <2> QED
    BY <1>2, <2>1, <2>2, <2>3, OrderlyStep
<1> QED
  BY <1>1, <1>2, PTL DEF OrderlySpec

\* A waiting or running run has its reservation.
LEMMA OpenIsFunded ==
  ASSUME OrderlyInv, Ledger, NEW r \in Runs, run[r].status \in {"queued", "running"}
  PROVE  hold[r] = "reserved"
<1>1. ~run[r].done /\ hold[r] \in Holds
  BY DEF OrderlyInv, RowSound, Terminal, Types, TypeOK, Holds, Row
<1> QED
  BY <1>1 DEF Ledger, SubmittedReserved, HeldWhileOpen, Holds

\* Where submissions and sweeps are alone, a run is only executed against a reservation
\* that is still held.
THEOREM OrderlyRunningIsFunded == OrderlySpec => []RunningIsFunded
<1>1. OrderlyInv /\ Ledger => RunningIsFunded
  BY OpenIsFunded DEF RunningIsFunded
<1> QED
  BY <1>1, OrderlyInvariant, PTL

\* Where submissions and sweeps are alone, a terminal status is the run's outcome: no
\* step changes it.
THEOREM OrderlyTerminalIsFinal == OrderlySpec => TerminalIsFinal
<1>1. (\A r \in Runs : StaysTerminal(r))
        => \A r \in Runs : run[r].status \in Terminal => run'[r].status = run[r].status
  BY DEF StaysTerminal
<1> QED
  BY <1>1, OrderlyInvariant, PTL DEF TerminalIsFinal

\* Where submissions and sweeps are alone, a completion takes effect only while the lease
\* it presented is the run's: nothing requeues the run between the check and the
\* finalization.
THEOREM OrderlyCurrentLeaseFinalizes == OrderlySpec => OnlyCurrentLeaseFinalizes
<1>1. OrderlyInv
        => \A s \in Sessions : LET r == sess[s].run IN
             (At(s, "finalize") /\ ~run[r].done /\ run'[r].done /\ sess'[s] = Idle)
               => run[r].lease = sess[s].lease
  BY DEF OrderlyInv, HandlerSound, At, Ending
<1> QED
  BY <1>1, OrderlyInvariant, PTL DEF OnlyCurrentLeaseFinalizes

-----------------------------------------------------------------------------
(***************************************************************************)
(* Orderly handlers implement RunLifecycle.                                *)
(***************************************************************************)
Stages == [r \in Runs |-> run[r].status]
Leased == [r \in Runs |-> run[r].lease]
Tried  == [r \in Runs |-> run[r].attempts]

\* What the owner is told of run r after a step; of the other runs, nothing new.
Told(r, status, lease, attempts, account) ==
  /\ \A q \in Runs : q # r => run'[q] = run[q]
  /\ run'[r].status = status /\ run'[r].lease = lease /\ run'[r].attempts = attempts
  /\ hold' = [hold EXCEPT ![r] = account]

LEMMA ToldIs ==
  ASSUME NEW r \in Runs, NEW status, NEW lease, NEW attempts, NEW account,
         Told(r, status, lease, attempts, account)
  PROVE  /\ Stages' = [Stages EXCEPT ![r] = status]
         /\ Leased' = [Leased EXCEPT ![r] = lease]
         /\ Tried' = [Tried EXCEPT ![r] = attempts]
BY DEF Told, Stages, Leased, Tried

LEMMA NothingNew ==
  ASSUME NEW r \in Runs
  PROVE  /\ [Leased EXCEPT ![r] = run[r].lease] = Leased
         /\ [Tried EXCEPT ![r] = run[r].attempts] = Tried
BY DEF Leased, Tried

\* Nothing new is told.
LEMMA ToldNothing ==
  ASSUME hold \in [Runs -> Holds], NEW r \in Runs,
         Told(r, run[r].status, run[r].lease, run[r].attempts, hold[r])
  PROVE  UNCHANGED Lifecycle!lifecycleVars
<1>1. Stages' = Stages /\ Leased' = Leased /\ Tried' = Tried /\ hold' = hold
  BY ToldIs DEF Told, Stages, Leased, Tried
<1> QED
  BY <1>1 DEF Lifecycle!lifecycleVars, Stages, Leased, Tried

\* The step of the lifecycle that each news stands for.
LEMMA ToldSubmitted ==
  ASSUME NEW r \in Runs, run[r].status = "absent",
         Told(r, "queued", run[r].lease, run[r].attempts, "reserved")
  PROVE  Lifecycle!Enqueue(r)
<1>1. Stages' = [Stages EXCEPT ![r] = "queued"] /\ Leased' = Leased /\ Tried' = Tried
  BY ToldIs, NothingNew
<1>2. Stages[r] = "absent" /\ hold' = [hold EXCEPT ![r] = "reserved"]
  BY DEF Told, Stages
<1> QED
  BY <1>1, <1>2 DEF Lifecycle!Enqueue, Stages, Leased, Tried

LEMMA ToldGranted ==
  ASSUME hold \in [Runs -> Holds], NEW r \in Runs, NEW w,
         run[r].status = "queued", run[r].lease = NoLease, hold[r] = "reserved",
         run[r].attempts < MaxAttempts,
         Told(r, "running", <<run[r].attempts + 1, w>>, run[r].attempts + 1, hold[r])
  PROVE  Lifecycle!Grant(r, w)
<1>1. /\ Stages' = [Stages EXCEPT ![r] = "running"]
      /\ Leased' = [Leased EXCEPT ![r] = <<run[r].attempts + 1, w>>]
      /\ Tried' = [Tried EXCEPT ![r] = run[r].attempts + 1]
  BY ToldIs
<1>2. Stages[r] = "queued" /\ Leased[r] = NoLease /\ Tried[r] = run[r].attempts /\ hold' = hold
  BY DEF Told, Stages, Leased, Tried
<1> QED
  BY <1>1, <1>2
  DEF Lifecycle!Grant, Lifecycle!Start, Lifecycle!Vacant, NoLease, Stages, Leased, Tried

LEMMA ToldTaken ==
  ASSUME hold \in [Runs -> Holds], NEW r \in Runs,
         run[r].status = "queued", run[r].lease = NoLease, hold[r] = "reserved",
         Told(r, "running", run[r].lease, run[r].attempts, hold[r])
  PROVE  Lifecycle!TakeLocally(r)
<1>1. Stages' = [Stages EXCEPT ![r] = "running"] /\ Leased' = Leased /\ Tried' = Tried
  BY ToldIs, NothingNew
<1>2. Stages[r] = "queued" /\ Leased[r] = NoLease /\ hold' = hold
  BY DEF Told, Stages, Leased
<1> QED
  BY <1>1, <1>2
  DEF Lifecycle!TakeLocally, Lifecycle!Start, Lifecycle!Vacant, NoLease, Stages, Leased, Tried

LEMMA ToldGivenUp ==
  ASSUME hold \in [Runs -> Holds], NEW r \in Runs,
         run[r].status = "running", run[r].attempts < MaxAttempts,
         Told(r, "queued", NoLease, run[r].attempts, hold[r])
  PROVE  Lifecycle!GiveUp(r)
<1>1. /\ Stages' = [Stages EXCEPT ![r] = "queued"] /\ Leased' = [Leased EXCEPT ![r] = NoLease]
      /\ Tried' = Tried
  BY ToldIs, NothingNew
<1>2. Stages[r] = "running" /\ Tried[r] = run[r].attempts /\ hold' = hold
  BY DEF Told, Stages, Tried
<1> QED
  BY <1>1, <1>2 DEF Lifecycle!GiveUp, Lifecycle!Vacant, NoLease, Stages, Leased, Tried

LEMMA ToldEnded ==
  ASSUME NEW r \in Runs, NEW outcome, NEW how, hold[r] = "reserved",
         Told(r, outcome, run[r].lease, run[r].attempts, how)
  PROVE  Lifecycle!End(r, outcome, how)
<1>1. Stages' = [Stages EXCEPT ![r] = outcome] /\ Leased' = Leased /\ Tried' = Tried
  BY ToldIs, NothingNew
<1>2. hold' = [hold EXCEPT ![r] = how]
  BY DEF Told
<1> QED
  BY <1>1, <1>2 DEF Lifecycle!End, Stages, Leased, Tried

\* Every step is a step of the lifecycle, or nothing new.
LEMMA LifecycleStep ==
  ASSUME OrderlyInv, Ledger, [Next]_vars
  PROVE  [Lifecycle!Next]_(Lifecycle!lifecycleVars)
<1> DEFINE Goal == Lifecycle!Next \/ UNCHANGED Lifecycle!lifecycleVars
<1>0. /\ run \in [Runs -> Row] /\ hold \in [Runs -> Holds] /\ sess \in [Sessions -> Session]
      /\ \A s \in Sessions : sess[s].run \in Runs
      /\ \A s \in Sessions : HandlerSound(sess[s], run[sess[s].run])
      /\ Types
  BY DEF OrderlyInv, Types, TypeOK, Session, Holds
<1>1. ASSUME run' = run, hold' = hold PROVE Goal
  BY <1>1 DEF Lifecycle!lifecycleVars
<1>2. ASSUME NEW r \in Runs, Told(r, run[r].status, run[r].lease, run[r].attempts, hold[r])
      PROVE  Goal
  BY <1>0, <1>2, ToldNothing
\* A write of the row alone tells nothing of the reservation.
<1>3. ASSUME NEW r \in Runs, hold' = hold PROVE hold' = [hold EXCEPT ![r] = hold[r]]
  BY <1>0, <1>3
<1>4. ASSUME NEW r \in Runs, NEW how, Close(r, how)
      PROVE  /\ hold[r] = "reserved" => hold' = [hold EXCEPT ![r] = how]
             /\ hold[r] # "reserved" => hold' = [hold EXCEPT ![r] = hold[r]]
  BY <1>0, <1>4 DEF Close
\* A run that ends.
<1>5. ASSUME NEW r \in Runs, run[r].status = "running",
             NEW outcome \in {"patch_ready", "failed", "cancelled"},
             Told(r, outcome, run[r].lease, run[r].attempts, "settled")
      PROVE  Goal
  <2>1. Lifecycle!End(r, outcome, "settled")
    BY <1>5, OpenIsFunded, ToldEnded
  <2> QED
    BY <1>5, <2>1 DEF Lifecycle!EndRunning, Lifecycle!Next, Lifecycle!Ended
<1>6. ASSUME NEW r \in Runs, run[r].status = "queued", NEW outcome, NEW how,
             \/ outcome = "cancelled" /\ how = "released"
             \/ outcome = "failed" /\ how \in {"released", "settled"},
             Told(r, outcome, run[r].lease, run[r].attempts, how)
      PROVE  Goal
  <2>1. Lifecycle!End(r, outcome, how)
    BY <1>6, OpenIsFunded, ToldEnded
  <2> QED
    BY <1>6, <2>1 DEF Lifecycle!EndQueued, Lifecycle!Next
\* A run that is granted, taken or given up.
<1>7. ASSUME NEW r \in Runs, NEW w \in Workers, run[r].status = "queued",
              run[r].attempts < MaxAttempts,
              Told(r, "running", <<run[r].attempts + 1, w>>, run[r].attempts + 1, hold[r])
       PROVE  Goal
  <2>1. run[r].lease = NoLease /\ hold[r] = "reserved"
    BY <1>7, OpenIsFunded DEF OrderlyInv, RowSound
  <2>2. Lifecycle!Grant(r, w)
    BY <1>0, <1>7, <2>1, ToldGranted
  <2> QED
    BY <2>2 DEF Lifecycle!Next
<1>8. ASSUME NEW r \in Runs, run[r].status = "queued",
              Told(r, "running", run[r].lease, run[r].attempts, hold[r])
       PROVE  Goal
  <2>1. run[r].lease = NoLease /\ hold[r] = "reserved"
    BY <1>8, OpenIsFunded DEF OrderlyInv, RowSound
  <2>2. Lifecycle!TakeLocally(r)
    BY <1>0, <1>8, <2>1, ToldTaken
  <2> QED
    BY <2>2 DEF Lifecycle!Next
<1>9. ASSUME NEW r \in Runs, run[r].status = "running", run[r].attempts < MaxAttempts,
              Told(r, "queued", NoLease, run[r].attempts, hold[r])
       PROVE  Goal
  <2>1. Lifecycle!GiveUp(r)
    BY <1>0, <1>9, ToldGivenUp
  <2> QED
    BY <2>1 DEF Lifecycle!Next
<1> HIDE DEF Goal
<1>10. ASSUME NEW s \in Sessions, NEW r \in Runs, Submit(s, r) PROVE Goal
  <2>1. run[r].status = "absent" /\ hold' = [hold EXCEPT ![r] = "reserved"]
    BY <1>10 DEF Submit
  <2>2. Writes(r, "queued", run[r].done, run[r].lease, run[r].token)
    BY <1>0, <1>10, SubmitWrites
  <2>3. run'[r].attempts = run[r].attempts
    BY <1>0, <1>10 DEF Submit, Row
  <2>4. Told(r, "queued", run[r].lease, run[r].attempts, "reserved")
    BY <2>1, <2>2, <2>3 DEF Told, Writes
  <2>5. Lifecycle!Enqueue(r)
    BY <2>1, <2>4, ToldSubmitted
  <2> QED
    BY <2>5 DEF Goal, Lifecycle!Next
<1>11. ASSUME NEW s \in Sessions,
             \/ CallProvider(s) \/ ProviderAccepted(s) \/ ProviderFailed(s) \/ Executed(s)
             \/ Reload(s) \/ FinalizationLost(s) \/ CancelLostRace(s) \/ Abort(s)
             \/ ClaimLease(s) /\ ~Claimable(sess[s].run)
             \/ ClaimLocally(s) /\ run[sess[s].run].status # "queued"
      PROVE  Goal
  <2>1. run' = run /\ hold' = hold
    BY <1>11
    DEF CallProvider, ProviderAccepted, ProviderFailed, Executed, Reload, FinalizationLost,
      CancelLostRace, Abort, ClaimLease, ClaimLocally
  <2> QED
    BY <1>1, <2>1
<1>12. ASSUME NEW s \in Sessions, NEW r \in Runs,
             \/ ProcessLocally(s, r) \/ Cancel(s, r) \/ Sweep(s, r)
             \/ \E w \in Workers : SelectCandidate(s, w, r)
             \/ \E w \in Workers, n \in 1 .. MaxAttempts :
                  Heartbeat(s, r, <<n, w>>) \/ Complete(s, r, <<n, w>>)
      PROVE  Goal
  <2>1. run' = run /\ hold' = hold
    BY <1>12 DEF ProcessLocally, Cancel, Sweep, SelectCandidate, Heartbeat, Complete
  <2> QED
    BY <1>1, <2>1
<1>13. ASSUME NEW s \in Sessions,
              Tokenise(s) \/ ExtendLease(s) \/ ConsumeToken(s) \/ CancelRunning(s)
       PROVE  Goal
  <2> DEFINE r == sess[s].run
             saw == sess[s].saw
  <2>0. r \in Runs /\ r = sess[s].run /\ saw = sess[s].saw
    BY <1>0
  <2> HIDE DEF r, saw
  <2>1. /\ \A q \in Runs : q # r => run'[q] = run[q]
        /\ run'[r].status = run[r].status /\ run'[r].lease = run[r].lease
    BY <1>0, <1>13, <2>0, HandlerWrites DEF Writes
  <2>2. run'[r].attempts = run[r].attempts
    BY <1>0, <1>13, <2>0, RestWrites DEF KeepsRest
  <2>3. hold' = hold
    BY <1>13 DEF Tokenise, ExtendLease, ConsumeToken, CancelRunning
  <2>4. Told(r, run[r].status, run[r].lease, run[r].attempts, hold[r])
    BY <1>3, <2>0, <2>1, <2>2, <2>3 DEF Told
  <2> QED
    BY <1>2, <2>0, <2>4
<1>14. ASSUME NEW s \in Sessions, Withdraw(s) PROVE Goal
  <2> DEFINE r == sess[s].run
             saw == sess[s].saw
  <2>0. r \in Runs /\ r = sess[s].run /\ saw = sess[s].saw
    BY <1>0
  <2> HIDE DEF r, saw
  <2>1. run[r].status = "queued" /\ saw.status = "queued"
    BY <1>0, <1>14, <2>0 DEF Withdraw, At, HandlerSound, Submitting
  <2>2. Flushed(saw.status, "failed", run[r].status) = "failed"
    BY <2>1 DEF Flushed
  <2>3. /\ \A q \in Runs : q # r => run'[q] = run[q]
        /\ run'[r].status = "failed" /\ run'[r].lease = run[r].lease
    BY <1>0, <1>14, <2>0, <2>2, HandlerWrites DEF Writes
  <2>4. run'[r].attempts = run[r].attempts
    BY <1>0, <1>14, <2>0, RestWrites DEF KeepsRest
  <2>5. PICK how \in {"released", "settled"} : Close(r, how)
    BY <1>14, <2>0 DEF Withdraw
  <2>6. Told(r, "failed", run[r].lease, run[r].attempts, how)
    BY <1>4, <2>0, <2>1, <2>3, <2>4, <2>5, OpenIsFunded DEF Told
  <2> QED
    BY <1>6, <2>0, <2>1, <2>6
<1>15. ASSUME NEW s \in Sessions, ClaimLease(s), Claimable(sess[s].run) PROVE Goal
  <2> DEFINE r == sess[s].run
             w == sess[s].worker
  <2>0. /\ r \in Runs /\ r = sess[s].run /\ w = sess[s].worker /\ w \in Workers
        /\ Claimable(r) /\ hold' = hold
    BY <1>0, <1>15 DEF ClaimLease, Types, LeasesClaimedRemotely
  <2> HIDE DEF r, w
  <2>1. /\ \A q \in Runs : q # r => run'[q] = run[q]
        /\ run'[r].status = "running" /\ run'[r].lease = <<run[r].attempts + 1, w>>
    <3>1. Writes(r, "running", run[r].done, <<run[r].attempts + 1, sess[s].worker>>, run[r].token)
      BY <1>0, <1>15, <2>0, HandlerWrites
    <3> QED
      BY <2>0, <3>1 DEF Writes
  <2>2. run'[r].attempts = run[r].attempts + 1
    BY <1>0, <1>15, <2>0, RestWrites
  <2>3. run[r].status = "queued" /\ run[r].attempts < MaxAttempts
    BY <2>0 DEF Claimable
  <2>4. Told(r, "running", <<run[r].attempts + 1, w>>, run[r].attempts + 1, hold[r])
    BY <1>3, <2>0, <2>1, <2>2 DEF Told
  <2> QED
    BY <1>7, <2>0, <2>3, <2>4
<1>16. ASSUME NEW s \in Sessions, ClaimLocally(s), run[sess[s].run].status = "queued"
       PROVE  Goal
  <2> DEFINE r == sess[s].run
  <2>0. r \in Runs /\ r = sess[s].run /\ run[r].status = "queued"
    BY <1>0, <1>16
  <2> HIDE DEF r
  <2>1. /\ \A q \in Runs : q # r => run'[q] = run[q]
        /\ run'[r].status = "running" /\ run'[r].lease = run[r].lease
    BY <1>0, <1>16, <2>0, HandlerWrites DEF Writes
  <2>2. run'[r].attempts = run[r].attempts /\ hold' = hold
    BY <1>0, <1>16, <2>0, RestWrites DEF KeepsRest, ClaimLocally
  <2>3. Told(r, "running", run[r].lease, run[r].attempts, hold[r])
    BY <1>3, <2>0, <2>1, <2>2 DEF Told
  <2> QED
    BY <1>8, <2>0, <2>3
<1>17. ASSUME NEW s \in Sessions, Requeue(s) PROVE Goal
  <2> DEFINE r == sess[s].run
             saw == sess[s].saw
  <2>0. r \in Runs /\ r = sess[s].run /\ saw = sess[s].saw
    BY <1>0
  <2> HIDE DEF r, saw
  <2>1. /\ run[r].status = "running" /\ saw.lease = run[r].lease
        /\ run[r].attempts < MaxAttempts
    BY <1>0, <1>17, <2>0 DEF Requeue, At, HandlerSound
  <2>2. Flushed(saw.lease, NoLease, run[r].lease) = NoLease
    BY <2>1 DEF Flushed
  <2>3. /\ \A q \in Runs : q # r => run'[q] = run[q]
        /\ run'[r].status = "queued" /\ run'[r].lease = NoLease
    <3>1. Writes(r, "queued", run[r].done, Flushed(saw.lease, NoLease, run[r].lease), run[r].token)
      BY <1>0, <1>17, <2>0, HandlerWrites
    <3> QED
      BY <2>2, <3>1 DEF Writes
  <2>4. KeepsRest(r)
    BY <1>0, <1>17, <2>0, RestWrites
  <2>5. run'[r].attempts = run[r].attempts /\ hold' = hold
    BY <1>17, <2>4 DEF KeepsRest, Requeue
  <2>6. Told(r, "queued", NoLease, run[r].attempts, hold[r])
    BY <1>3, <2>0, <2>3, <2>5 DEF Told
  <2> QED
    BY <1>9, <2>0, <2>1, <2>6
<1>18. ASSUME NEW s \in Sessions, Exhaust(s) \/ PreflightFailed(s) PROVE Goal
  <2> DEFINE r == sess[s].run
             saw == sess[s].saw
  <2>0. r \in Runs /\ r = sess[s].run /\ saw = sess[s].saw
    BY <1>0
  <2> HIDE DEF r, saw
  <2>1. run[r].status = "running" /\ Close(r, "settled")
    BY <1>0, <1>18, <2>0 DEF Exhaust, PreflightFailed, At, HandlerSound
  <2>2. /\ \A q \in Runs : q # r => run'[q] = run[q]
        /\ run'[r].status = "failed" /\ run'[r].lease = run[r].lease
    BY <1>0, <1>18, <2>0, HandlerWrites DEF Writes
  <2>3. run'[r].attempts = run[r].attempts
    BY <1>0, <1>18, <2>0, RestWrites DEF KeepsRest
  <2>4. Told(r, "failed", run[r].lease, run[r].attempts, "settled")
    BY <1>4, <2>0, <2>1, <2>2, <2>3, OpenIsFunded DEF Told
  <2> QED
    BY <1>5, <2>0, <2>1, <2>4
<1>19. ASSUME NEW s \in Sessions, NEW status \in {"patch_ready", "failed"},
              NEW withPatch \in BOOLEAN, Finalize(s, status, withPatch)
       PROVE  Goal
  <2> DEFINE r == sess[s].run
             saw == sess[s].saw
  <2>0. r \in Runs /\ r = sess[s].run /\ saw = sess[s].saw
    BY <1>0
  <2> HIDE DEF r, saw
  <2>1. run[r].status = "running" /\ Close(r, "settled")
    BY <1>19, <2>0 DEF Finalize, Finalizable
  <2>2. /\ \A q \in Runs : q # r => run'[q] = run[q]
        /\ run'[r].status = status /\ run'[r].lease = run[r].lease
    BY <1>0, <1>19, <2>0, HandlerWrites DEF Writes
  <2>3. run'[r].attempts = run[r].attempts
    BY <1>0, <1>19, <2>0, RestWrites DEF KeepsRest
  <2>4. Told(r, status, run[r].lease, run[r].attempts, "settled")
    BY <1>4, <2>0, <2>1, <2>2, <2>3, OpenIsFunded DEF Told
  <2> QED
    BY <1>5, <2>0, <2>1, <2>4
\* A run found cancelled by another handler is cancelled no further.
<1>20. ASSUME NEW s \in Sessions, Discard(s) PROVE Goal
  <2> DEFINE r == sess[s].run
             saw == sess[s].saw
  <2>0. r \in Runs /\ r = sess[s].run /\ saw = sess[s].saw
    BY <1>0
  <2> HIDE DEF r, saw
  <2>1. /\ saw.status \in {"running", "cancelled"}
        /\ saw.status = "cancelled" => run[r].status = "cancelled"
        /\ run[r].status \in {"running", "cancelled"}
    BY <1>0, <1>20, <2>0 DEF Discard, At, HandlerSound, Ending
  <2>2. Flushed(saw.status, "cancelled", run[r].status) = "cancelled"
    BY <2>1 DEF Flushed
  <2>3. /\ \A q \in Runs : q # r => run'[q] = run[q]
        /\ run'[r].status = "cancelled" /\ run'[r].lease = run[r].lease
    <3> DEFINE token == IF saw.token \in {"live", "expired"} THEN "used" ELSE run[r].token
    <3>1. Writes(r, Flushed(saw.status, "cancelled", run[r].status), TRUE, run[r].lease, token)
      BY <1>0, <1>20, <2>0, HandlerWrites
    <3> QED
      BY <2>2, <3>1 DEF Writes
  <2>4. run'[r].attempts = run[r].attempts /\ Close(r, "settled")
    <3>1. KeepsRest(r)
      BY <1>0, <1>20, <2>0, RestWrites
    <3>2. Close(r, "settled")
      BY <1>20, <2>0 DEF Discard
    <3> QED
      BY <3>1, <3>2 DEF KeepsRest
  <2>5. CASE run[r].status = "running"
    <3>1. Told(r, "cancelled", run[r].lease, run[r].attempts, "settled")
      BY <1>4, <2>0, <2>3, <2>4, <2>5, OpenIsFunded DEF Told
    <3> QED
      BY <1>5, <2>0, <2>5, <3>1
  <2>6. CASE run[r].status = "cancelled"
    <3>1. hold[r] # "reserved"
      BY <2>0, <2>6 DEF Ledger, HeldWhileOpen, Terminal
    <3>2. Told(r, run[r].status, run[r].lease, run[r].attempts, hold[r])
      BY <1>4, <2>0, <2>3, <2>4, <2>6, <3>1 DEF Told
    <3> QED
      BY <1>2, <2>0, <3>2
  <2> QED
    BY <2>1, <2>5, <2>6
<1>21. ASSUME NEW s \in Sessions, CancelQueued(s) PROVE Goal
  <2> DEFINE r == sess[s].run
             saw == sess[s].saw
  <2>0. r \in Runs /\ r = sess[s].run /\ saw = sess[s].saw
    BY <1>0
  <2> HIDE DEF r, saw
  <2>1. run[r].status = "queued" /\ Close(r, "released")
    BY <1>21, <2>0 DEF CancelQueued
  <2>2. /\ \A q \in Runs : q # r => run'[q] = run[q]
        /\ run'[r].status = "cancelled" /\ run'[r].lease = run[r].lease
    BY <1>0, <1>21, <2>0, HandlerWrites DEF Writes
  <2>3. run'[r].attempts = run[r].attempts
    BY <1>0, <1>21, <2>0, RestWrites
  <2>4. Told(r, "cancelled", run[r].lease, run[r].attempts, "released")
    BY <1>4, <2>0, <2>1, <2>2, <2>3, OpenIsFunded DEF Told
  <2> QED
    BY <1>6, <2>0, <2>1, <2>4
<1>22. ASSUME NEW r \in Runs, LeaseExpires(r) \/ TokenExpires(r) PROVE Goal
  <2>1. /\ \A q \in Runs : q # r => run'[q] = run[q]
        /\ run'[r].status = run[r].status /\ run'[r].lease = run[r].lease
    BY <1>0, <1>22, ClockWrites DEF Writes
  <2>2. run'[r].attempts = run[r].attempts /\ hold' = hold
    BY <1>0, <1>22 DEF LeaseExpires, TokenExpires, Row
  <2>3. Told(r, run[r].status, run[r].lease, run[r].attempts, hold[r])
    BY <1>3, <2>1, <2>2 DEF Told
  <2> QED
    BY <1>2, <2>3
<1>23. ASSUME UNCHANGED vars PROVE Goal
  BY <1>1, <1>23 DEF vars
<1>24. Goal
  BY <1>10, <1>11, <1>12, <1>13, <1>14, <1>15, <1>16, <1>17, <1>18, <1>19, <1>20, <1>21, <1>22,
     <1>23
  DEF Next, Enqueueing, Leasing, Sweeping, LocalWorking, Finalizing, Cancelling
<1> QED
  BY <1>24 DEF Goal

\* Before any request, no run has been enqueued.
LEMMA LifecycleInit == Init => Lifecycle!Init
<1> SUFFICES ASSUME Init PROVE Lifecycle!Init
  OBVIOUS
<1>1. \A r \in Runs : /\ run[r].status = "absent" /\ run[r].lease = NoLease
                      /\ run[r].attempts = 0
  BY DEF Init, Absent
<1>2. hold = [r \in Runs |-> "none"]
  BY DEF Init
<1> QED
  BY <1>1, <1>2 DEF Lifecycle!Init, Lifecycle!Vacant, NoLease

\* Where submissions and sweeps are alone, every run lives the life its owner is told of:
\* each lease is a new attempt on a waiting run, a run starts only while its reservation
\* is held, and it ends once, by the step that closes its reservation.
THEOREM LifecycleImplemented == OrderlySpec => ImplementsLifecycle
<1>1. OrderlyInv /\ Ledger /\ [Next]_vars => [Lifecycle!Next]_(Lifecycle!lifecycleVars)
  BY LifecycleStep
<1>2. OrderlySpec => Init /\ [][Next]_vars
  BY PTL DEF OrderlySpec
<1> QED
  BY <1>1, <1>2, LifecycleInit, OrderlyInvariant, PTL
  DEF Lifecycle!Spec, ImplementsLifecycle

=============================================================================
