---------------------------- MODULE RunLifecycle ----------------------------
(***************************************************************************)
(* The life of a cloud run as its owner is told it: a run waits in the     *)
(* queue, is granted to one holder at a time, goes back to the queue when  *)
(* the holder is given up, and ends once.  A lease is granted under a new  *)
(* attempt each time, at most MaxAttempts times; a run that ends in the    *)
(* queue may be refunded, one that ends while it is executed is charged.   *)
(* CloudRun implements this specification where OwnersAlone.               *)
(***************************************************************************)
EXTENDS Integers

CONSTANTS
  Runs, Workers,
  NoHolder,        \* holds the lease <<0, NoHolder>> of a run without one
  MaxAttempts

VARIABLES
  stage,      \* the run's status
  lease,      \* the lease under which it is, or was last, executed
  attempts,   \* leases granted so far
  account     \* the run's reservation

lifecycleVars == <<stage, lease, attempts, account>>

Ended  == {"patch_ready", "failed", "cancelled"}
Vacant == <<0, NoHolder>>

Init == /\ stage = [r \in Runs |-> "absent"]
        /\ lease = [r \in Runs |-> Vacant]
        /\ attempts = [r \in Runs |-> 0]
        /\ account = [r \in Runs |-> "none"]

Enqueue(r) == /\ stage[r] = "absent"
              /\ stage' = [stage EXCEPT ![r] = "queued"]
              /\ account' = [account EXCEPT ![r] = "reserved"]
              /\ UNCHANGED <<lease, attempts>>

\* Execution always rests on a reservation that is held.
Start(r) == /\ stage[r] = "queued" /\ lease[r] = Vacant /\ account[r] = "reserved"
            /\ stage' = [stage EXCEPT ![r] = "running"]
            /\ UNCHANGED account

Grant(r, w) == /\ Start(r)
               /\ attempts[r] < MaxAttempts
               /\ attempts' = [attempts EXCEPT ![r] = @ + 1]
               /\ lease' = [lease EXCEPT ![r] = <<attempts[r] + 1, w>>]

TakeLocally(r) == Start(r) /\ UNCHANGED <<lease, attempts>>

GiveUp(r) == /\ stage[r] = "running" /\ attempts[r] < MaxAttempts
             /\ stage' = [stage EXCEPT ![r] = "queued"]
             /\ lease' = [lease EXCEPT ![r] = Vacant]
             /\ UNCHANGED <<attempts, account>>

\* The outcome is written by the step that closes the reservation.
End(r, outcome, how) ==
  /\ account[r] = "reserved"
  /\ stage' = [stage EXCEPT ![r] = outcome]
  /\ account' = [account EXCEPT ![r] = how]
  /\ UNCHANGED <<lease, attempts>>

EndQueued(r) == /\ stage[r] = "queued"
                /\ \/ End(r, "cancelled", "released")
                   \/ End(r, "failed", "released") \/ End(r, "failed", "settled")

EndRunning(r) == /\ stage[r] = "running"
                 /\ \E outcome \in Ended : End(r, outcome, "settled")

Next == \E r \in Runs : \/ Enqueue(r) \/ TakeLocally(r) \/ GiveUp(r)
                        \/ EndQueued(r) \/ EndRunning(r)
                        \/ \E w \in Workers : Grant(r, w)

Spec == Init /\ [][Next]_lifecycleVars
=============================================================================
