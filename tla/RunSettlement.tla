--------------------------- MODULE RunSettlement ---------------------------
(***************************************************************************)
(* What the control plane promises about a cloud run that cannot be taken  *)
(* back, however its handlers interleave: the budget reserved for a run is *)
(* closed once, a patch is published at most once and only by the step     *)
(* that closes the reservation, and never for a run whose cancellation was *)
(* accepted.  CloudRun implements this specification.                      *)
(***************************************************************************)
CONSTANT Runs

VARIABLES
  account,     \* the run's reservation
  published,   \* the run's patch is visible
  revoked      \* the run's cancellation was accepted

settlementVars == <<account, published, revoked>>

Init == /\ account = [r \in Runs |-> "none"]
        /\ published = [r \in Runs |-> FALSE]
        /\ revoked = [r \in Runs |-> FALSE]

Reserve(r) == /\ account[r] = "none"
              /\ account' = [account EXCEPT ![r] = "reserved"]
              /\ UNCHANGED <<published, revoked>>

Revoke(r) == /\ account[r] # "none"
             /\ revoked' = [revoked EXCEPT ![r] = TRUE]
             /\ UNCHANGED <<account, published>>

\* The run ends without a patch; it may be revoked by the same step.
Forgo(r, how) == /\ account[r] = "reserved"
                 /\ account' = [account EXCEPT ![r] = how]
                 /\ revoked' \in {revoked, [revoked EXCEPT ![r] = TRUE]}
                 /\ UNCHANGED published

Publish(r) == /\ account[r] = "reserved"
              /\ ~revoked[r]
              /\ account' = [account EXCEPT ![r] = "settled"]
              /\ published' = [published EXCEPT ![r] = TRUE]
              /\ UNCHANGED revoked

Next == \E r \in Runs : \/ Reserve(r) \/ Revoke(r) \/ Publish(r)
                        \/ Forgo(r, "settled") \/ Forgo(r, "released")

Spec == Init /\ [][Next]_settlementVars
=============================================================================
