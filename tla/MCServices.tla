----------------------------- MODULE MCServices -----------------------------
(***************************************************************************)
(* Five services of the API that share no state: a workspace's money, the  *)
(* caches of the identity provider's client, the daily audit cleanup, the  *)
(* paged log of a cloud run and the planner runs.  A behaviour is one of   *)
(* one of them while the others are as they started.                       *)
(***************************************************************************)
EXTENDS MCBudget, AuthingClient, AuditRetention, LogWindow, PlannerRun, TLC

CONSTANTS projectA, projectB, chatA, repoB

\* A conversation of one project and a repository of the other.
TwoProjects == (chatA :> projectA) @@ (repoB :> projectB)

allVars == <<vars, clientVars, auditVars, logVars, plannerVars>>

AtRest == Init /\ crew = Handlers

MCInit == Init /\ ClientInit /\ AuditInit /\ LogInit /\ PlannerInit

MCNext ==
  \/ ClientInit /\ AuditInit /\ LogInit /\ PlannerInit /\ Next
     /\ UNCHANGED <<clientVars, auditVars, logVars, plannerVars>>
  \/ AtRest /\ AuditInit /\ LogInit /\ PlannerInit /\ ClientNext
     /\ UNCHANGED <<vars, auditVars, logVars, plannerVars>>
  \/ AtRest /\ ClientInit /\ LogInit /\ PlannerInit /\ AuditNext
     /\ UNCHANGED <<vars, clientVars, logVars, plannerVars>>
  \/ AtRest /\ ClientInit /\ AuditInit /\ PlannerInit /\ LogNext
     /\ UNCHANGED <<vars, clientVars, auditVars, plannerVars>>
  \/ AtRest /\ ClientInit /\ AuditInit /\ LogInit /\ PlannerNext
     /\ UNCHANGED <<vars, clientVars, auditVars, logVars>>

MCSpec == MCInit /\ [][MCNext]_allVars

\* Rows, caches and cursors keep to the values that they may hold.
TypesOK == TypeOK /\ ClientTypeOK /\ AuditTypeOK /\ LogTypeOK /\ PlannerTypeOK
=============================================================================
