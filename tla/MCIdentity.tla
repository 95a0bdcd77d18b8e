----------------------------- MODULE MCIdentity -----------------------------
(***************************************************************************)
(* A customer and, beside it, the sign-out of one device session: the two  *)
(* share no state, so a behaviour is one of one part while the other is as *)
(* it started.                                                             *)
(***************************************************************************)
EXTENDS Identity, ProviderLogout

CONSTANTS t1, t2, h1, h2

MCTxs           == {t1, t2}
MCHandlers      == {h1, h2}
MCContinuations == 1 .. 2

allVars == <<vars, logoutVars>>

MCInit == Init /\ LogoutInit

MCNext ==
  \/ LogoutInit /\ Next /\ UNCHANGED logoutVars
  \/ Init /\ ~overlap /\ ~legacy /\ LogoutNext /\ UNCHANGED vars

MCSpec == MCInit /\ [][MCNext]_allVars /\ Fairness

\* Customer and sign-out keep to the statuses and references that their rows may hold.
TypesOK == TypeOK /\ LogoutTypeOK
=============================================================================
