--------------------------- MODULE MCUserSession ---------------------------
(***************************************************************************)
(* Instances of UserSession for TLC: a browser with three requests under   *)
(* way, and as many rotations as it takes to have two of them within two   *)
(* minutes.                                                                *)
(***************************************************************************)
EXTENDS UserSession, TLC

CONSTANTS q1, q2, q3

ThreeRequests == {q1, q2, q3}

Network(reauth, ordered, lossy, prompt) ==
  [reauth |-> reauth, ordered |-> ordered, lossy |-> lossy, prompt |-> prompt]

\* Anything may happen; a calm network with and without recent authentication.
SomeNetworks == { Network(TRUE, FALSE, TRUE, FALSE),
                  Network(TRUE, TRUE, FALSE, TRUE),
                  Network(FALSE, TRUE, FALSE, TRUE) }

Symmetry == Permutations(ThreeRequests)
=============================================================================
