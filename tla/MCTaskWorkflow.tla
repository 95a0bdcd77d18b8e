--------------------------- MODULE MCTaskWorkflow ---------------------------
(***************************************************************************)
(* Instances of TaskWorkflow for TLC: two artifacts and two requests at a  *)
(* time.                                                                   *)
(***************************************************************************)
EXTENDS TaskWorkflow, TLC

CONSTANTS h1, h2

TwoHandlers == {h1, h2}

Symmetry == Permutations(TwoHandlers)

Mode(locked, dies, byHand) == [locked |-> locked, dies |-> dies, byHand |-> byHand]

\* Statuses that let users skip the review or send an approved patch back.
Shortcuts == {"APPROVED", "CI_RUNNING", "FIX_REQUESTED"}

\* The code as it is with users who set statuses, the same with a lock, and undisturbed.
SomeModes == { Mode(FALSE, TRUE, Shortcuts), Mode(TRUE, TRUE, Shortcuts),
               Mode(FALSE, FALSE, {}) }

\* cloud_fake is left out: its tests pass like those of a docker_local run without a record.
SomeRunners == {"local", "docker_local", "aliyun_eci"}
=============================================================================
