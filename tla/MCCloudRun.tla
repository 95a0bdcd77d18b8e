---------------------------- MODULE MCCloudRun ----------------------------
(***************************************************************************)
(* Small instances of CloudRun for TLC.                                    *)
(***************************************************************************)
EXTENDS CloudRun, TLC

CONSTANT MCAgentWorker     \* the worker every protected run is bound to

MCAgent == [r \in Runs |-> MCAgentWorker]

\* Handlers are interchangeable; the runs that use this check safety only.
HandlerSymmetry == Permutations(Sessions)
=============================================================================
