--------------------------- MODULE MCWorkerRuntime ---------------------------
(***************************************************************************)
(* Instance of WorkerRuntime for TLC: two replicas share one stream with a *)
(* job that can be executed and, where listed, one addressed to another    *)
(* worker.                                                                 *)
(***************************************************************************)
EXTENDS WorkerRuntime

CONSTANTS j1, j2, r1, r2

MCJobs == {j1, j2}
MCMisrouted == {j2}
MCReplicas == {r1, r2}
=============================================================================
