---------------------------- MODULE MCWorkerPool ----------------------------
(***************************************************************************)
(* Small instances of WorkerPool: a target below, inside and above [0,1]   *)
(* and the full duty cycle, a load below, inside and above the pause band, *)
(* a short and a long run queue.                                           *)
(***************************************************************************)
EXTENDS WorkerPool

MCTargets == {-1, 2, 4, 5}
MCUtils == {1, 2, 3}
MCRunnables == {0, 2}
=============================================================================
