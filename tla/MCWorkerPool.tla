---------------------------- MODULE MCWorkerPool ----------------------------
(***************************************************************************)
(* Instances of WorkerPool small enough for TLC.                           *)
(***************************************************************************)
EXTENDS WorkerPool

CONSTANTS t1, t2, t3, t4, s1
=============================================================================
