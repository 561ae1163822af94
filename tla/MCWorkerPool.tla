----------------------------- MODULE MCWorkerPool -----------------------------
(* WorkerPool with a few tasks; any subset of them may be cancelled at any  *)
(* time, including while granted and not yet resumed.                       *)
EXTENDS WorkerPool, TLC

CONSTANTS t1, t2, t3, t4

MCTasks == {t1, t2, t3, t4}
===============================================================================
