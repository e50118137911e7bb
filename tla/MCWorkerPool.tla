---------------------------- MODULE MCWorkerPool ----------------------------
(***************************************************************************)
(* A small instance of WorkerPool: two workers, as mini_bridge_create asks  *)
(* for, and tasks that compete for one file.                               *)
(***************************************************************************)
EXTENDS WorkerPool

CONSTANTS w1, w2, wr1, wr2, rd1, p1

MCWorkers == {w1, w2}
MCTasks == {wr1, wr2, rd1}
MCPaths == {p1}
MCKind == [t \in MCTasks |-> IF t = rd1 THEN "read" ELSE "write"]
MCPath == [t \in MCTasks |-> p1]
=============================================================================
