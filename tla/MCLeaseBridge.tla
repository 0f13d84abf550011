---------------------------- MODULE MCLeaseBridge ----------------------------
(* Small instances of LeaseBridge: a task, a run and an execution of some  *)
(* other instance.                                                         *)
EXTENDS LeaseBridge

CONSTANTS x1, x2, x3

MCKind == [x \in Execs |-> IF x = x1 THEN "task" ELSE IF x = x2 THEN "run" ELSE "foreign"]
=============================================================================
