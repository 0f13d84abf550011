---------------------------- MODULE MCRunRecovery ----------------------------
(* Small instances of RunRecovery. *)
EXTENDS RunRecovery, TLC

MCOps == [r \in Runs |-> SandboxOps]
MCApprovals == {DriftApproval, "gate"}
============================================================================
