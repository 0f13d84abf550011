---------------------------- MODULE MCSandbox ----------------------------
(* Small instances of Sandbox: an overlay with every operation beside a    *)
(* reflink sandbox that is made, used and checkpointed.                     *)
EXTENDS Sandbox, TLC

MCOps == [r \in Runs |-> IF r \in OverlayRuns THEN SandboxOps
                         ELSE {"provision", "activate", "checkpoint"}]
ThreadSymmetry == Permutations(Threads)
============================================================================
