SPECIFICATION Spec
CONSTANTS
  Threads = {t1, t2}
  Runs = {r1, r2}
  OverlayRuns = {r1}
  MaxRev = 2
  Ops <- MCOps
  Env = {"crash", "fail", "wipe", "move"}
  MaxFaults = 2
INVARIANTS OneProvisioner RecoveredOnItsRevision
SYMMETRY ThreadSymmetry
CHECK_DEADLOCK FALSE
