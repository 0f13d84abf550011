SPECIFICATION RunFairSpec
CONSTANTS
  Threads = {t1}
  Runs = {r1}
  OverlayRuns = {r1}
  MaxRev = 2
  Ops <- MCOps
  Env = {"crash", "wipe", "move"}
  MaxFaults = 3
  Approvals <- MCApprovals
INVARIANTS ReconnectableIsRegistered MetadataOnDiskIsCurrent
PROPERTIES NoRunBootsStranded ReportedLostRunEnds
CHECK_DEADLOCK FALSE
