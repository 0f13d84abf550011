SPECIFICATION FairSpec
CONSTANTS
  a1 = a1  a2 = a2
  Requests = {r1}
  Args = {a1, a2}
  NoArgs = NoArgs
  Plans <- MCPlans
  MaxIterations = 2
  Bash = FALSE
  Env = {"allow", "override", "fail", "crash"}
  MaxFaults = 1
INVARIANTS RunsApprovedArgs RecordedIsFinal
PROPERTIES ImplementsLedger ApprovedIsServed
CHECK_DEADLOCK FALSE
