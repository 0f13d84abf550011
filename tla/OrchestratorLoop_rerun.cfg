SPECIFICATION Spec
CONSTANTS
  a1 = a1  a2 = a2
  Requests = {r1}
  Args = {a1, a2}
  NoArgs = NoArgs
  Plans <- MCPlans
  MaxIterations = 2
  Bash = TRUE
  Env = {"allow"}
  MaxFaults = 0
INVARIANT ApprovedRunsOnce
CHECK_DEADLOCK FALSE
