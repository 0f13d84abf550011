SPECIFICATION Spec
CONSTANTS
  t1 = t1  t2 = t2  p1 = p1
  Triggers = {t1, t2}
  Templates = {p1}
  Signals = {s1, s2}
  NoSignal = NoSignal
  TemplateOf <- MCTemplateOf
  Rank <- MCRank
  Matches <- MCAll
  Accepts <- MCAll
  HasFields <- MCAll
  MaxPerMinute = 1
  Budget = 2
  Minute = 2
  Hour = 3
  Deliveries = {d1, d2, d3}
  Operators = {}
  NoDelivery = NoDelivery
  Boot <- MCBoot2
  BootTime = 1
  Env = {"overlap", "restart"}
  MaxTime = 3
SYMMETRY RequestSymmetry
INVARIANTS NoDuplicateRuns RateLimitHolds BudgetHolds
CHECK_DEADLOCK FALSE
