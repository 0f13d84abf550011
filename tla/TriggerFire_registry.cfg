SPECIFICATION Spec
CONSTANTS
  t1 = t1  t2 = t2  p1 = p1
  Triggers = {t1, t2}
  Templates = {p1, p2}
  Signals = {s1}
  NoSignal = NoSignal
  TemplateOf <- MCTemplateOf
  Rank <- MCRank
  Matches <- MCAll
  Accepts <- MCAll
  HasFields <- MCAll
  MaxPerMinute = 2
  Budget = 1
  Minute = 2
  Hour = 3
  Deliveries = {d1}
  Operators = {o1, o2, o3}
  NoDelivery = NoDelivery
  Boot <- MCBoot1
  BootTime = 1
  Env = {"overlap", "fail", "norun", "restart"}
  MaxTime = 2
SYMMETRY RequestSymmetry
INVARIANTS TemplateAvailable ReplayRestores
CHECK_DEADLOCK FALSE
