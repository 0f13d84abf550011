SPECIFICATION FairSpec
CONSTANTS
  c1 = c1  c2 = c2  s1 = s1  t1 = t1  a1 = a1  a2 = a2  p1 = p1
  Calls = {c1, c2}
  Sessions = {s1}
  Tools = {t1}
  Args = {a1, a2}
  NoArgs = NoArgs
  Paths = {p1}
  Threads = {w1, w2}
  NoThread = NoThread
  SessionOf <- MCSessionOf
  ToolOf <- MCToolOf
  OrigArgs <- MCOrigArgs
  Covers <- MCCovers
  Ops <- MCOps
  Env = {"fail", "crash", "resubmit"}
  MaxOps = 4
CHECK_DEADLOCK FALSE
INVARIANTS TypeOK DeliveredIsDurable AutoApprovalSanctioned CacheIsDurable
PROPERTIES ImplementsLedger OperationsReturn
