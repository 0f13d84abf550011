SPECIFICATION FairSpec
CONSTANTS
  x1 = x1  x2 = x2  x3 = x3
  Execs = {x1, x2}
  Kind <- MCKind
  Callers = {c1}
  Ops = {"claim", "fail"}
  QueueCap = 1
  MaxTries = 2
  MaxReconnect = 1
  Env = {"crash", "shutdown", "engine", "store"}
  MaxEvents = 2
  MaxFaults = 2
INVARIANTS TypeOK CursorPassesNothing BridgeKeepsOrder
PROPERTY LeaseEventsSettle
CHECK_DEADLOCK FALSE
