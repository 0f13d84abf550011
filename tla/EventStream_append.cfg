SPECIFICATION Spec
CONSTANTS
  w1 = w1  w2 = w2  w3 = w3  k1 = k1
  Writers = {w1, w2, w3}
  NoCause = NoCause
  Loads <- MCRawLoads
  Clients = {c1}
  ReadLimit = 2
  Capacity = 2
  QueueCap = 2
  ReplayBatch = 2
  Env = {}
  MaxFaults = 0
INVARIANT AppendAnswersPosition
CHECK_DEADLOCK FALSE
