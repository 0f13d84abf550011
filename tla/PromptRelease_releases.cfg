SPECIFICATION Spec
CONSTANTS
  r1 = r1  r2 = r2  r3 = r3  r4 = r4  a1 = a1  a2 = a2
  Releases = {r1, r2, r3, r4}
  AssetOf <- MCAssetOf
  Place <- MCPlace
  Places = 4
  Clients = {c1, c2}
  Calls <- MCCalls
  Loads <- MCLoads
  Times = {0}
  ListLimit = 4
  Buckets = 2
  MaxByte = 3
  Env = {"restart"}
SYMMETRY ClientSymmetry
INVARIANTS OneActive ActivatesCleared HistoryConnects ActivationReplaces SplitIsExact
