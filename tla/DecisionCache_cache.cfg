SPECIFICATION Spec
CONSTANTS
  k1 = k1  k2 = k2  s1 = s1
  Keys = {k1, k2}
  KindTags <- MCKindTags
  KindOf <- MCKindOf
  Scopes = {s1}
  ScopeOf <- MCScopeOf
  ScopeText <- MCScopeText
  HashOf <- MCHashOf
  Rules = {r1, r2}
  Evals = {e1, e2}
  NoEval = NoEval
  Policy <- MCPolicy
  TTL <- MCTTL
  PendingTimeout = 0
  Env = {"invalidate", "by_scope", "restart"}
  MaxTime = 1
SYMMETRY EvalSymmetry
INVARIANTS PendingHasOwner RevokedIsGone RuleIndexComplete
PROPERTY HitsAreGenuine
CHECK_DEADLOCK FALSE
