CONSTANTS
  c1 = c1
  c2 = c2
  k1 = k1
  None = None
  Callers <- TwoCallers
  Keys <- OneKey
  Configs <- AllConfigs
  MaxRetries = 1
  MaxTokens = 1
  MaxBudget = 1
  FailureThreshold = 2
  SuccessThreshold = 1
SPECIFICATION FairSpec
INVARIANTS TypeOK ExclusiveUpstream NothingLeftBehind
PROPERTIES DoReturns
