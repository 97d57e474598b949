CONSTANTS
  c1 = c1
  c2 = c2
  c3 = c3
  k1 = k1
  k2 = k2
  e1 = e1
  e2 = e2
  e3 = e3
  None = None
  Callers <- ThreeCallers
  Keys <- TwoKeys
  Entries <- ThreeEntries
  MayReturnEarly = TRUE
  KeyMayChange = FALSE
SPECIFICATION FairSpec
INVARIANTS TypeOK CompletesOwnEntry
PROPERTIES Progress PromiseKept
