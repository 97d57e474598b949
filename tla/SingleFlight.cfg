CONSTANTS
  c1 = c1
  c2 = c2
  c3 = c3
  k1 = k1
  k2 = k2
  x1 = x1
  x2 = x2
  None = None
  Callers <- ThreeCallers
  Keys <- TwoKeys
  Calls <- TwoCalls
  MayForget = TRUE
  MayPanic = TRUE
SPECIFICATION FairSpec
INVARIANTS TypeOK OneFlightPerKey
PROPERTIES CleanupSparesRunning Progress PromiseKept
\* After panics every caller may be waiting for good.
CHECK_DEADLOCK FALSE
