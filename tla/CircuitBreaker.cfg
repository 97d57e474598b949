CONSTANTS
  g1 = g1
  g2 = g2
  Goroutines <- TwoGoroutines
  FailureThreshold = 2
  RecoveryTimeout = 2
  SuccessThreshold = 2
  HealthyAt = 3
  MaxTime = 4
SPECIFICATION BothFairSpec
INVARIANTS BothTypeOK NoEarlyOpen
PROPERTIES SequentialTransitions ClosesAfterHealing
