CONSTANTS
  g1 = g1
  g2 = g2
  Goroutines <- TwoGoroutines
  MaxTokens = 2
  BatchSize = 1
  Rates <- OneOrTwo
  MaxTime = 3
  MaxResets = 1
SPECIFICATION Spec
SYMMETRY Symmetry
INVARIANTS TypeOK RateRespected
