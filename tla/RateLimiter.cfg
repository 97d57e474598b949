CONSTANTS
  g1 = g1
  g2 = g2
  Goroutines <- TwoGoroutines
  MaxTokens = 2
  RefillRates <- NoneOrTwo
  MaxTime = 5
SPECIFICATION Spec
SYMMETRY Symmetry
INVARIANTS TypeOK ExactWithoutRefill SequentialBucket
