CONSTANTS
  g1 = g1
  g2 = g2
  k1 = k1
  None = None
  Goroutines <- TwoGoroutines
  Keys <- OneKey
  Responses <- SomeResponses
  TTL = 1
  MaxTime = 3
SPECIFICATION Spec
SYMMETRY Symmetry
INVARIANT StaleServed
\* A data race may stop the program.
CHECK_DEADLOCK FALSE
