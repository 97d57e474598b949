CONSTANTS
  None = None
  NilPointer = NilPointer
  Half = 128
  Second = 3
  Minute = 6
  Hour = 30
  Day = 100
  DefaultInitialBackoff = 3
  DefaultMaxBackoff = 6
  DefaultTimeout = 9
  DefaultJitter = 1
  Unit = 2
  MaxExponent = 1
  MaxDecorrelated = 1
  Options <- SomeOptions
  MaxOptions = 3
  Requests <- TwoRequests
  Outcomes <- SomeOutcomes
  g1 = g1
  g2 = g2
  g3 = g3
  Goroutines <- ThreeGoroutines
  MaxRetries = 2
  PerWindow = 2
  MaxTime = 5
SPECIFICATION RetriesSpec
CONSTRAINT FewOptionsElsewhere
INVARIANTS TypeOK LimiterInForce  RetriesInBounds
INVARIANTS BudgetTypeOK GrantsBounded WindowsApart SequentialBudget
\* New, or a request, may panic.
CHECK_DEADLOCK FALSE
