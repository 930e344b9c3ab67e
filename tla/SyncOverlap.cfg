\* Two overlapping executions over one record with one failure row.
SPECIFICATION Spec
CONSTANTS
  p1 = p1
  p2 = p2
  w1 = w1
  w2 = w2
  Paths = {p1}
  Runs = {w1, w2}
  CircuitThreshold = 1
  GraceThreshold = 1
  DeadLetterMaxRetries = 2
  RetryBatchSize = 1
  MaxTaskRetries = 0
  MaxRows = 1
  MaxQueue = 1
  MaxFailureCount = 1
SYMMETRY RunSymmetry
INVARIANTS
  TypeOK
  ResolvedIsIngested
  ProcessedIsAccounted
  HealthyMeansComplete
PROPERTIES
  GivenUpWhenSpent
