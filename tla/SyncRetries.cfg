\* Two overlapping executions over one record with one failure row, far from
\* the breaker's threshold.
SPECIFICATION Spec
CONSTANTS
  p1 = p1
  p2 = p2
  w1 = w1
  w2 = w2
  Paths = {p1}
  Runs = {w1, w2}
  CircuitThreshold = 5
  GraceThreshold = 2
  DeadLetterMaxRetries = 2
  RetryBatchSize = 1
  MaxTaskRetries = 0
  MaxRows = 1
  MaxQueue = 1
  MaxFailureCount = 4
SYMMETRY RunSymmetry
INVARIANTS
  RetryBudget
