\* One execution at a time, one record with up to two rows, one retried per
\* run; the breaker counts to two, or to one after an unpause.
SPECIFICATION ScheduledSpec
CONSTANTS
  p1 = p1
  p2 = p2
  w1 = w1
  w2 = w2
  Paths = {p1}
  Runs = {w1}
  CircuitThreshold = 2
  GraceThreshold = 1
  DeadLetterMaxRetries = 2
  RetryBatchSize = 1
  MaxTaskRetries = 1
  MaxRows = 2
  MaxQueue = 1
  MaxFailureCount = 2

INVARIANTS
  RetryBudget
  ThresholdEnforced
PROPERTIES
  CircuitImplemented
  RetryingSettles
