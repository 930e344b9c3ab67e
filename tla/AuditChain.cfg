\* Two writers, four entries, pages of two rows, one retention run that can
\* split the chain.
SPECIFICATION Spec
CONSTANTS
  w1 = w1
  w2 = w2
  Writers = {w1, w2}
  PageSize = 2
  Retention = 1
  TicksPerDay = 1
  MaxEntries = 4
  MaxTime = 2
SYMMETRY WriterSymmetry
INVARIANTS
  TypeOK
  ChainLinked
  IntactVerifies
  RemovalDetected
  NoFalseAlarm
PROPERTY
  DeletionsJustified
