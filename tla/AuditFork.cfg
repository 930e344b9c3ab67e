\* Two overlapping writes.
SPECIFICATION Spec
CONSTANTS
  w1 = w1
  w2 = w2
  Writers = {w1, w2}
  PageSize = 2
  Retention = 1
  TicksPerDay = 2
  MaxEntries = 2
  MaxTime = 1
SYMMETRY WriterSymmetry
INVARIANT
  EachRowHashesPrevious
