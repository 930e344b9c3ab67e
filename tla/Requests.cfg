\* Four calls, two at a time, on a request in any status.
SPECIFICATION Spec
CONSTANTS
  w1 = w1
  w2 = w2
  d1 = d1
  Workers = {w1, w2}
  Documents = {d1}
  HasEmail = TRUE
  MaxCalls = 4
SYMMETRY WorkerSymmetry
INVARIANTS
  TypeOK
  TimelineTellsStatus
  FeesAddUp
  AttachedOnce
PROPERTIES
  LifecycleKept
  WaivedUntilFee
CHECK_DEADLOCK FALSE
