\* One request, two processes; a tick is a day.
SPECIFICATION Spec
CONSTANTS
  r1 = r1
  w1 = w1
  w2 = w2
  Requests = {r1}
  Workers = {w1, w2}
  InApp = {"approaching"}
  Dedup = 0
  Approaching = 1
  MaxRows = 2
  MaxTime = 2
  MaxChanges = 1
  MaxCrashes = 1
SYMMETRY WorkerSymmetry
INVARIANTS
  TypeOK
  SentWasMailed
  MailedOnce
  ToldOnce
  NoticeWasDue
PROPERTIES
  OutboxKept
