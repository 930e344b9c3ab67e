\* One process, nothing stopped while it starts, one administrator's row.
\* A server that is up may have nothing left to do.
CHECK_DEADLOCK FALSE
SPECIFICATION Spec
CONSTANTS
  p1 = p1
  p2 = p2
  rule1 = rule1
  rule2 = rule2
  letter1 = letter1
  letter2 = letter2
  notice1 = notice1
  Processes = {p1}
  Rules = {rule1, rule2}
  Disclosures = {letter1, letter2}
  Notices = {notice1}
  Missing = {letter2}
  MaxCalls = 1
  MaxStops = 1
INVARIANT
  StartupsAreSafe
