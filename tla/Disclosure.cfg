\* One document, a rule that can be disabled beside a built-in one, and three
\* calls of any kind, two at once.
SPECIFICATION Spec
CONSTANTS
  d1 = d1
  pii = pii
  rule1 = rule1
  clerk = clerk
  reviewer = reviewer
  head = head
  w1 = w1
  w2 = w2
  Workers = {w1, w2}
  MaxCalls = 3
  Documents = {d1}
  Rules = {pii, rule1}
  Builtin = {pii}
  Staff = {reviewer, head}
  Officers = {clerk, reviewer, head}
  Approvers = {reviewer, head}
SYMMETRY DisclosureSymmetry
INVARIANTS
  FlaggedOnce
  DecisionIsWhole
  ApprovalIsRecorded
