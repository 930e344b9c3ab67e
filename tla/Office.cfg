\* The first administrator and a colleague, a profile of two fields with two
\* answers each, and three calls of any kind, two of a kind at once.
SPECIFICATION Spec
CONSTANTS
  first = first
  second = second
  w1 = w1
  w2 = w2
  Workers = {w1, w2}
  MaxCalls = 3
  People = {first, second}
  First = first
  Fields = {"city_name", "state"}
  Answers = {"a", "b"}
  Items = {"rule", "template"}
  RuleItems = {"rule"}
  Seeded = {"rule"}
  Wordings = {"old", "new"}
  Baseline = "old"
SYMMETRY OfficeSymmetry
CHECK_DEADLOCK FALSE
INVARIANTS
  AdministratorRemains
  OneProfile
  OnboardingTold
  VersionTellsText
