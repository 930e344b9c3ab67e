\* Two names and two runs that may overlap; up to four records, listed by twos
\* and no more than three.
SPECIFICATION Spec
CONSTANTS
  a = a
  b = b
  r1 = r1
  r2 = r2
  Names = {a, b}
  Runs = {r1, r2}
  MaxVersions = 3
  Keys = {1, 2, 3, 4, 5}
  Large = {2}
  PageSize = 2
  MaxRecords = 3
  MaxPages = 4
SYMMETRY IntakeSymmetry
INVARIANTS
  ArchivedHasDocument
  ListingComplete
