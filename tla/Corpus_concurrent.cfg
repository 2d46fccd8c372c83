SPECIFICATION Spec
CONSTANTS
  a1 = a1
  a2 = a2
  b1 = b1
  r1 = r1
  x = x
  y = y
  None = None
  Gone = Gone
  Entries = {1, 2}
  Numbers = {1, 2}
  Contents = {a1, a2, b1}
  Requirements = {r1}
  Scope <- MCScope
  Failing <- MCFailing
  Conflicting <- MCConflicting
  ChecksOf <- MCChecksOf
  RenamedFrom <- MCRenamedFrom
  Files <- MCFiles
  Citations <- MCCitations
  StatusEdits = {"retired"}
  Importers = {p1}
  MaxReviews = 1
  Checkouts <- MCCheckouts
  Readers = {p2}
  MaxSnapshots = 2
INVARIANTS
  LedgerIsConsistent
PROPERTIES
  
  DriftSeesLostCoverage
