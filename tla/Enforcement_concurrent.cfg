SPECIFICATION Spec
CONSTANTS
  b1 = b1
  b2 = b2
  r1 = r1
  r0 = r0
  ChecksOf <- MCChecksOf
  Blocks = {b1, b2}
  Imports = {i1}
  Requirements = {r1}
  UnknownIds = {r0}
  Profiles <- MCProfiles
  Batches <- MCBatches
  FlagSources <- MCFlagSources
  MaxFailures = 1
  Bodies <- MCBodies
CHECK_DEADLOCK FALSE
INVARIANTS
  SubmissionsAreRecorded
  ReportsAgree
