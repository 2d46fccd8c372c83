SPECIFICATION FlowFilesSpec
CONSTANTS
  pa = pa
  pb = pb
  t1 = t1
  t2 = t2
  k1 = k1
  k2 = k2
  y1 = y1
  y2 = y2
  e1 = e1
  e2 = e2
  fa = fa
  fb = fb
  Text = Text
  Ids = {1, 2, 3, 4, 5}
  Processes = {pa}
  ProjectOf <- MCProjectOf
  Directories <- MCNestedDirectories
  MaxImports = 2
  Tests = {t1, t2}
  LinkFiles <- MCLinkFiles
  TestOutcomes <- MCOutcomes
  MaxRuns = 1
  Tasks = {k1, k2}
  TaskReqs <- MCTaskReqs
  TaskScope <- MCTaskScope
  Roots <- MCRoots
  Prefixed = {1, 2, 3}
  Maps <- MCMaps
  Surfaces <- MCSurfaces
  Edits <- MCEdits
  History <- MCHistory
  Declarations <- MCDeclarations
  Promotions <- MCPromotions
  Names <- MCNames
  Diffs <- MCDiffs
  MaxEdits = 0
  FlowPaths <- MCFlowPaths
  FlowDocs <- MCFlowDocs
  Documents <- MCDocuments
  FormEdits <- MCFormEdits
  CodeFlows = {fa}
  Meanwhile = {pa}
  Fixtures <- MCFixtures
  Assertions <- MCAssertions
  Editors = {}
  MaxSyncs = 0
  MaxSaves = 0
CHECK_DEADLOCK FALSE
INVARIANTS
  OrphansAreLeaves
