SPECIFICATION FairSpec
CONSTANTS
  t1 = t1
  t2 = t2
  Tasks = {t1, t2}
  Agents = {a1, a2}
  Roles = {"coder", "reviewer"}
  Commits = {c1}
  NoAgent = NoAgent
  NoCommit = NoCommit
  Sweepers = {s1}
  MaxAttempts = 2
  DependsOn <- MCNoDependencies
PROPERTIES
  ImplementsTaskBoard
  UnstartedClaimReturns
