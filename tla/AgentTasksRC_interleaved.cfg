SPECIFICATION Spec
CONSTANTS
  Tasks = {t1}
  Agents = {a1, a2, r1}
  Coders = {a1, a2}
  Reviewers = {r1}
  Workers = {w1, w2}
  Commits = {c1, c2}
  NoAgent = NoAgent
  NoCommit = NoCommit
  MaxAttempts = 2
  MaxReviews = 2
  DependsOn <- MCNoDependencies
CONSTRAINT ReviewBound
SYMMETRY WorkerSymmetry
INVARIANTS
  ClaimsAreHeld
  ReviewsAreOnRecord
PROPERTIES
  ClaimsNeverOverwrite
