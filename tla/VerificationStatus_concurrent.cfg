SPECIFICATION Spec
CONSTANTS
  q1 = q1
  q2 = q2
  s1 = s1
  v1 = v1
  Requirements = {q1}
  MethodOf <- MCMethodOf
  SLOs = {s1}
  SLOsOf <- MCSLOsOf
  Validations = {v1}
  RequirementOf <- MCRequirementOf
  Processes = {p1, p2}
  Entries = {"import_results", "webhook", "slo_update", "slo_only", "validation_update", "validation_only", "check_invariants"}
  Outcomes = {"passed", "skipped"}
  CheckTimes = {1}
  MaxRuns = 1
SYMMETRY ProcessSymmetry
INVARIANTS
  PassingHasEvidence
