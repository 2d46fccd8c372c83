SPECIFICATION Spec
CONSTANTS
  q1 = q1
  q2 = q2
  s1 = s1
  v1 = v1
  Requirements = {q1}
  MethodOf <- MCMethodOf
  SLOs = {s1}
  SLOsOf <- MCSLOsOf
  Validations = {v1}
  RequirementOf <- MCRequirementOf
  Processes = {p1}
  Entries = {"import_results", "webhook", "slo_update", "slo_only", "validation_update", "validation_only", "check_invariants"}
  Outcomes = {"passed", "failed", "skipped"}
  CheckTimes = {1, 2}
  MaxRuns = 2
INVARIANTS
  UpdatedStatusIsComputed
  FixRestoresInvariants
