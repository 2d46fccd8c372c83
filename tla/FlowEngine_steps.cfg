SPECIFICATION StatusSpec
CONSTANTS
  Flows = {f1}
  Definitions <- MCDefinitions
  Runs = {r1, r2}
  MainThread = {r1}
  Durations <- MCDurations
  StepTimeout = 2
  FlowTimeout = 1
  Registered = {f1}
  HealthFlow = f1
  HealthChecks = {r1}
  DirectResults <- MCDirectResults
INVARIANTS
  RunsEndAsTheirSteps
  
  RunTimeBounded
  FlowViewsAgree
PROPERTIES
  CompletedRunsAreFrozen
  BegunRunsAreJudged
