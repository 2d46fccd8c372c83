SPECIFICATION ReportSpec
CONSTANTS
  t1 = t1
  t2 = t2
  l1 = l1
  l2 = l2
  Deliveries = {d1}
  NoDelivery = NoDelivery
  Tests = {t1, t2}
  Links = {l1, l2}
  TestOf <- MCTestOf
  Reports <- MCReports
  Processes = {p1}
  MaxRuns = 2
  q1 = q1
  q2 = q2
  Requirements = {q1, q2}
  RequirementOf <- MCRequirementOf
  Fields <- MCFields
  Antonyms <- MCAntonyms
  MinRuns = 1
  MinOverlap = 1
  MaxLogged = 2
  Issues = {q1}
  ReportOptions <- MCReportOptions
  OldLabels = {"tests:linked", "tests:failing"}
  MaxReports = 2
INVARIANTS
  ConflictsAreLoggedOnce
  
PROPERTIES
  LinksFollowRuns
  EventsAreSettled
