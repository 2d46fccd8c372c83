SPECIFICATION FetchSpec
CONSTANTS
  t1 = t1
  t2 = t2
  l1 = l1
  l2 = l2
  Deliveries = {d1}
  NoDelivery = NoDelivery
  Tests = {t1}
  Links = {l1}
  TestOf <- MCTestOf
  Reports <- MCReports
  Processes = {p1, p2}
  MaxRuns = 2
  Payloads <- MCPayloads
  Listings <- MCListings
  PageSize = 2
  MaxRetries = 1
SYMMETRY ProcessSymmetry
INVARIANTS
  DeliveriesMakeOneWholeRun
  LinkShowsOneRun
  FetchAccountsForEvent
