\* One instance made of two resources on a host whose clock is slow: its create
\* request against a cleanup request and a maintenance worker.
SPECIFICATION Spec
CONSTANTS
  Instance = {i1}
  Web = {w1}
  Job = {j1}
  Units = 2
  NoRow = NoRow
  Nobody = Nobody
  Lease = 1
  Safety = 2
  Provision = 1
  Span = 1
  PostSolve = 0
  MaxRenewals = 1
  Site <- AnySite
  MaxLag = 1
  Horizon = 1
INVARIANTS
  TypeOK
  CleanDeletion
  HistoryStopped
  ClaimIsFinal
  ReapsOnlyTheDead
PROPERTIES
  RunningKeepsResources
  NoResurrection
  JobTakesOnlyDue
  LeaseRespected
