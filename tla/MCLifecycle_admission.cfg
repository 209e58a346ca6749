\* Is the host clean whenever a create slot is given up with its row?
SPECIFICATION Spec
CONSTANTS
  Instance = {i1}
  Web = {w1}
  Job = {j1}
  Units = 1
  NoRow = NoRow
  Nobody = Nobody
  Lease = 1
  Safety = 2
  Provision = 1
  Span = 1
  PostSolve = 0
  MaxRenewals = 1
  Site <- GoodSite
  MaxLag = 1
  Horizon = 2
PROPERTY
  AbsenceBeforeAdmission
