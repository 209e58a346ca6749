SPECIFICATION Spec
CONSTANTS
  c1 = c1
  r1 = r1
  r2 = r2
  f1 = f1
  f2 = f2
  u1 = u1
  t1 = t1
  t2 = t2
  t3 = t3
  q1 = q1
  q2 = q2
  q3 = q3
  p1 = p1
  p2 = p2
  NoGen = NoGen
  NoRecipe = NoRecipe
  NoJob = NoJob
  NoArt = NoArt
  Nobody = Nobody
  Admin = Admin
  Worker = Worker
  Challenge = {c1}
  Owner = {u1, t1}
  KindOf <- KindOfOwner
  Recipe = {r1, r2}
  Offered = {r2, NoRecipe}
  Fingerprint = {f1}
  Request = {q1, q2, q3}
  Background = {}
  Process = {p1}
  Asks <- SameAsks
  ProcOf <- OneProc
  Gen = {g1, g2, g3}
  MaxPending = 2
  FirstMode = "team"
  Attempts = 1
SYMMETRY TokensAndRequests

INVARIANTS
  TypeOK
  NoOrphans
  NoneForgotten
PROPERTIES
  ImplementsDownloads
CHECK_DEADLOCK FALSE
