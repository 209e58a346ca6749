SPECIFICATION Spec
CONSTANTS
  w1 = w1
  w2 = w2
  a1 = a1
  Worker = {w1, w2}
  Nobody = Nobody
  Admin = {a1}
  ProcOf <- ServedByFirst
  MaxMoves = 1
  NoConfig = NoConfig
  NoLoad = NoLoad
INVARIANTS
  OneAtATime
  StaleProbeLoses
PROPERTIES
  CatalogForward
