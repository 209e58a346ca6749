SPECIFICATION Spec
CONSTANTS
  r1 = r1
  r2 = r2
  r3 = r3
  c1 = c1
  c2 = c2
  Request = {r1}
  Context = {c1}
  Host = {h1, h2}
  OwnerOf <- OneOwner
  ChallengeOf <- TwoChallenges
  Eligible <- Everywhere
  Limits = {1}
  Creates = {1}
  NoRow = NoRow
  NoSlot = NoSlot
  Keep = Keep
  Admin = {a1, a2}
  Attempts = 2
  BusyRetries = 1
PROPERTIES EndpointPinned RetiredForGood ImplementsAdmission
CHECK_DEADLOCK FALSE
