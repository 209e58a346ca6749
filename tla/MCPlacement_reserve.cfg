SPECIFICATION FairSpec
CONSTANTS
  r1 = r1
  r2 = r2
  r3 = r3
  c1 = c1
  c2 = c2
  Request = {r1, r2, r3}
  Context = {c1}
  Host = {h1}
  OwnerOf <- OneOwner
  ChallengeOf <- TwoChallenges
  Eligible <- Everywhere
  Limits = {1, 2}
  Creates = {1}
  NoRow = NoRow
  NoSlot = NoSlot
  Keep = Keep
  Admin = {}
  Attempts = 2
  BusyRetries = 0
INVARIANTS TypeOK QuotaHeld AdmissionBounded
PROPERTIES Answered
CHECK_DEADLOCK FALSE
