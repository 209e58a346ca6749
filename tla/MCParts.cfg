SPECIFICATION Spec
CONSTANTS
  Context = {c1}
  Url = {u1, u2}
  NoUrl = NoUrl
  t1 = t1
  Thread = {t1}
  Op = {o1, o2}
  ThreadOf <- OpThread
  Pinger = {g1}
  PingerThread <- PingThread
  Client = {1, 2}
  NoClient = NoClient
  Closed = Closed
  Concurrency = 2
  MaxLoads = 2
  Worker = {w1, w2}
  Nobody = Nobody
  Setting = {"freshness_secret", "docker_base_url"}
  Job = {"health"}
  p1 = p1
  p2 = p2
  l1 = l1
  Process = {p1, p2}
  Logger = {l1, l2}
  LoggerAt <- LoggedAt
  Stream = {s1, s2}
  StreamAt <- StreamedAt
  NoEvent = NoEvent
  Kept = 2
  Recent = 1
  QueueSize = 1
  MaxStreams = 1
  MaxLogged = 2
  Owner = {e1, e2, e3}
  Submitter = {e1}
  Request = {r1, r2}
  NoEntry = NoEntry
  Challenge = {x1}
  NoView = NoView
  CallId = {k1, k2}
  NoCall = NoCall
  Patience = 1
  MaxLeases = 2
INVARIANTS
  OwnClient
  NoGap
  SlotsAccounted
  ShareRecorded
  KeepsUp
PROPERTIES
  Reconnects
  EveryoneServes
  JobsGoOn
CHECK_DEADLOCK FALSE
