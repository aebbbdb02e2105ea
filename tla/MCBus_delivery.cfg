SPECIFICATION Spec
CONSTANTS
  p1 = p1  p2 = p2  s1 = s1  s2 = s2
  ticker = ticker  closer = closer  worker = worker
  Publishers = {p1, p2}
  Tickers = {}
  Closers = {}
  Worker = worker
  Subs = {s1}
  Kinds <- MCKinds
  DropFirst = {"features"}
  LocalOnly <- MCLocal
  Heartbeat = "heartbeat"
  SubKinds <- MCSubKinds
  Publishes <- MCPublishes
  Verdicts = {"ok"}
  SubCapacity = 2
  BrokerCapacity = 1
  Installed = FALSE
  NoClient = NoClient
  NoOne = NoOne
  NoEvent = NoEvent
  MaxCalls = 5
  MaxRetries = 0
INVARIANTS DeliveryInOrder GapAccounting ProtectedDropsRecorded
PROPERTY SubscriptionsAreLossyStreams
CHECK_DEADLOCK FALSE
