SPECIFICATION Spec
CONSTANTS
  p1 = p1  p2 = p2  s1 = s1  s2 = s2
  ticker = ticker  closer = closer  worker = worker
  Publishers = {p1, p2}
  Tickers = {ticker}
  Closers = {}
  Worker = worker
  Subs = {}
  Kinds <- MCKindsLocal
  DropFirst = {"features"}
  LocalOnly <- MCLocal
  Heartbeat = "heartbeat"
  SubKinds <- MCSubKinds
  Publishes <- MCPublishAll
  Verdicts = {"ok", "invalid", "screened"}
  SubCapacity = 1
  BrokerCapacity = 2
  Installed = TRUE
  NoClient = NoClient
  NoOne = NoOne
  NoEvent = NoEvent
  MaxCalls = 3
  MaxRetries = 1
SYMMETRY MCSymmetry
INVARIANTS DownPeriodsCounted SentOncePerPublisherInOrder
CHECK_DEADLOCK FALSE
