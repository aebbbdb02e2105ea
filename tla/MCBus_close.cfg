SPECIFICATION FairSpec
CONSTANTS
  p1 = p1  p2 = p2  s1 = s1  s2 = s2
  ticker = ticker  closer = closer  worker = worker
  Publishers = {p1}
  Tickers = {}
  Closers = {closer}
  Worker = worker
  Subs = {s1}
  Kinds <- MCPair
  DropFirst = {"features"}
  LocalOnly <- MCNoLocal
  Heartbeat = "heartbeat"
  SubKinds <- MCSubKinds
  Publishes <- MCPublishAll
  Verdicts = {"ok"}
  SubCapacity = 1
  BrokerCapacity = 2
  Installed = TRUE
  NoClient = NoClient
  NoOne = NoOne
  NoEvent = NoEvent
  MaxCalls = 2
  MaxRetries = 1
PROPERTIES CloseEndsSubscriptions ReportStands BacklogSent
CHECK_DEADLOCK FALSE
