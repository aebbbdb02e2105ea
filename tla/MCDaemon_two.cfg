SPECIFICATION Spec
CONSTANTS
  st1 = st1  st2 = st2  st3 = st3  k1 = k1  p1 = p1  p2 = p2  p3 = p3  t1 = t1  q1 = q1  q2 = q2
  Parts = {"pid file"}
  OldFile = FALSE
  Starts = {st1, st2, st3}
  Stops = {}
  Pids = {p1, p2, p3}
  Old = Old
  Nobody = Nobody
  SpawnFails = TRUE
  SlowStart = FALSE
  MaxAsks = 2
  MaxLines = 2
  MaxBoots = 0
  Talkers = {"w"}
  Chats = {"c", "g"}
  AgentChat = "g"
  NoAsk = NoAsk
  MaxOpenAsks = 1
  MaxKeptAsks = 1
  PendingAnswers = 1
  ChatsKept = 1
  SavesFail = TRUE
  Todos = {t1}
  Markers = {"page", "tool"}
  NoMark = NoMark
  MaxStamps = 3
  MaxWire = 1
  MaxDeaths = 1
  SaveFails = TRUE
  Questions = {q1, q2}
  Voice = Voice
  Free = Free
  TextWorkers = 1
  MaxInflight = 2
  MaxResults = 1
  MaxSpoken = 1
  MaxLives = 1
  v1 = v1  v2 = v2  r1 = r1  r2 = r2
  EarCallers = {v1, v2}
  Muters = {v2}
  EarRates <- MCRates
  Breaks = FALSE
  Preempts = TRUE
  Words = {TRUE}
  Closing = FALSE
  MaxEars = 2
SYMMETRY MCSymmetry
INVARIANT SingleInstance
CHECK_DEADLOCK FALSE
