SPECIFICATION FairSpec
CONSTANTS
  st1 = st1  st2 = st2  st3 = st3  k1 = k1  p1 = p1  p2 = p2  p3 = p3  t1 = t1  q1 = q1  q2 = q2
  Parts = {"pid file", "mesh asks", "to-dos", "questions", "ears"}
  OldFile = FALSE
  Starts = {st1}
  Stops = {k1}
  Pids = {p1, p2}
  Old = Old
  Nobody = Nobody
  SpawnFails = TRUE
  SlowStart = FALSE
  MaxAsks = 2
  MaxLines = 1
  MaxBoots = 1
  Talkers = {"w"}
  Chats = {"g"}
  AgentChat = "g"
  NoAsk = NoAsk
  MaxOpenAsks = 1
  MaxKeptAsks = 1
  PendingAnswers = 1
  ChatsKept = 1
  SavesFail = TRUE
  Todos = {t1}
  Markers = {"page", "tool"}
  NoMark = NoMark
  MaxStamps = 2
  MaxWire = 2
  MaxDeaths = 1
  SaveFails = FALSE
  Questions = {q1, q2}
  Voice = Voice
  Free = Free
  TextWorkers = 2
  MaxInflight = 2
  MaxResults = 1
  MaxSpoken = 0
  MaxLives = 1
  v1 = v1  v2 = v2  r1 = r1  r2 = r2
  EarCallers = {v1}
  Muters = {}
  EarRates <- MCOneRate
  Breaks = TRUE
  Preempts = TRUE
  Words = {}
  Closing = TRUE
  MaxEars = 1
INVARIANT AsksSurvive
PROPERTIES StopObeyed ExpiryShown MarksSettle QuestionsSettle EarsClose
CHECK_DEADLOCK FALSE
