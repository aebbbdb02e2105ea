SPECIFICATION FairSpec
CONSTANTS
  MaxSaid = 2
  MaxMishaps = 2
  BufferLimit = 2
  Closes = TRUE
  NoPlayer = NoPlayer
INVARIANTS CutsAreClean TraceAccounted
PROPERTY QueuesDrain
CHECK_DEADLOCK FALSE
