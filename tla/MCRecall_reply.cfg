SPECIFICATION Spec
CONSTANTS
  Contradicts = TRUE
  QueueSize = 1
  MaxTurns = 2
  Lengths <- MCLengths
  MaxSpeeches = 1
INVARIANTS RecallsCounted MemorySpokenOnce SupersededSilenced SupersededStops NeverSilent
CHECK_DEADLOCK FALSE
