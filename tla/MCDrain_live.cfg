SPECIFICATION FairSpec
CONSTANTS
  n1 = n1  n2 = n2  A = A  B = B
  Ids = {n1, n2}
  Texts = {A, B}
  Dates <- MCDates
  NoId = NoId
  NoText = NoText
  NoDate = NoDate
  Absent = Absent
  NoJob = NoJob
  Shapes <- MCLive
  Faults = {"store", "busy", "slow", "write", "list", "ledger"}
  MaxBatches = 2
  MaxFaults = 1
  MaxCrashes = 1
  MaxInflight = 2
INVARIANT Receipts
PROPERTIES BatchesSettle ExpiredArchived
