SPECIFICATION Spec
CONSTANTS
  n1 = n1  n2 = n2  A = A  B = B
  Ids = {n1, n2}
  Texts = {A, B}
  Dates <- MCOneDate
  NoId = NoId
  NoText = NoText
  NoDate = NoDate
  Absent = Absent
  NoJob = NoJob
  Shapes <- MCOrder
  Faults = {"store", "busy", "read"}
  MaxBatches = 3
  MaxFaults = 1
  MaxCrashes = 1
  MaxInflight = 1
INVARIANT LedgerCovers
PROPERTIES OrderKept Converges AppliesAtomically
