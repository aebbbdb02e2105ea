SPECIFICATION Spec
CONSTANTS
  n1 = n1  n2 = n2  A = A  B = B
  Ids = {n1, n2}
  Texts = {A, B}
  Dates <- MCNone
  NoId = NoId
  NoText = NoText
  NoDate = NoDate
  Absent = Absent
  NoJob = NoJob
  Shapes <- MCDeferred
  Faults = {"slow"}
  MaxBatches = 2
  MaxFaults = 1
  MaxCrashes = 0
  MaxInflight = 2
PROPERTY OrderKept
