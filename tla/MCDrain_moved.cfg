SPECIFICATION Spec
CONSTANTS
  n1 = n1  n2 = n2  A = A  B = B
  Ids = {n1, n2}
  Texts = {A, B}
  Dates <- MCNone
  NoId = NoId
  NoText = NoText
  NoDate = NoDate
  Absent = Absent
  NoJob = NoJob
  Shapes <- MCMoved
  Faults = {}
  MaxBatches = 2
  MaxFaults = 0
  MaxCrashes = 1
  MaxInflight = 1
PROPERTY Converges
