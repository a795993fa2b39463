SPECIFICATION Spec
CONSTANTS
  older = older
  newer = newer
  dallas = dallas
  w1 = w1
  w2 = w2
  NoOne = NoOne
  Snapshots = {older, newer}
  Offices = {dallas}
  OfficeOf <- MCOfficeOf
  ExtractedAt <- MCExtractedAt
  Workers = {w1, w2}
  MaxAttempts = 2
  FaultKinds = {"crash"}
  MaxFaults = 1
SYMMETRY WorkerSymmetry
PROPERTIES
  MirrorNeverGoesBack
CHECK_DEADLOCK FALSE
