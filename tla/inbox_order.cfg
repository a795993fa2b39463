SPECIFICATION Spec
CONSTANTS
  older = older
  newer = newer
  dallas = dallas
  w1 = w1
  w2 = w2
  NoOne = NoOne
  Snapshots = {older, newer}
  Offices = {dallas}
  OfficeOf <- MCOfficeOf
  ExtractedAt <- MCExtractedAt
  Workers = {w1, w2}
  MaxAttempts = 2
  FaultKinds = {"crash", "stall", "outage"}
  MaxFaults = 1
SYMMETRY WorkerSymmetry
INVARIANTS
  SucceededIsReal
PROPERTIES
  WatermarkHolds
CHECK_DEADLOCK FALSE
