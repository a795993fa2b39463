SPECIFICATION FairSpec
CONSTANTS
  older = older
  newer = newer
  dallas = dallas
  w1 = w1
  w2 = w2
  NoOne = NoOne
  Snapshots = {newer}
  Offices = {dallas}
  OfficeOf <- MCOfficeOf
  ExtractedAt <- MCExtractedAt
  Workers = {w1, w2}
  MaxAttempts = 3
  FaultKinds = {"crash", "stall", "outage"}
  MaxFaults = 2
INVARIANTS
  TypeOK
  LeaseIsRespected
  FailedIsHonest
PROPERTIES
  RecordedOnce
  EventuallyDecided
CHECK_DEADLOCK FALSE
