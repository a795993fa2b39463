SPECIFICATION FairSpec
CONSTANTS
  p1 = p1
  Drainer = Drainer
  Crew = Crew
  Nobody = Nobody
  Photos = {p1}
  MaxAttempts = 2
  MaxPasses = 2
  Chunk = 1
  MaxMishaps = 2
INVARIANTS
  TypeOK
  CaptureKept
  RemovedStaysOut
  OneChargePerDrain
PROPERTIES
  NoConfirmAfterWait
  EveryPhotoSettles
CHECK_DEADLOCK FALSE
