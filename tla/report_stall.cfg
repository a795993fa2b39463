SPECIFICATION FairStallSpec
CONSTANTS
  monday = monday
  s1 = s1
  s2 = s2
  NoSweeper = NoSweeper
  Weeks = {monday}
  MaxVersion = 1
  MaxJobs = 2
  MaxAttempts = 1
  MaxFaults = 1
  Sweepers = {s1, s2}
  MaxPerEmail = 25
INVARIANTS
  ClaimIsBacked
  OneAlertPerStall
PROPERTIES
  NoSilentStall
CHECK_DEADLOCK FALSE
