SPECIFICATION Spec
CONSTANTS
  clip = clip
  still = still
  Clips = {clip, still}
  MaxRows = 2
  MaxCalls = 2
  MaxAttempts = 1
  MaxFaults = 0
  MaxRepairs = 0
INVARIANT CompletedIsFolded
CHECK_DEADLOCK FALSE
