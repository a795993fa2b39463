SPECIFICATION Spec
CONSTANTS
  clip = clip
  still = still
  Clips = {clip, still}
  MaxRows = 2
  MaxCalls = 3
  MaxAttempts = 1
  MaxFaults = 1
  MaxRepairs = 1
SYMMETRY AnyClip
INVARIANTS
  TypeOK
  OneCreate
  NoClipLost
  ClipIsHeardOf
CHECK_DEADLOCK FALSE
