SPECIFICATION FairSpec
CONSTANTS
  Voters = 2
  MaxRounds = 2
  MaxCreates = 2
  MaxInvites = 2
  MaxTries = 1
  MaxFaults = 1
INVARIANTS
  TypeOK
  CreatesAreEarned
  OneLiveCreate
PROPERTIES
  DenialStands
  SignalIsCurrent
  ApprovalSurfaces
CHECK_DEADLOCK FALSE
