SPECIFICATION Spec
CONSTANTS
  monday = monday
  Weeks = {monday}
  MaxVersion = 2
  MaxJobs = 2
  MaxAttempts = 2
  MaxFaults = 1
INVARIANTS
  TypeOK
  CorrectionAdmitted
  SuccessorOnFile
  OneLiveVersion
  DeliveryIsReal
  OneCopyInsideWindow
CHECK_DEADLOCK FALSE
