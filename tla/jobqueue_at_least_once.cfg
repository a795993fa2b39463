SPECIFICATION FairSpec
CONSTANTS
  mail = mail
  import = import
  ghost = ghost
  w1 = w1
  w2 = w2
  main = main
  dedicated = dedicated
  NoWorker = NoWorker
  Jobs = {mail, ghost}
  Workers = {w1, w2}
  Pollers = {main, dedicated}
  Main = main
  PollerOf <- MCPollerOf
  Limit <- MCLimit
  MaxAttempts = 2
  Unregistered = {ghost}
  Deferring = {mail}
  Revivable = {mail}
  Withdrawable = {ghost}
  MaxFaults = 1
PROPERTIES
  ImplementsAtLeastOnce
  EventuallySettled
CHECK_DEADLOCK FALSE
