SPECIFICATION Spec
CONSTANTS
  mail = mail
  import = import
  ghost = ghost
  w1 = w1
  w2 = w2
  main = main
  dedicated = dedicated
  NoWorker = NoWorker
  Jobs = {import}
  Workers = {w1, w2}
  Pollers = {main, dedicated}
  Main = main
  PollerOf <- MCPollerOf
  Limit <- MCLimit
  MaxAttempts = 2
  Unregistered = {}
  Deferring = {import}
  Revivable = {import}
  Withdrawable = {}
  MaxFaults = 2
SYMMETRY WorkerSymmetry
INVARIANTS
  TypeOK
  Fenced
  LeaseHolderOwnsRow
  OutcomeRemembered
PROPERTIES
  OutcomeVerbatim
  SlipsAreExplained
CHECK_DEADLOCK FALSE
