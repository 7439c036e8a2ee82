SPECIFICATION Spec
CONSTANTS
  j1 = j1
  boot = boot
  minute = minute
  Jobs <- OneJob
  Sweeps <- OneSweep
  MaxTries = 2
  JobTimeout = 3
  ReapGrace = 1
  ChildGrace = 1
  MaxEffective = 2
  MaxWait = 1
  LeaseMargin = 2
  CancelBudget = 1
  MaxFaults = 0
CHECK_DEADLOCK FALSE
INVARIANTS
  FirstWriteAccepted
