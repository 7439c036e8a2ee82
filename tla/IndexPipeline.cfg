\* Two ingests of one file, the timeouts in the order of the defaults; and two calls of
\* index() for a file of any format, under six settings of the worker.
SPECIFICATION PipelineSpec
CONSTANTS
  Confs <- Workers
  Trees <- AllTrees
  Retries = 1
  LowContentFloor = 2
  A = A
  B = B
  Contents = {A, B}
  DocIds <- TwoIds
  Kinds = {"pdf", "image", "text", "office"}
  MaxRuns = 2
  i1 = i1
  i2 = i2
  None = None
  Ingests <- TwoIngests
  MaxEffective = 2
  Handshake = 1
  Floor = 1
  KillGrace = 1
  Margin = 2
  WaitBudget = 1
  CallbackAwaits = TRUE
  MaxFaults = 1
SYMMETRY
  SameBytes
INVARIANTS
  ChildUnderLock
  OneCopyPerFile
  NoLockLeftBehind
  OutageIsRequeued
  HashNamesAWhole
  RejectedIsTraced
CHECK_DEADLOCK FALSE
