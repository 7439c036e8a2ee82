\* One call for a PDF on a worker with its own docling.
SPECIFICATION PipelineSpec
CONSTANTS
  Confs <- LocalWorker
  Trees <- FewTrees
  Retries = 0
  LowContentFloor = 2
  A = A
  B = B
  Contents = {A}
  DocIds <- TwoIds
  Kinds = {"pdf"}
  MaxRuns = 1
  i1 = i1
  i2 = i2
  None = None
  Ingests = {}
  MaxEffective = 2
  Handshake = 1
  Floor = 1
  KillGrace = 1
  Margin = 2
  WaitBudget = 1
  CallbackAwaits = TRUE
  MaxFaults = 1
INVARIANT
  GarbledNeverPersisted
CHECK_DEADLOCK FALSE
