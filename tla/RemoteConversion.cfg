\* Two backends, three chunks, the conversion tried twice, one outage or rollout.
SPECIFICATION RemoteFairSpec
CONSTANTS
  mac = mac
  node = node
  None = None
  Backends <- TwoBackends
  Order <- MacFirst
  Limit <- OneEach
  Chunks = {1, 2, 3}
  Builds = {0, 1}
  MaxChunkFailures = 2
  MaxBackendFailures = 2
  MaxAttempts = 2
  MaxFaults = 1
  NoneWait = 2
  MacWait = 1
  ReadyWait = 6
  ProbeMax = 1
  ColdStart = 3
  Deadlines = {2, 5, 20}
INVARIANTS
  ColdStartWaitedOut
PROPERTIES
  FailureIsEarned
  NoWorkRepeated
  ImplementsCollection
CHECK_DEADLOCK FALSE
