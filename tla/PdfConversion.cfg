\* Captures: two documents on two slots.  Chunks: at most three.  One crash, bad page,
\* stuck thread or dead service each.
\* Pictures: at most three on two pages, one failure, one page read again.  Trees: sections
\* of at most five lines, the thresholds of the gates scaled to them.
SPECIFICATION PdfSpec
CONSTANTS
  d1 = d1
  d2 = d2
  None = None
  Docs <- TwoDocs
  PageCount <- Counts
  Positive <- Positives
  Content <- Contents
  Samples <- TreesOf
  RangePages = 1
  PodSlots = 2
  Cpus = 2
  Strategies = {"lines", "text"}
  HasGrace = FALSE
  MaxDescribed = 1
  Requests <- PdfRequests
  Cases <- PdfCases
  MinChunk = 2
  MaxChunk = 3
  ParallelMin = 3
  ParentReserve = 2
  WorkerBase = 3
  MaxDocling = 3
  MaxChunks = 3
  MaxFaults = 1
  MaxChunkFaults = 1
  Short = {"tick"}
  Noise = {"noise"}
  Dense = {}
  FullCap = 1
  MinItems = 4
  MinPerHead = 1
  PageCap = 1
  MinHeads = 2
  Window = 4
  NoisePct = 40
  GarblePct = 50
  DepthScale = 4
  MaxChars = 6
  MarkGap = 3
  BlankGap = 3
  SplitPct = 50
  Kilo = 10
  TableChars = 6
  MinRows = 1
  MinRowsLandscape = 2
  SinglePct = 50
  SinglePctLandscape = 34
  NodeGarblePct = 20
  EmptyPct = 30
  ManyNodes = 5
  NodeFloor = 4
  DeepFloor = 3
  PageFloor = 2
  ArabicFloor = 5
  HardLeafPct = 80
  PassLeafPct = 50
  PromoLeafPct = 60
  MarginalChars = 4
  FlatChars = 8
  ImageChars = 6
  SmallMin = 5
  SmallMax = 12
  SmallLowPct = 60
  SmallHighPct = 100
  MassPct = 40
INVARIANTS
  EveryPageAccounted
  TablesInPlace
  AlignmentIsBest
  EveryPageServed
  ResultIsWhole
  NothingLeftBehind
  ReportKept
  FigureIsItsOwn
  RecoveredIsShown
  PassIsClean
  VerdictMonotone
PROPERTIES
  CallReturns
  TextKept
CHECK_DEADLOCK FALSE
