\* Two documents whose landscape page is read again with the picture that is on it.
SPECIFICATION Spec
CONSTANTS
  None = None
  Short = {"tick"}
  Noise = {"noise"}
  Dense = {}
  FullCap = 1
  MinItems = 4
  MinPerHead = 1
  Requests <- ShiftedRequests
  PageCap = 1
  MinHeads = 2
  MaxFaults = 0
INVARIANT
  FigureIsItsOwn
