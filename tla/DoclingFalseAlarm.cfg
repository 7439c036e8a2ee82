\* The same service, without hangs and second cancellations: nothing leaks for real.
SPECIFICATION Spec
CONSTANTS
  w1 = w1
  s1 = s1
  s2 = s2
  im1 = im1
  None = None
  Whole <- OneWhole
  Slices <- TwoSlices
  Images <- OneImage
  MaxConcurrent = 2
  SliceSlots = 2
  MaxHangs = 0
  MaxCuts = 0
INVARIANT
  WedgedIsReal
CHECK_DEADLOCK FALSE
