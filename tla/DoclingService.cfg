\* A whole document, two slices and an image; two slots; one thread may hang.
SPECIFICATION FairSpec
CONSTANTS
  w1 = w1
  s1 = s1
  s2 = s2
  im1 = im1
  None = None
  Whole <- OneWhole
  Slices <- TwoSlices
  Images <- OneImage
  MaxConcurrent = 2
  SliceSlots = 2
  MaxHangs = 1
  MaxCuts = 1
INVARIANTS
  NoSlotLost
  WholeConvertsAlone
  SharedPdfKept
PROPERTY
  ComesToRest
CHECK_DEADLOCK FALSE
