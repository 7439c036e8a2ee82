\* A client that erases one document, erasure of another and a reader; one failing call.
SPECIFICATION Spec
CONSTANTS
  e1 = e1
  other = other
  r1 = r1
  doc = doc
  neighbour = neighbour
  NoOne = NoOne
  Name = doc
  Names <- TwoNames
  Erasers = {e1}
  Purgers <- WithOther
  NameOf <- FileOf
  Readers = {r1}
  MaxFaults = 1
INVARIANTS
  CalmPassErases
  GapIsReported
  BlobStaysPurged
PROPERTY
  CacheComesClean
CHECK_DEADLOCK FALSE
