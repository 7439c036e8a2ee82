\* Two pods on a node with room for one local conversion; an offloaded and a local
\* conversion.
SPECIFICATION Spec
CONSTANTS
  None = None
  Pods = {p1, p2}
  Capacity = 2
  Floors = {1, 2}
  MaxPolls = 2
  LockTTL = 1
INVARIANT ConfirmedFitTogether
