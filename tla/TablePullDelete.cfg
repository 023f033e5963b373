SPECIFICATION Spec
CONSTANTS
  Key = {k1, k2, k3}
  Me = Me
  Write = {w1, w2, w3, w4}
  MaxPulls = 2
  MaxDeletes = 1
  During = {"delete"}
CHECK_DEADLOCK FALSE
INVARIANTS ReadsInBounds
