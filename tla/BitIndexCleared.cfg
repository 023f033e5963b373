SPECIFICATION LshSpec
CONSTANTS
  Node = {n1, n2}
  RowId = {r1, r2}
  Value = {{v1}}
  Gone = Gone
  Sticky = {}
  MaxSize = 2
  MaxRounds = 1
  MaxEdits = 3
CHECK_DEADLOCK FALSE
PROPERTY ClearedStaysCleared
