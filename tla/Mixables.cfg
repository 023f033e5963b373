SPECIFICATION PartsSpec
CONSTANTS
  Node = {n1, n2}
  RowId = {r1, r2, r3}
  Value = {v1, v2}
  Gone = Gone
  Sticky = {r1, r2}
  MaxSize = 2
  MaxRounds = 3
  MaxEdits = 4
  Keyword = {"k"}
  Position = {0, 1, 2, 3, 4}
  WindowSize = 3
  RotateSize = 2
  Survival = 1
  MaxDocs = 3
  MaxOps = 3
SYMMETRY Symmetry
CHECK_DEADLOCK FALSE
INVARIANTS RowsAreServed MastersAgree QuietRoundsConverge IndexesAreSound BurstsAreSound BurstsAreOptimal PointsAreKept LofTablesHold
