SPECIFICATION Spec
CONSTANTS
  Vec = {x, y}
  Length = {3, 9}
  Position = {0, 8}
  MaxCalls = 4
CHECK_DEADLOCK FALSE
INVARIANT CopiesFit
