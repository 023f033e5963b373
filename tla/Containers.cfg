SPECIFICATION PartsSpec
CONSTANTS
  Id = {a, b, c, s, t, u}
  Sticky = {s, t, u}
  MaxSize = 3
SYMMETRY Symmetry
CHECK_DEADLOCK FALSE
INVARIANTS StructuresAgree ScoresHold CacheIsSound FeaturesAreRight DocumentsAreRead
PROPERTY ImplementsUnlearner PromisesKept
