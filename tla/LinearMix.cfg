SPECIFICATION Spec
CONSTANTS
  Node = {n1, n2, n3}
  Feature = {f1}
  Label = {a, b}
  Update = {u1, u2}
  Unit = 6
  MaxVersion = 2
  MaxRegistered = 1
  MaxDeleted = 1
  NoLabel = NoLabel
  Sizes = {0, 1}
SYMMETRY Symmetry
CONSTRAINT Scope
CHECK_DEADLOCK FALSE
INVARIANTS TypeOK Agreement FoldIsAverage CountedOnce WeightsAreLabelled
PROPERTY GatheredSurvives
