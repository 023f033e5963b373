SPECIFICATION PartsSpec
CONSTANTS
  Thread = {t1, t2}
  i1 = i1
  i2 = i2
  i3 = i3
  i4 = i4
  la = la
  lb = lb
  Id <- MCId
  Label <- MCLabel
  LabelOf <- MCLabelOf
  Sticky = {i1, i2}
  MaxSize = 2
  CountSize = 3
  Together = {"train", "push"}
  Name = {l1, l2, l3}
  Feature = {f}
  NoName = none
  StickyName = {l3}
  MaxNames = 1
  MaxCalls = 3
  \* Tables have no threads: the same values stand for servers, so that there are
  \* fewer permutations.
  Server = {t1, t2}
  RowId <- MCRowId
  StickyRow <- MCStickyRow
  Column = {c1, c2}
  Users = {"driver", "recommender", "regression"}
  MaxSizes = {0, 1}
  MaxTurns = 2
SYMMETRY PartsSymmetry
CHECK_DEADLOCK FALSE
INVARIANTS LocksSuffice RowsAreCounted LabelsAreSafe NeighborsAreServed GraphIsSound ResultsAreRight
