SPECIFICATION NNSpec
CONSTANTS
  Thread = {t1, t2}
  i1 = i1
  i2 = i2
  i3 = i3
  i4 = i4
  la = la
  lb = lb
  Id <- MCId
  Label <- MCLabel
  LabelOf <- MCLabelOf
  Sticky = {}
  MaxSize = 3
  CountSize = 4
  Together = {"train"}
  Name = {l1}
  Feature = {f}
  NoName = none
  StickyName = {}
  MaxNames = 1
  MaxCalls = 1
  Server = {s1}
  RowId <- MCRowId
  StickyRow <- MCStickyRow
  Column = {c1}
  Users = {"driver"}
  MaxSizes = {1}
  MaxTurns = 1
INVARIANTS CountsSurviveThreads
