SPECIFICATION Spec
CONSTANTS
  Thread = {c1, c2}
  Key = {k1, k2, k3}
  Null = Null
  MaxSize = 2
CHECK_DEADLOCK FALSE
PROPERTY OldestDiscarded
