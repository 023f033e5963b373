SPECIFICATION PartsSpec
CONSTANTS
  Node = {n1, n2, n3}
  Key = {k1, k2}
  Write = {w1, w2, w3}
  MaxRounds = 2
  MaxPulls = 3
  MaxDeletes = 1
  MaxRefreshes = 1
  Server = {s1, s2}
  Word = {"a", "b"}
  Document <- Documents
  UserWeight = {1}
  MaxUpdates = 2
  MaxResets = 1
  Player = {"p"}
  MaxOps = 3
  Value <- Samples
  XLogX <- Logs
  window_size = 2
  MaxPushes = 4
  MaxMixes = 1
  MaxTurns = 2
SYMMETRY Symmetry
CONSTRAINT Scope
CHECK_DEADLOCK FALSE
INVARIANTS TablesWellFormed VersionNamesRow ExchangesComplete WeightsAreSound ArmsAddUp StatsAreSound
PROPERTY NoRegress
