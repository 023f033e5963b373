SPECIFICATION PartsSpec
CONSTANTS
  Client = {c1, c2}
  Worker = {t1, t2, t3}
  MaxBatch = 2
  MaxCalls = 2
  Thread = {1, 2, 3}
  NoThread <- Nobody
  Released = 0
  Workload <- Workloads
  Script <- Scripts
  MaxSpurious = 1
CHECK_DEADLOCK FALSE
INVARIANTS PoolIsSound MonitorsAreSound ClustersHold
PROPERTIES PoolReturns MonitorsServe ClusteringEnds
