SPECIFICATION WorkersSpec
CONSTANTS
  Components = {"tasks", "topology"}
  \* TaskLifecycle
  NTasks = 2
  r1 = r1
  r2 = r2
  NoRunner = NoRunner
  NoCall = NoCall
  NoTask = NoTask
  Runner = {r1, r2}
  Call = {c1, c2}
  MaxConcurrent <- Cap1
  Eligible <- OnlyFirst
  LegacyRunner = {}
  ClaimWindow = 2
  LegacyWindow = 2
  Unresolvable <- NoTasks
  Events = {"cancel"}
  \* ClusterTopology
  Node = {1, 2, 3}
  Nobody = 0
  Clusters <- AllClusters
PROPERTIES  TopologySettles
CHECK_DEADLOCK FALSE
