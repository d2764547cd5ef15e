SPECIFICATION FairSpec
CONSTANTS
  w1 = w1
  w2 = w2
  n1 = n1
  n2 = n2
  p1 = p1
  p2 = p2
  b1 = b1
  b2 = b2
  Workers = {w1, w2}
  Nodes = {n1, n2}
  Pods = {p1, p2}
  Heartbeats <- MCHeartbeats
  Configs <- MCConfigs
  HasK8s = TRUE
  Backends = {b1, b2}
  Faulty = {b2}
CHECK_DEADLOCK FALSE
INVARIANTS LoadedOnce RemediationHolds ActionsReported
PROPERTY HeartbeatsAnswered
