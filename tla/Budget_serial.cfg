\* Three requests for one pod spec, one after the other; redis works.
CONSTANTS
  r1 = r1
  r2 = r2
  r3 = r3
  k1 = k1
  p1 = p1
  Requests = {r1, r2, r3}
  Keys = {k1}
  KeyOf <- OneKey
  Replicas = {p1}
  ReplicaOf <- OneReplica
  Threshold = 3
  MaxConcurrent = 1
  RedisMayFail = FALSE
  MayCrash = FALSE
  Missing = Missing
SPECIFICATION FairBudgetSpec
INVARIANTS
  BlocksWithinBudget
PROPERTIES
  DeliveredResultsReset
