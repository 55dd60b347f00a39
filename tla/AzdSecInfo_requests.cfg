\* Two requests for one pod spec, on two replicas that may crash; redis may fail.
CONSTANTS
  r1 = r1
  r2 = r2
  k1 = k1
  p1 = p1
  p2 = p2
  Requests = {r1, r2}
  Keys = {k1}
  KeyOf <- OneKey
  Replicas = {p1, p2}
  ReplicaOf <- TwoReplicas
  Threshold = 2
  MaxConcurrent = 3
  RedisMayFail = TRUE
  MayCrash = TRUE
  Missing = Missing
SPECIFICATION FairSpec
INVARIANTS
  TypeOK
  StatusBelowThreshold
  ChannelDiscipline
  AnswersAreComputed
PROPERTIES
  BlockIsRecorded
  EveryRequestAnswered
  WorkersFinish
  LateResultsStored
  ImplementsRequestContract
