\* A pod spec of three containers, whose look-ups return.
CONSTANTS
  c1 = c1
  c2 = c2
  c3 = c3
  Containers = {c1, c2, c3}
SPECIFICATION FairSpec
INVARIANTS
  SendsAreSafe
  EveryContainerOnce
  JudgedByImage
PROPERTIES
  ScanAnswers
  GoroutinesEnd
  ImplementsContract
