\* Every workload of at most two containers, every setting of the parameters.
CONSTANTS
  main = main
  side = side
  app = app
  base = base
  Names = {main, side}
  Images = {app, base}
  Findings <- SomeFindings
  Lists <- ListsUpToTwo
  Parameters <- SomeParameters
SPECIFICATION Spec
INVARIANTS
  JudgedExactly
  OnlyViolatorsNamed
  RelaxingNeverBlocks
