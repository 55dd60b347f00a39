\* An unscanned container beside a healthy or an excluded one.
CONSTANTS
  main = main
  side = side
  app = app
  base = base
  Names = {main, side}
  Images = {app, base}
  Findings <- SomeFindings
  Lists <- ListsUpToTwo
  Parameters <- SomeParameters
SPECIFICATION Spec
INVARIANTS
  UnscannedIsViolation
