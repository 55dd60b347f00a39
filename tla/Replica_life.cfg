\* A replica that is configured, fails and is restarted, and serves two calls.
CONSTANTS
  c1 = c1
  c2 = c2
  r1 = r1
  r2 = r2
  none = none
  NoToken = none
  Calls = {c1, c2}
  Registries = {r1, r2}
  retryAttempts = 2
  MaxDelay = 1
  Configurations <- SomeConfigurations
  MaxFailures = 2
SPECIFICATION FairSpec
INVARIANTS
  TokenIsOfRegistry
  NetworkErrorsAreRetried
  TokensAreRecent
  EndsAreNotItsOwn
PROPERTIES
  ServesForGood
