\* Every client; images with up to four pages of records. A call ends when it returns.
CONSTANTS
  Clients <- AllClients
  retryAttempts = 3
  duration = 10
  MaxRecords = 7
  Scans <- SomeScans
  pageSize = 2
SPECIFICATION FairARGSpec
CHECK_DEADLOCK FALSE
INVARIANTS
  Exhausted
  AnswersTellTheLastRun
  DelayBounded
  AllOrNothing
PROPERTIES
  Terminates
