\* Two calls at a time, three images of which two have the same digest; unscanned
\* results live for one tick, scanned results for two.
CONSTANTS
  c1 = c1
  c2 = c2
  d1 = d1
  d2 = d2
  i1 = i1
  i2 = i2
  i3 = i3
  Calls = {c1, c2}
  Images = {i1, i2, i3}
  digestOf <- SharedDigest
  Digests = {d1, d2}
  RecordLists <- SomeRecordLists
  cacheExpirationTimeUnscannedResults = 1
  cacheExpirationTimeScannedResults = 2
  MaxDelay = 1
SYMMETRY Symmetry
SPECIFICATION Spec
INVARIANTS
  AnswersTellTheRecords
  FreshEnough
  NoForeignRecords
