\* Two calls at a time for an image whose tag moves.
CONSTANTS
  c1 = c1
  c2 = c2
  i1 = i1
  d1 = d1
  d2 = d2
  Calls = {c1, c2}
  Images = {i1}
  Digests = {d1, d2}
  CacheExpirationTimeForResults = 2
  MaxDelay = 1
SYMMETRY Symmetry
SPECIFICATION Spec
INVARIANTS
  UnauthorizedOnlyAfterAll
  MissingIsFinal
PROPERTY
  AnswersAreRecent
