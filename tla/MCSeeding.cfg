\* Postgres; two processes that may stop, one of them newer, and the owner.
CONSTANTS
  None = None
  p1 = p1
  p2 = p2
  o = o
  c1 = c1
  c2 = c2
  c3 = c3
  Owner = o
  Threads = {p1, p2, o}
  RecordIds = {r1, r2, r3}
  Hashes = {seed, own}
  Seed = seed
  Own = own
  Cases = {c1, c2, c3}
  build_golden_cases <- MCCases
  UniqueHash = TRUE
  MaxRuns = 4
  OwnerRuns = 2
  MaxStops = 1
SPECIFICATION MCSpec
CHECK_DEADLOCK FALSE
INVARIANTS
  SeededClean
  UpIsComplete
PROPERTIES
  LiveBundleKept
  ComesUp
