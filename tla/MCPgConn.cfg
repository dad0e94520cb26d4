\* Two threads on one connection that is dropped twice; anything goes wrong.
SPECIFICATION FairSpec
CONSTANTS
  None = None
  t1 = t1
  t2 = t2
  t3 = t3
  s1 = s1
  s2 = s2
  Threads = {t1, t2}
  Sources <- MCSources
  MaxCalls = 3
  MaxDrops = 2
  Duplicates = TRUE
  Unreachable = TRUE
INVARIANTS
  OwnWork
  AddedIsStored
PROPERTY CallsEndUnlessWedged
CHECK_DEADLOCK FALSE
