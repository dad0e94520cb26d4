\* Two handlers, two decisions that share a case identifier; one of the
\* handlers stops half-way, and approvers repeat their rulings.
CONSTANTS
  None = None
  c1 = c1
  k1 = k1
  Threads = {t1, t2}
  Keys = {k1, k2}
  Actions = {approve, deny}
  Promotions = {TRUE, FALSE}
  CaseIds = {c1}
  CaseId <- SharedCaseId
  MaxStops = 1
SPECIFICATION FairSpec
INVARIANTS
  WriteAhead
  PromotedWithProvenance
  EscalatedUnlessStopped
PROPERTY ResolvedUnlessTaken
