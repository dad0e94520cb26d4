\* Two handlers, two client keys, a bundle change under way: races of lookup,
\* seal and append, lost acknowledgements, and the last retry.
CONSTANTS
  None = None
  Invalid = Invalid
  b1 = b1
  approve = approve
  Threads = {t1, t2}
  ClientKeys = {k1, k2}
  Facts = {f1}
  Bundles = {b1, b2}
  Outcomes = {approve, deny}
  Evaluate <- MCEvaluate
  EventIds = {1, 2, 3}
  MAX_CHAIN_CONFLICT_RETRIES = 2
SYMMETRY MCSymmetry
SPECIFICATION Spec
INVARIANTS
  ChainValid
  Reproducible
  RulingsFollowDecisions
  ConflictMeansProgress
PROPERTY ImplementsAtomicLedger
