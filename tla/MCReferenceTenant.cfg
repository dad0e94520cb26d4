\* Both tenants, every workflow, every subset of the facts in any order.
CONSTANTS
  None = None
  NormStr <- MCNormStr
  Samples <- MCSamples
SPECIFICATION TenantSpec
INVARIANTS
  GoldenSetGuards
  RefundLimits
  HiggsfieldGates
\* A request with all its facts is a final state, and so is a candidate.
CHECK_DEADLOCK FALSE
