\* Two reviewers edit one draft from reads that may be stale, or one reviewer
\* edits two drafts that go together or do not.
SPECIFICATION MCSpec
CONSTANTS
  None = None
  h1 = h1
  h2 = h2
  d1 = d1
  d2 = d2
  Handlers = {h1, h2}
  DraftIds = {d1, d2}
  Sources <- MCSources
  Spans <- MCSpans
  Policies <- MCPolicies
  MaxEvidence = 2
INVARIANTS
  EvidenceExact
  AcceptedIsValid
  AssembledGrounded
  EvidencePreservedAlone
CHECK_DEADLOCK FALSE
