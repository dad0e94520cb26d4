\* Two handlers over Postgres: races of publish, activate and save_draft on
\* two contents, and handlers that stop after any step.
CONSTANTS
  None = None
  Threads = {t1, t2}
  RecordIds = {r1, r2, r3}
  Hashes = {h1, h2}
  UniqueHash = TRUE
  MaxRuns = 3
SYMMETRY MCSymmetry
SPECIFICATION AloneSpec
INVARIANTS
  ReplayGated
  OneRecordPerHash
  ExactlyOnePublishedAlone
PROPERTIES
  HistoryKept
  ImplementsPublishGate
