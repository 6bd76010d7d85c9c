\* Corpora of up to two rows.
CONSTANTS
  Matches <- MCMatches
  Iterations <- MCIterations
  Rows <- MCRows
  Manifests <- MCManifests
  MaxCases = 2
SPECIFICATION Spec
INVARIANTS
  CrashIsABug
  NobodysAnswerIsABug
  OwnRowsAreInContract
\* The run is over once it is reported, refused or ended.
CHECK_DEADLOCK FALSE
