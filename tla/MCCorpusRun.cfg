\* A corpus of one row.
CONSTANTS
  Matches <- MCMatches
  Iterations <- MCIterations
  Rows <- MCRows
  Manifests <- MCManifests
  MaxCases = 1
SPECIFICATION Spec
INVARIANT RunGoesOn
\* The run is over once it is reported, refused or ended.
CHECK_DEADLOCK FALSE
