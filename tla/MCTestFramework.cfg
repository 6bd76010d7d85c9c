SPECIFICATION FairSpec
INVARIANTS TypeOK VerdictIsExact FailuresSurvive CrashIsNamed
PROPERTY CrashOfOneRunEnds
CONSTANTS
  Registered <- MCRegistered
  Filters <- MCFilters
  Signals = {"SEGV", "ABRT"}
  Refusable = {"SEGV"}
  None = None
  MaxRuns = 2
  MaxChecks = 2
CHECK_DEADLOCK FALSE
