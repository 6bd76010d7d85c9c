\* Calls of every entry point with up to two parameters, results of up to two levels.
CONSTANTS
  Wide = 4
  Huge = 4
  Calls <- MCCalls
  Results <- MCResults
  None = None
SPECIFICATION Spec
INVARIANTS
  TypeOK
  NullIffError
  FailureReleasesAll
  PythonErrorStands
  IntegersArriveWhole
\* A call is over once it has returned.
CHECK_DEADLOCK FALSE
