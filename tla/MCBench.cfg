\* Runs of up to two cases of up to two samples each; one significant digit, ints up to 4.
CONSTANTS
  Names <- MCNames
  Domains <- MCDomains
  Outcomes <- MCOutcomes
  Elapsed = {0, 2, 3, 9}
  Targets = {5, 7}
  Inners = {0, 2}
  Measures <- MCMeasures
  Samples <- MCSamples
  Precision = 10
  IntMax = 4
  MaxCases = 2
SPECIFICATION Spec
INVARIANTS
  RunReadsBack
  LoopFitsTheTarget
\* A run is printed once.
CHECK_DEADLOCK FALSE
