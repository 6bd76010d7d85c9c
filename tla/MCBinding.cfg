\* Five blocks, imported up to four times, two failures, one call at a time.
CONSTANTS
  make = make
  open = open
  Widget = Widget
  c1 = c1
  Functions = {make, open}
  Types = {Widget}
  Callers = {c1}
  None = None
  Blocks <- MCBlocks
  MaxImports = 4
  MaxFailures = 2
SPECIFICATION BindingSpec
INVARIANTS
  BindingTypeOK
  DefaultsBelongToSpecs
  DoubleDefNeverImports
  DefaultOutlivesTheCall
  ImportedIsWhole
  ErrorsAreOwnOrLater
PROPERTY LiveTablesStay
\* The bound on imports is reached.
CHECK_DEADLOCK FALSE
