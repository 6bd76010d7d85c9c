\* One call, during which the module is imported a second time, nothing failing.
CONSTANTS
  make = make
  open = open
  Widget = Widget
  c1 = c1
  Functions = {make, open}
  Types = {Widget}
  Callers = {c1}
  None = None
  Blocks <- MCBlocks
  MaxImports = 2
  MaxFailures = 0
SPECIFICATION BindingSpec
INVARIANT CallsReadLiveDefaults
CHECK_DEADLOCK FALSE
