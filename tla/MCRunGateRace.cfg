\* Three gates, none killed, none signalled, on a tree nobody touches.
CONSTANTS
  Gates = {g1, g2, g3}
  None = None
  NSteps = 1
  Contents = {c1}
  MaxUpsets = 0
SPECIFICATION Spec
INVARIANT OneGateAtATime
CHECK_DEADLOCK FALSE
