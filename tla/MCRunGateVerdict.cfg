\* Two gates of a tier of two steps, the tree moving under them, and what they owe under fairness.
CONSTANTS
  Gates = {g1, g2}
  None = None
  NSteps = 2
  Contents = {c1, c2}
  MaxUpsets = 2
SPECIFICATION FairSpec
INVARIANTS
  PassJudgedOneTree
PROPERTIES
  EveryGateEnds
  KilledHoldersLockIsReclaimed
CHECK_DEADLOCK FALSE
