\* Three gates of one tree: the lock under kills, signals, reused pids and moves.
CONSTANTS
  Gates = {g1, g2, g3}
  None = None
  NSteps = 1
  Contents = {c1, c2}
  MaxUpsets = 2
SPECIFICATION Spec
SYMMETRY GateSymmetry
INVARIANTS
  UnrobbedGateOwnsTheLock
  ExclusiveUntilADeparture
  LeftoverOnlyFromTheKilled
  UnchangedLockIsFreeToReclaim
\* Every gate ends in a refusal, a verdict or its death: then nothing is left to do.
CHECK_DEADLOCK FALSE
