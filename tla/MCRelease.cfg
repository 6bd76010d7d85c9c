\* Two clones, two releases and one upset, with changes pushed meanwhile.
CONSTANTS
  Clones = {c1, c2}
  TagBody = FALSE
  MaxCommits = 4
  MaxRuns = 2
  MaxUpsets = 1
SPECIFICATION Spec
SYMMETRY CloneSymmetry
INVARIANTS
  TypeOK
  ReleasedOnGreen
  MainNumbersItsReleases
  SuccessIsWhole
  RefusalRestores
PROPERTY RemoteIsARegister
\* Every release in every clone may be over, and the bound on their number reached.
CHECK_DEADLOCK FALSE
