\* Two calls at once on three instances.
CONSTANTS
  Threads = {t1, t2}
  Objects = {o1, o2, o3}
  Values = {v1, v2, v3}
  None = None
SPECIFICATION Spec
SYMMETRY InstanceSymmetry
INVARIANTS
  TypeOK
  NothingInUseIsDeleted
  OneOwner
  LeakNeedsAnOverlap
PROPERTY HeldIsUnique
\* Every instance may be freed, and a freed one is not allocated again.
CHECK_DEADLOCK FALSE
