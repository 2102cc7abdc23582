SPECIFICATION Spec
CONSTANTS
  Leases = {l1, l2}
  NoLease = NoLease
  Scripts <- MCScripts
INVARIANTS
  LeaseInv
  DurablePrefix
  CountIsHonest
PROPERTY
  ReleaseProvesTenure
SYMMETRY LeaseSymmetry
\* Every lease ends, and then nothing is left to do.
CHECK_DEADLOCK FALSE
