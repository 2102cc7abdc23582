SPECIFICATION FairSpec
CONSTANTS
  Leases = {l1, l2}
  NoLease = NoLease
  Scripts <- GeneratedScripts
PROPERTIES
  LaneSpec
  LockIsFreed
  CallsReturn
\* Every lease ends, and then nothing is left to do.
CHECK_DEADLOCK FALSE
