SPECIFICATION VfioFairSpec
CONSTANT Procs = {p1, p2}
INVARIANTS
  VfioInv
  Recoverable
PROPERTY
  RestoreWorks
CHECK_DEADLOCK FALSE
