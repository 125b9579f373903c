SPECIFICATION Spec
CONSTANTS
  CqSize = 2
  IdxMod = 8
  RqSize = 4
  CtrMod = 8
  PostCount = 2
  MaxBurst = 3
  MaxRx = 11
  RxErrors = TRUE
  AllocFails = TRUE
INVARIANTS
  RxInv
  HeldNotPosted
  HeldDistinct
  PostedHavePages
