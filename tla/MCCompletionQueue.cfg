SPECIFICATION CqSpec
CONSTANTS
  CqSize = 2
  IdxMod = 8
  MaxCqes = 18
  Positions = {0, 1}
INVARIANTS
  CqInv
  PollExact
PROPERTY
  ImplementsFifo
