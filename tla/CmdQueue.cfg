SPECIFICATION FairSpec
CONSTANTS
  TokMod = 4
  MaxCmds = 7
  Timeouts = TRUE
  DeliveryErrors = TRUE
INVARIANTS
  CmdInv
  OneAtATime
  TokenCycle
PROPERTIES
  OkMeansExecuted
  FailIsFinal
  ExecReturns
CHECK_DEADLOCK FALSE
