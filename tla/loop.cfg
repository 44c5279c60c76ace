SPECIFICATION FairSpec
CONSTANTS
  HardStopAfterErrors = 1
  MaxFailedCycles = 1
  CooldownAfterBlocks = 1
  CooldownCycles = 1
  NumSessions = 2
  Callers <- NoCallers
  MaxCycles = 2
  MaxAutoTotal = 1
  AutoCounts <- UpToTwoTrades
  StopOnError = TRUE
  MaxManual = 0
  Modes <- AssistOnly
  Requests <- LoopRequests
  None = None
  w1 = w1
INVARIANTS TypeOK LoopLimits
PROPERTIES HaltEndsLoops
CHECK_DEADLOCK FALSE
