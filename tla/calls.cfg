SPECIFICATION FairSpec
CONSTANTS
  HardStopAfterErrors = 2
  MaxFailedCycles = 2
  CooldownAfterBlocks = 2
  CooldownCycles = 1
  NumSessions = 2
  Callers <- OneCaller
  MaxCycles = 1
  MaxAutoTotal = 1
  AutoCounts <- NoTrades
  StopOnError = FALSE
  MaxManual = 1
  Modes <- AssistOnly
  Requests <- CallRequests
  None = None
  w1 = w1
INVARIANTS CyclesSerial HaltAdmitsOnlyInFlight
CHECK_DEADLOCK FALSE
