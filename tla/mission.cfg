SPECIFICATION FairSpec
CONSTANTS
  NumSessions = 2
  c1 = c1
  Callers <- OneCaller
  MaxCycles = 1
  MaxRows = 2
  MayFall = TRUE
  None = None
INVARIANTS TypeOK ThreadIsActive CyclesSerial
PROPERTIES LoopsObey
CHECK_DEADLOCK FALSE
