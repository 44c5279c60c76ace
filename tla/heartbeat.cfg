SPECIFICATION Spec
CONSTANTS
  s1 = s1
  c1 = c1
  Sessions <- OneSession
  Callers <- OneCaller
  Runner = Runner
  Nobody = Nobody
  Window = 2
  MaxTicks = 2
  MayFall = TRUE
INVARIANTS TypeOK RunningHasThread TicksSerial
PROPERTIES UncountedIsLast
