SPECIFICATION Spec
CONSTANTS
  HardStopAfterErrors = 3
  MaxFailedCycles = 2
  CooldownAfterBlocks = 2
  CooldownCycles = 1
  w1 = w1
  e1 = e1
  e2 = e2
  Evaluators <- OneEvaluator
  CycleNumbers <- OneNumber
  Workers <- OneWorker
  Endpoints <- NoRequests
  MaxEvaluations = 3
INVARIANTS HardStopAfterStreak
CHECK_DEADLOCK FALSE
