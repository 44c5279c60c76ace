SPECIFICATION Spec
CONSTANTS
  HardStopAfterErrors = 2
  MaxFailedCycles = 1
  CooldownAfterBlocks = 2
  CooldownCycles = 1
  w1 = w1
  e1 = e1
  e2 = e2
  Evaluators <- TwoEvaluators
  CycleNumbers <- OneNumber
  Workers <- OneWorker
  Endpoints <- AllServices
  MaxEvaluations = 3
SYMMETRY Symmetric
INVARIANTS TypeOK
PROPERTIES KillMovesTogether HaltNotLiftedByStaleSave StreaksAnswered
CHECK_DEADLOCK FALSE
