SPECIFICATION Spec
CONSTANTS
  QScale = 1
  PScale = 2
  w1 = w1
  w2 = w2
  yes = yes
  no = no
  Workers <- TwoWorkers
  Positions <- TwoPositions
  InitialBalance = 3
  Quantities <- One
  Prices <- OneOrThree
  Marks <- Two
  MaxTrades = 3
  Free = Free
SYMMETRY Interchangeable
INVARIANTS TypeOK QuantityIsTraded CashExactUnlessStale DeadlockNeedsTwoPositions
PROPERTIES TradeClosesBooks DriftIsRounding
CHECK_DEADLOCK FALSE
