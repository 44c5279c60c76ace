SPECIFICATION FairSpec
CONSTANTS
  QScale = 1
  PScale = 1
  m1 = m1
  Markets <- OneMarket
  Market = m1
  MaxExecutions = 3
  MaxTotalAllocation = 2
  MaxMarketAllocation = 2
  ReserveCash = 1
  NumOrders = 2
  r1 = r1
  r2 = r2
  Runs <- TwoRuns
  Supervised <- OfSupervisor
  Reviews <- OverAll
  InitialCash = 2
  MaxQuantity = 2
  Quantity <- TwoAndOne
  MaxWaits = 3
  Dated <- Second
  Policy <- WaitOrCancel
  Prices <- OneOrTwo
  Exposures <- NoneOrOne
INVARIANTS TypeOK FillsAddUp CashExactUnlessLost
PROPERTIES ClosedStaysClosed SupervisorKeepsReserve OrdersSettle
CHECK_DEADLOCK FALSE
