SPECIFICATION Spec
CONSTANTS
  c1 = c1
  c2 = c2
  a1 = a1
  p1 = p1
  n1 = n1
  i1 = i1
  i2 = i2
  Clients <- TwoClients
  Approvals <- OneApproval
  Proposals <- OneProposal
  Notices <- OneNotice
  Items <- TwoItems
  None = None
  MaxTrades = 2
  MaxSubjects = 1
  AfterCrowd = FALSE
SYMMETRY Interchangeable
INVARIANTS TypeOK TradedOnce OneOpenItem QueueTellsTruth
PROPERTIES ClosedStaysClosed DecidedOnce
CHECK_DEADLOCK FALSE
