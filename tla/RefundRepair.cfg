SPECIFICATION Spec
CONSTANTS
  MaxRequests = 1
  Callers = {c1}
  Sweeper = sweeper
  Paid = 2
  MaxRefunds = 2
  MaxByHand = 1
  ConcurrentPay = FALSE
  SweepDue = TRUE
  UnknownTotals = FALSE
  BankOverlaps = FALSE
  MaxLegs = 2
  MaxFaults = 1
INVARIANTS
  MoneyLeavesOnce
  BooksMatchGateway
PROPERTIES
  OpenRefundIsHeld
  ProcessingEnds
CHECK_DEADLOCK FALSE
