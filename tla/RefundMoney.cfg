SPECIFICATION Spec
CONSTANTS
  MaxRequests = 2
  Callers = {c1, c2}
  Sweeper = sweeper
  Paid = 2
  MaxRefunds = 2
  MaxByHand = 0
  ConcurrentPay = FALSE
  SweepDue = FALSE
  UnknownTotals = FALSE
  BankOverlaps = FALSE
  MaxLegs = 0
  MaxFaults = 1
SYMMETRY Symmetry
INVARIANTS
  TypeOK
  RequestsWithinPaid
PROPERTIES
  FullIsFinal
CHECK_DEADLOCK FALSE
