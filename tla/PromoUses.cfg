SPECIFICATION Spec
CONSTANTS
  Transactions = {t1, t2}
  Callers = {c1, c2}
  Limit = 1
  SweepRaces = FALSE
  None = None
  MaxFaults = 1
INVARIANTS
  CounterCoversLive
  NotOversold
  GivenDiscountIsConsumed
PROPERTIES
  AbandonedUseReturns
CHECK_DEADLOCK FALSE
