SPECIFICATION Spec
CONSTANTS
  Callers = {c1}
  Net = 2
  MaxLegs = 3
  MaxFaults = 0
INVARIANTS
  PaidMoneyIsNotClaimable
CHECK_DEADLOCK FALSE
