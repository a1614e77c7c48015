SPECIFICATION Spec
CONSTANTS
  Callers = {c1, c2}
  Net = 2
  MaxLegs = 2
  MaxFaults = 1
INVARIANTS
  TypeOK
  PaidInFull
  BooksFollowLegs
PROPERTIES
  NeverOverpaid
  ReleasedRowsComeBack
  ClaimLockSpec
CHECK_DEADLOCK FALSE
