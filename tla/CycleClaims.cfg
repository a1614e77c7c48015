SPECIFICATION Spec
CONSTANTS
  Payments = {p1, p2}
  Refundable = {p1}
  Disputable = {p1}
  Late = {p1}
  Settlements = {s1, s2}
  Requests = {r1}
  Overlaps = {}
  None = None
  MaxFaults = 1
SYMMETRY Symmetry
CHECK_DEADLOCK FALSE
INVARIANTS TypeOK PaidForWhatItHolds DeductedOnce BooksFollowVerdict
 
