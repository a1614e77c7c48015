SPECIFICATION Spec
CONSTANTS
  Payments = {p1, p2}
  Refundable = {}
  Disputable = {p2}
  Late = {p1, p2}
  Settlements = {s1, s2}
  Requests = {r1}
  Overlaps = {}
  None = None
  MaxFaults = 0
SYMMETRY Symmetry
CHECK_DEADLOCK FALSE
INVARIANT RecoveredMeansDeducted
