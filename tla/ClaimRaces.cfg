SPECIFICATION Spec
CONSTANTS
  o1 = o1
  o2 = o2
  p1 = p1
  p2 = p2
  slot = slot
  Orders = {o1}
  Payments = {p1, p2}
  OrderOf <- SameOrder
  Handlers = {h1, h2}
  Resumer = resumer
  Slots = {slot}
  NoSlot = NoSlot
  SlotOf <- MCSlotOf
  Entries = {"COLLECTION", "GATEWAY_FEE"}
  None = None
  SlowRequests = TRUE
  MaxFaults = 1
SYMMETRY Symmetry
INVARIANTS
  CompleteIsWhole
  AnsweredPaymentIsAccounted
PROPERTIES
  SettlementIsFinal
  PaidOnceSpec
CHECK_DEADLOCK FALSE
