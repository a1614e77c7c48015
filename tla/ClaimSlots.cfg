SPECIFICATION Spec
CONSTANTS
  o1 = o1
  o2 = o2
  p1 = p1
  p2 = p2
  slot = slot
  Orders = {o1, o2}
  Payments = {p1, p2}
  OrderOf <- OwnOrders
  Handlers = {h1}
  Resumer = resumer
  Slots = {slot}
  NoSlot = NoSlot
  SlotOf <- MCSlotOf
  Entries = {"COLLECTION"}
  None = None
  SlowRequests = FALSE
  MaxFaults = 1
INVARIANTS
  SecondRedemptionIsFlagged
  InvoiceNumbersUnique
PROPERTIES
  StrandedSettleCompletes
CHECK_DEADLOCK FALSE
