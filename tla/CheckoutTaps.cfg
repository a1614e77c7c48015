SPECIFICATION Spec
CONSTANTS
  t1 = t1
  t2 = t2
  t3 = t3
  k1 = k1
  Taps = {t1, t2, t3}
  Keys = {k1}
  KeyOf <- DoubleTap
  NoKey = NoKey
  None = None
  MaxFaults = 1
INVARIANTS
  OneOrderPerKey
  RefusedHoldsNothing
PROPERTIES
  HandsOutWholeOrders
  SlotComesBack
CHECK_DEADLOCK FALSE
