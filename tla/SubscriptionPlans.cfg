SPECIFICATION Spec
CONSTANTS
  Orders = {o1, o2}
  Grants = {o2}
  Requests = {r1}
  Resumer = resumer
  None = None
  SyncRaces = FALSE
  SyncLost = FALSE
  Grace = 0
  MaxDate = 2
  MaxFaults = 2
INVARIANTS
  PurchaseStands
  CopyFollowsPlans
PROPERTIES
  NeverWithoutPlan
  PaidPlanGoesLive
CHECK_DEADLOCK FALSE
