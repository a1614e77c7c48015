SPECIFICATION Spec
CONSTANTS
  Instances = {i1, i2, i3}
  Triggers = {"tick", "button"}
  None = None
  HandoverRaces = FALSE
  MaxStalls = 1
  MaxFaults = 1
INVARIANTS
  UnlapsedRunsAlone
PROPERTIES
  LeaseIsKept
  JobRunsAgain
CHECK_DEADLOCK FALSE
