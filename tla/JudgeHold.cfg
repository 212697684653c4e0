CONSTANTS
  N = 1
  Delivered = {0, 1}
  PauseOnStageEnd = FALSE
  MaxFaults = 0
  MaxHolds = 1
SPECIFICATION Spec
PROPERTIES HoldLasts
CHECK_DEADLOCK FALSE
