CONSTANTS
  N = 4
  Delivered = {0, 1, 2, 3}
  PauseOnStageEnd = FALSE
  MaxFaults = 1
  MaxHolds = 1
SPECIFICATION FairSpec
ACTION_CONSTRAINT Bound
INVARIANTS ReportsAgree
PROPERTIES IsTournament RoundDecided
CHECK_DEADLOCK FALSE
