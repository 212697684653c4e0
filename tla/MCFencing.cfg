SPECIFICATION FairSpec
CONSTANTS
  Pods <- MCPods
  StartOf <- MCStartOf
  MaxFaults = 1
CHECK_DEADLOCK FALSE
ACTION_CONSTRAINT Bound
INVARIANTS OneCopySelected CaptureSurvives
PROPERTIES NeverReselected Settles
