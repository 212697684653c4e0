SPECIFICATION Spec
CONSTANTS
  Pods = {1, 2}
  Exchanges = {1, 2}
  Handlers = {h1}
  MaxFaults = 0
INVARIANTS ReservationCleared
CHECK_DEADLOCK FALSE
