SPECIFICATION FairSpec
CONSTANTS
  Pods = {1, 2}
  Exchanges = {1, 2}
  Handlers = {h1}
  MaxFaults = 1
ACTION_CONSTRAINT Bound
INVARIANTS IssuedIsSettled
PROPERTIES KeepsAttempts AttemptEnds
CHECK_DEADLOCK FALSE
