SPECIFICATION Spec
CONSTANTS
  m1 = m1
  m2 = m2
  s0 = s0
  s1 = s1
  Miners <- TwoMiners
  Sources <- TwoSources
  First <- s0
  Delays <- NextDay
  LastRound = 2
  GenerationBlocks = 1
  EmptyRounds = FALSE
  PauseOnStageEnd = FALSE
  Slack = 0
  MaxReveals = 1
  MaxFaults = 0
  MaxLost = 1
  MaxHolds = 0
PROPERTY RoundsOnlyAdvance
CHECK_DEADLOCK FALSE
