SPECIFICATION FairSpec
CONSTANTS
  m1 = m1
  m2 = m2
  s0 = s0
  s1 = s1
  Miners <- TwoMiners
  Sources <- TwoSources
  First <- s0
  Delays <- NextDay
  LastRound = 2
  GenerationBlocks = 1
  EmptyRounds = TRUE
  PauseOnStageEnd = FALSE
  Slack = 0
  MaxReveals = 2
  MaxFaults = 1
  MaxLost = 1
  MaxHolds = 1
ACTION_CONSTRAINT Bound
INVARIANTS LeadersTakeTurns AdmittedIsLatest
PROPERTIES IsReign PublicationStands CompetitionEnds
CHECK_DEADLOCK FALSE
