SPECIFICATION FairSpec
CONSTANTS
  Hotkeys = {h1, h2}
  Starts = {s1, s2}
  NoStart = NoStart
  LastRound = 1
  MaxPods = 1
  MaxEntries = 3
  MaxFaults = 1
CHECK_DEADLOCK FALSE
PROPERTY ExitedIsRetired
