SPECIFICATION FairSpec
CONSTANTS
  Hotkeys = {h1, h2}
  Starts = {s1, s2}
  NoStart = NoStart
  LastRound = 2
  MaxPods = 1
  MaxEntries = 2
  MaxFaults = 2
CHECK_DEADLOCK FALSE
INVARIANTS OneCreate WithinCapacity
PROPERTIES QueueDrains
