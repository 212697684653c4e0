SPECIFICATION PodSpec
CONSTANTS
    PodCalls = {c1, c2}
    MaxEntries = 2
    MaxReplaces = 1
    MaxLate = 1
INVARIANTS RetriesJoin
PROPERTIES ReplacementIsNew
CHECK_DEADLOCK FALSE
