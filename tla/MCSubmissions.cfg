SPECIFICATION Spec
CONSTANTS
    a = a
    b = b
    i1 = i1
    i2 = i2
    Pods = {1, 2}
    Inputs = {i1, i2}
    Ttl = 1
    Fresh = 1
    Deadline = 2
    MaxTime = 2
    MaxFaults = 1
    Prompts = {a, b}
    Attempts = 2
    QueueCapacity = 1
    MaxSubmits = 3
SYMMETRY Symmetry
INVARIANTS ClosedIsFenced DeadlineStands DroppedIsSaved ResultsShareInputs
PROPERTIES ResultsStay
CHECK_DEADLOCK FALSE
