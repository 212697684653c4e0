SPECIFICATION FairSpec
CONSTANTS
    Callers = {c1, c2, c3}
    c1 = c1
    c2 = c2
    c3 = c3
    kA = kA
    kB = kB
    i1 = i1
    i2 = i2
    KeyOf <- MCKeyOf
    Clients = {i1, i2}
    Assignments <- MCAssignments
    Exchanges = {1, 2}
    Slots = 1
    Preparations = 1
ACTION_CONSTRAINT Bound
INVARIANTS PaysOnce Bounded
PROPERTIES CreatesEnd
CHECK_DEADLOCK FALSE
