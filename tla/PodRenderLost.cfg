SPECIFICATION RenderSpec
CONSTANTS
    r1 = r1
    r2 = r2
    r3 = r3
    Requests = {r1, r2, r3}
    Workers = {w1}
    Slots = 1
    MaxFailures = 2
    None = None
    KeyOf <- MCOneKey
    MaxRenders = 2
    LosesReplies = TRUE
INVARIANTS AnswersAgree

CHECK_DEADLOCK FALSE
