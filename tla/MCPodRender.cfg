SPECIFICATION FairRenderSpec
CONSTANTS
    r1 = r1
    r2 = r2
    r3 = r3
    Requests = {r1, r2, r3}
    Workers = {w1, w2}
    Slots = 1
    MaxFailures = 1
    None = None
    KeyOf <- MCKeyOf
    MaxRenders = 1
    LosesReplies = FALSE
INVARIANTS CleanBrowser AnswersAgree WithinAllowance
PROPERTIES Answered
CHECK_DEADLOCK FALSE
