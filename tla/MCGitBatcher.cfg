SPECIFICATION FairSpec
CONSTANTS
    state_json = state_json
    winner_json = winner_json
    c1 = c1
    Paths <- MCPaths
    Coroutines <- MCCoroutines
    MaxWrites = 2
    MaxForeign = 1
    MaxFaults = 1
ACTION_CONSTRAINT Bound
PROPERTIES FlushedIsCommitted ShowsPrefixOfWrites EventuallyCommitted
