SPECIFICATION FairDuelSpec
CONSTANTS
    Angles = {front_left, front_right, front_above}
    SideViews = {right, back, left, top_down}
    Penalties <- MCPenalties
    Checks <- MCChecks
    Cap = 2
INVARIANTS MirrorFair PositionDecidesNothing
PROPERTIES DuelEnds
CHECK_DEADLOCK FALSE
