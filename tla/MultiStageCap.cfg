SPECIFICATION DuelSpec
CONSTANTS
    Angles = {front_left, front_right, front_above}
    SideViews = {right, back, left, top_down}
    Penalties <- MCPenalties
    Checks <- MCChecks
    Cap = 4
INVARIANTS CallsAreCapped
CHECK_DEADLOCK FALSE
