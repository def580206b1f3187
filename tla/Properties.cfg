SPECIFICATION Spec
CONSTANTS
    None = None
    p1 = p1
    g1 = g1
    g2 = g2
    w1 = w1
    w2 = w2
    Props = {p1, p2, p3}
    People = {g1, g2}
    Staff = {g2}
    Unlimited = {}
    Limit = 1
    Calls = {c1, c2, c3}
    Registered = {p1}
    agentOf <- MCAgentOf
    Workers = {w1, w2}
    Scenarios <- MCScenarios
INVARIANTS
    LimitPassedProperly
    
    LikesAreCounted
    ImagesAccounted
    
PROPERTIES
    ReleasedIsDestroyed
CHECK_DEADLOCK FALSE
