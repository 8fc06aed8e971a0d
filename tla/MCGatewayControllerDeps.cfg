\* Backend and AccessPolicy changes: their enqueue functions are empty.
CONSTANTS
    g1 = g1
    g2 = g2
    r1 = r1
    b1 = b1
    p1 = p1
    w1 = w1
    w2 = w2
    Absent = Absent
    OtherRef = OtherRef
    Gateways <- MCGateways
    Routes <- MCRoutes
    Backends <- MCBackends
    Policies <- MCPolicies
    Workers <- MCWorkers
    RouteBackends <- MCRouteBackends
    PolicyTarget <- MCPolicyTarget
    MaxGen = 2
    MaxEvents = 5
    RouteHandlerEnqueues = TRUE
SPECIFICATION FairSpec
PROPERTY DependencyChangesSynced
CHECK_DEADLOCK FALSE
