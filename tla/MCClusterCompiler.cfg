CONSTANTS
    p1 = p1
    Nil = Nil
    Absent = Absent
    Labels <- MCLabels
    SvcNames <- MCSvcNames
    Hosts <- MCHosts
    RouteNs <- MCRouteNs
    Ports <- MCPorts
    MaxRefs = 1
SPECIFICATION Spec
CHECK_DEADLOCK FALSE
INVARIANT ClustersAsSpecified
