CONSTANTS
    l1 = l1
    l2 = l2
    NoPorts = NoPorts
    ListenerSets <- MCListenerSets
    MaxFailures = 2
    MaxCalls = 4
SPECIFICATION Spec
CHECK_DEADLOCK FALSE
INVARIANT DeploymentHasDependencies
INVARIANT EnsureSucceededReady
