CONSTANTS
    b = b
    ob = ob
    i1 = i1
    i2 = i2
    t1 = t1
    t2 = t2
    Backend = b
    OtherBackend = ob
    Ids <- MCIdsSmall
    Tools <- MCToolsSmall
    NoRole = NoRole
    NoTool = NoTool
    MaxRules = 1
    MaxPolicies = 1
    MaxCompiles = 1
SPECIFICATION Spec
INVARIANT OmittedSourceMatchesAnyone
CHECK_DEADLOCK FALSE
