\* Publish and serve across one controller restart.
CONSTANTS
    Nodes = {n1, n2}
    Workers = {w1, w2}
    Configs = {c1, c2}
    Malformed = bad
    NoSnapshot = none
    MaxVersion <- MCMaxVersion
    MaxRestarts = 1
SPECIFICATION Spec
INVARIANT TypeOK
PROPERTY PerNodeVersionIncreasing
