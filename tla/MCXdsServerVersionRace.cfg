\* Concurrent publishes for two nodes: are version tokens unique?
CONSTANTS
    Nodes = {n1, n2}
    Workers = {w1, w2}
    Configs = {c1, c2}
    Malformed = bad
    NoSnapshot = none
    MaxVersion <- MCMaxVersion
    MaxRestarts = 0
SPECIFICATION Spec
INVARIANT VersionTokensUnique
