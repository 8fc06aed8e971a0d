\* Publish and serve with no controller restart, under the fairness of the
\* serving loops: parked watches are current and every proxy converges.
CONSTANTS
    Nodes = {n1, n2}
    Workers = {w1, w2}
    Configs = {c1, c2}
    Malformed = bad
    NoSnapshot = none
    MaxVersion <- MCMaxVersion
    MaxRestarts = 0
SPECIFICATION FairSpec
INVARIANT ParkedWatchCurrent
PROPERTY Converges
PROPERTY StoreSpec
