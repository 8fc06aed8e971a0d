CONSTANTS
    Ours = Ours
    Other = Other
    MaxEdits = 3
    MaxFailures = 2
    MaxPending = 2
SPECIFICATION FairSpec
PROPERTY AcceptedUnlessWriteLost
PROPERTY ObservedGenerationCurrent
CHECK_DEADLOCK FALSE
