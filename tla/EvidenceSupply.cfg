SPECIFICATION Spec
CONSTANTS
    LastSequence = 2
    Own = "s"
    OwnTop <- OwnTops
    Taken <- TakenTops
    Quota = 8
    Plans <- RunPlans
CHECK_DEADLOCK FALSE
INVARIANTS
    MarksHold
    ReplicaSuffices
    ReadsAreGenuine
PROPERTY ReadsResolve
