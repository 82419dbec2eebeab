SPECIFICATION Spec
CONSTANTS
    LastSequence = 2
    Own = "s"
    OwnTop <- OwnTops
    Taken <- ForkedTops
    Quota = 8
    Plans <- DamagePlans
CHECK_DEADLOCK FALSE
INVARIANT DamageEndsTheStream
