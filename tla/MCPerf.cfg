CONSTANTS
    N = 3
    Batching = 3
    ServerBatching = 2
    Wrap = 7
SPECIFICATION Spec
CHECK_DEADLOCK FALSE
INVARIANTS TypeOK NothingLost
PROPERTY StreamGoesOn
