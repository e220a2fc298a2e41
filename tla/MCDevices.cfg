CONSTANTS
    Kinds <- AllKinds
    MaxLive = 2
    MaxUses = 2
    MaxFd = 6
    MaxConns = 2
SPECIFICATION Spec
CHECK_DEADLOCK FALSE
INVARIANTS TypeOK OwnDescriptors NoLeak AcceptedInOrder
