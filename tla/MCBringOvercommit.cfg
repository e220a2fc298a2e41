CONSTANTS
    N = 2
    MaxMsgs = 4
    MaxLen = 2
    DataLen <- MCDataLen
    WrHandles = 3
    RdHandles = 3
    BuffKinds = {"REQ"}
    DataKinds = {"REQ"}
    SendKinds = {"REQ"}
    ReleaseUnsent = FALSE
    Polled = TRUE
SPECIFICATION Spec
INVARIANTS CompletedWasConsumed
PROPERTIES SlotCycle 
