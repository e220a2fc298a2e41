CONSTANTS
    N = 3
    MaxMsgs = 4
    MaxLen = 3
    DataLen <- MCDataLen
    WrHandles = 3
    RdHandles = 3
    BuffKinds = {"REQ", "IGNORE", "BAD"}
    DataKinds = {"REQ", "BAD"}
    SendKinds = {"REQ", "BAD", "LONG"}
    ReleaseUnsent = FALSE
    Polled = TRUE
SPECIFICATION Spec
INVARIANTS IInv TypeOK NoRingSyncError NoExit GrantedOnce
PROPERTIES FifoSafety AcceptedIsQueued
