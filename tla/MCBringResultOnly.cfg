CONSTANTS
    N = 2
    MaxMsgs = 4
    MaxLen = 2
    DataLen <- MCDataLen
    WrHandles = 2
    RdHandles = 2
    BuffKinds = {"REQ"}
    DataKinds = {"REQ"}
    SendKinds = {"REQ"}
    ReleaseUnsent = FALSE
    Polled = FALSE
SPECIFICATION FairSpec
PROPERTIES EveryWriteCompletes
