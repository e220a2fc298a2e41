CONSTANTS
    N = 3
    MaxMsgs = 5
    MaxLen = 3
    DataLen <- MCDataLen
    WrHandles = 3
    RdHandles = 3
    BuffKinds = {"REQ"}
    DataKinds = {"REQ"}
    SendKinds = {"REQ"}
    ReleaseUnsent = FALSE
    Polled = TRUE
SPECIFICATION FairSpec
PROPERTIES AllGoThrough FifoLive
