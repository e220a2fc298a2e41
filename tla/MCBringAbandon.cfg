CONSTANTS
    N = 2
    MaxMsgs = 4
    MaxLen = 2
    DataLen <- MCDataLen
    WrHandles = 2
    RdHandles = 2
    BuffKinds = {"REQ"}
    DataKinds = {"REQ", "IGNORE"}
    SendKinds = {"REQ"}
    ReleaseUnsent = TRUE
    Polled = TRUE
SPECIFICATION Spec
INVARIANTS InOrderDelivery NoDataRace
