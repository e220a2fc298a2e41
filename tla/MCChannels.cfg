CONSTANTS
    Drivers = {"tcp", "udp", "fio", "ttt", "mfio"}
    BuffSz = 2
    MaxIn = 3
    MaxOut = 3
    Requests <- MCRequests
    Vectors <- OneBuffer
    Persistent = FALSE
SPECIFICATION FairSpec
INVARIANTS TypeOK PoolAccounting ReadsInOrder EndIsTheEnd WritesInOrder InBounds
PROPERTIES WriteCompletes
