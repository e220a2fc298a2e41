CONSTANTS
    s1 = s1
    s2 = s2
    c1 = c1
    c2 = c2
    c3 = c3
    Servers <- OneServer
    Clients <- ThreeClients
    MaxFiles = 4
    MaxCrashes = 0
    StaleFiles = {"absent", "empty", "sized"}
    CallsMayFail = TRUE
    Retries = TRUE
    Impatient = FALSE
SPECIFICATION FairSpec
INVARIANTS TypeOK OneClientPerFile ServerHasPeer PeerConnected
PROPERTIES RendezvousSpec Meet
