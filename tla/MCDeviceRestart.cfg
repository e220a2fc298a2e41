CONSTANTS
    s1 = s1
    s2 = s2
    c1 = c1
    c2 = c2
    c3 = c3
    Servers <- OneServer
    Clients <- TwoClients
    MaxFiles = 4
    MaxCrashes = 1
    StaleFiles = {"absent", "empty", "sized", "announced"}
    CallsMayFail = FALSE
    Retries = TRUE
    Impatient = TRUE
SPECIFICATION Spec
INVARIANTS MappedHeaderComplete TakenIsUnnamed
