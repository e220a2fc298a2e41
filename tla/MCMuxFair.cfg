CONSTANTS
    m1 = m1
    m2 = m2
    m3 = m3
    Items <- ThreeItems
    Timeouts = {"NULL", "zero", "some"}
    MaxRemoves = 1
SPECIFICATION FairSpec
INVARIANTS TypeOK IdxInRange
PROPERTIES RoundRobin SelectEnds EveryReadyServed
