CONSTANTS
    m1 = m1
    m2 = m2
    m3 = m3
    Items <- ThreeItems
    Timeouts = {"NULL"}
    MaxRemoves = 1
SPECIFICATION Spec
PROPERTIES OnlyFromVector
