SPECIFICATION Spec
CONSTANTS
    a = a  b = b  p = p  q = q
    AC = {a}
    AP = {p, q}
    Addr = {1, 2, 3}
    NoAddr = 0  NoAc = NoAc  NoAp = NoAp  NoMac = NoMac  NoRandom = 0
    Random = {1, 2, 3, 4, 5, 6, 7, 8, 9, 10, 11, 12, 13, 14}
    LocalAcMax = 2
    Pool <- OnePool
    InitNic <- NicsSame
    Takeover <- NoTakeover
    Debug = FALSE
    Counted = TRUE
    MaxNet = 2  MaxLost = 1  MaxCrash = 1  MaxDraws = 7
INVARIANTS TypeOK IInv LeaseHeld
PROPERTIES OneLeasePerBroadcast LeasesAreTables
CHECK_DEADLOCK FALSE
