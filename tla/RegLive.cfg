SPECIFICATION TimedSpec
CONSTANTS
    AC = {a}
    AP = {p}
    Addr = {1, 2, 3, 4, 5, 6, 7}
    NoAddr = 0  NoAc = NoAc  NoAp = NoAp  NoMac = NoMac  NoRandom = 0
    Random = {1, 2, 3, 4, 5, 6, 7, 8, 9, 10, 11, 12, 13, 14}
    LocalAcMax = 2
    Pool <- OnePool
    InitNic <- NicsSame
    Takeover <- NoTakeover
    Debug = FALSE
    Counted = FALSE
    DefaultItv = 10
    Options <- MCOptions
    MaxNet = 9  MaxLost = 1  MaxCrash = 1  MaxDraws = 1
INVARIANT RegInTime
PROPERTY EventuallyRegistered
CHECK_DEADLOCK FALSE
