SPECIFICATION Spec
CONSTANTS
    a = a  b = b  p = p  q = q
    AC = {a, b}
    AP = {p}
    Addr = {1, 2}
    NoAddr = 0  NoAc = NoAc  NoAp = NoAp  NoMac = NoMac  NoRandom = 0
    Random = {1, 2, 3, 4, 5, 6, 7, 8, 9, 10, 11, 12, 13, 14}
    LocalAcMax = 3
    Pool <- OnePool
    InitNic <- NicsBlank
    Takeover <- BTakesA
    Debug = TRUE
    Counted = TRUE
    MaxNet = 2  MaxLost = 1  MaxCrash = 1  MaxDraws = 7
INVARIANT OnlyIfAsked
CHECK_DEADLOCK FALSE
