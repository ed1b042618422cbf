SPECIFICATION FairSpec
CONSTANTS
    AC = {remote, local}  NoAc = NoAc  Remote = remote
    Conn = {1, 2, 3, 4}  NoConn = NoConn
    Fd = {5, 6}
    MaxResps = 1  MaxEnds = 0  MaxFails = 1
PROPERTY LocalAcWins
CHECK_DEADLOCK FALSE
