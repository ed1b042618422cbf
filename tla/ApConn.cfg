SPECIFICATION FairSpec
CONSTANTS
    AC = {remote, local}  NoAc = NoAc  Remote = remote
    Conn = {1, 2, 3}  NoConn = NoConn
    Fd = {5, 6}
    MaxResps = 1  MaxEnds = 1  MaxFails = 1
INVARIANTS TypeOK NoneOverwritten
PROPERTY Reconnects
CHECK_DEADLOCK FALSE
