SPECIFICATION FairSpec
CONSTANTS
    p = p  q = q
    c1 = c1  c3 = c3
    AP = {p, q}
    Conn = {c1, c3}
    Owner <- MCOwner
    Fd = {1, 2}
    NoConn = NoConn
    Room = 1
    MaxSends <- MCMaxSends
INVARIANTS TypeOK NodeOwnsSocket WrongOnlyForOver NoEdgeLost
PROPERTIES StatusRead StatusAnswered LostApDropped
CHECK_DEADLOCK FALSE
