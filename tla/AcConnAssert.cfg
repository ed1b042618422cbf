SPECIFICATION Spec
CONSTANTS
    p = p  q = q
    c1 = c1  c3 = c3
    AP = {p, q}
    Conn = {c1, c3}
    Owner <- MCOwner
    Fd = {1, 2}
    NoConn = NoConn
    Room = 2
    MaxSends <- MCMaxSends
INVARIANT RecvNeverEnds
CHECK_DEADLOCK FALSE
