SPECIFICATION FairSpec
CONSTANTS
    Cell = {c1, c2, c3, c4}
    NULL = NULL
    HeadAddr = HeadAddr
INVARIANTS QInv NoFault
PROPERTIES ImplementsFifo ServesAll
