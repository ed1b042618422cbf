SPECIFICATION FairSpec
CONSTANTS
    AP = {p, q, r}
    RcvBuf = 4
    MaxRestarts = 2  MaxDowns = 2  MaxNoMem = 1
INVARIANTS TypeOK EventHasFrame LockLeftOnce
PROPERTY RegisteredUnlessShared
