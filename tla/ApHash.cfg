SPECIFICATION FairSpec
CONSTANTS
    m1 = m1  m2 = m2  m3 = m3  m4 = m4
    Mac <- MCMac
    NoMac = NoMac  NULL = NULL
    MaxBucket = 2
    Key <- MCKey
    Text <- MCText
    Extra = {r1}
    MaxMsgs = 5
INVARIANTS TypeOK ChainsEnd
PROPERTY AloneServed
