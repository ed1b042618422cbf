SPECIFICATION Spec
CONSTANTS
    W = 4
    Entry = {e1, e2, e3}
    Pool = Pool  Leased = Leased  NoEntry = NoEntry
    Asked = {9, 14}
    Garbage = Garbage
    Mac = {m1, m2}  NoMac = NoMac
    tables <- MCtables  Table <- MCTable  Dotted <- MCDotted
    Run <- MCRun  Width <- MCWidth  Coded <- MCCoded
    NoRow = NoRow  NULL = NULL
    MaxRegs = 3  MaxChanges = 2
INVARIANTS TypeOK PoolSound  RowTaken RangeLoaded ExitsOnBadText
PROPERTY ImplementsLeaseTable
SYMMETRY MCSymmetry
CHECK_DEADLOCK FALSE
