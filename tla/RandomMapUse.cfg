SPECIFICATION Spec
CONSTANTS
    LocalAcMax = 10
    NoRandom = 0
    NoMac = NoMac
    Mac = {a, b}
    MaxDraws = 12
INVARIANTS TypeOK AnswerIsOurs AloneGetsNewest FoundUnlessWrapped
CHECK_DEADLOCK FALSE
