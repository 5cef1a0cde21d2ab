SPECIFICATION Spec
CONSTANTS
    Ids = {a}
    Unreadable = unreadable
    Stray = stray
    Kinds = {a}
    WithExpiry = {}
    MaxSends = 2
    MaxSessions = 1
    IntakeSize = 1
    RememberedIDs = 1
    TxOpenAttempts = 1
    TxBytes = 1
    ChunkBytes = 1
INVARIANTS
    EarlierCarriesOn
