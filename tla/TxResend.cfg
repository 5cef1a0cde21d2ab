SPECIFICATION Spec
CONSTANTS
    Ids = {a, b}
    Unreadable = unreadable
    Stray = stray
    Kinds = {a, b}
    WithExpiry = {}
    MaxSends = 3
    MaxSessions = 2
    IntakeSize = 1
    RememberedIDs = 1
    TxOpenAttempts = 0
    TxBytes = 1
    ChunkBytes = 1
SYMMETRY IdSymmetry
INVARIANTS
    TypeOK
    NotPrintedTwice
    WrittenIsFound
    SettledInOrder
    StandingIsTrue
    NoWriteOnClosedPort
    NothingStranded
PROPERTIES
    KeepsContract
