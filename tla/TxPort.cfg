SPECIFICATION FairSpec
CONSTANTS
    Ids = {a}
    Unreadable = unreadable
    Stray = stray
    Kinds = {a, unreadable, stray}
    WithExpiry = {1}
    MaxSends = 2
    MaxSessions = 1
    IntakeSize = 1
    RememberedIDs = 1
    TxOpenAttempts = 1
    TxBytes = 2
    ChunkBytes = 1
INVARIANTS
    BytesReported
    EveryTxAccountedFor
PROPERTIES
    AcceptedGetsFinal
    StopEnds
