SPECIFICATION Spec
CONSTANTS
    Segments <- MCSegments
    Devices <- MCDevices
    Ids = {"i1"}
    NotUUIDs = {}
    Txs <- MCTxs
    RememberedIDs = 1
    MaxRuns = 2
    MaxLosses = 1
CHECK_DEADLOCK FALSE
INVARIANTS
    NoResultMissed
    NobodyLeftWaiting
    PrintsWhatItSays
