SPECIFICATION Spec
CONSTANTS
    Keep = 3
    MaxBytes = 2
    RecordSizes = {1, 3}
    MaxRecords = 6
    MaxFaults = 3
INVARIANTS
    TypeOK
    HistoryIsRecent
    PastLimitIsReported
