SPECIFICATION Spec
CONSTANTS
    BufferSize = 1
    EventBufferSize = 1
    MaxFrames = 1
    MaxEvents = 2
    MaxResults = 1
    MaxLosses = 1
INVARIANTS
    EveryMessageAccountedFor
    EvictionKeepsRecent
    PublishedInOrder
    OfflineIsLast
PROPERTIES
    NothingAfterClose
