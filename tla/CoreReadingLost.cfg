SPECIFICATION Spec
CONSTANTS
    BufferSize = 1
    EventBufferSize = 1
    MaxFrames = 3
    MaxEvents = 1
    MaxResults = 0
    MaxLosses = 0
INVARIANTS
    EveryReadingGetsOne
