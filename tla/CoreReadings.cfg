SPECIFICATION FairSpec
CONSTANTS
    BufferSize = 1
    EventBufferSize = 1
    MaxFrames = 3
    MaxEvents = 1
    MaxResults = 0
    MaxLosses = 1
INVARIANTS
    EveryReadingRecorded
PROPERTIES
    QueuedIsTaken
    RunStops
