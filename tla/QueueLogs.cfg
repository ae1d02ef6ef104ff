CONSTANTS
    MaxLinesPerEvent = 2
    MaxQueuedLines = 3
    SeqResumeMargin = 2
    MaxEvents = 1
    MaxLines = 5
    MaxUnrecorded = 1
    MaxUnackedRestarts = 0
    MaxRestarts = 0

SPECIFICATION FairSpec

INVARIANTS
    TypeOK
    LinesTiled
    NewestKept

PROPERTIES
    EventsArrive
    CloseDrains

CHECK_DEADLOCK FALSE
