CONSTANTS
    MaxLinesPerEvent = 1
    MaxQueuedLines = 1
    SeqResumeMargin = 2
    MaxEvents = 2
    MaxLines = 2
    MaxUnrecorded = 1
    MaxUnackedRestarts = 1
    MaxRestarts = 1

SPECIFICATION Spec

INVARIANTS
    AckedMeansApplied
    SeqNamesOneEvent
    AppliedOnce
    NoSilentGap

PROPERTIES
    DeliversInOrder

CHECK_DEADLOCK FALSE
