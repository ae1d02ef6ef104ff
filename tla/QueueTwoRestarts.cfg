CONSTANTS
    MaxLinesPerEvent = 1
    MaxQueuedLines = 1
    SeqResumeMargin = 2
    MaxEvents = 2
    MaxLines = 0
    MaxUnrecorded = 1
    MaxUnackedRestarts = 2
    MaxRestarts = 2

SPECIFICATION Spec

INVARIANTS
    AckedMeansApplied

CHECK_DEADLOCK FALSE
