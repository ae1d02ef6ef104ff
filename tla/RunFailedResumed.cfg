CONSTANTS
    Faults = {}
    MaxRestarts = 1

SPECIFICATION Spec

PROPERTIES
    FailedStands

CHECK_DEADLOCK FALSE
