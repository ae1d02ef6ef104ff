CONSTANTS
    Faults = {"drain"}
    MaxRestarts = 1

SPECIFICATION Spec

INVARIANTS
    SettledOnceJobExists

CHECK_DEADLOCK FALSE
