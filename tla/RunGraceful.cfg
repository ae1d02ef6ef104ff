CONSTANTS
    Faults = {"annotate", "git"}
    MaxRestarts = 2

SPECIFICATION FairSpec

INVARIANTS
    SettledOnceJobExists
    NoOrphanJob

PROPERTIES
    ComesToRest

CHECK_DEADLOCK FALSE
