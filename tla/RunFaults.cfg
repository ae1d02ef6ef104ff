CONSTANTS
    Faults = {"crash", "drain", "annotate", "delete", "create", "git", "remove", "expire"}
    MaxRestarts = 2

SPECIFICATION Spec

INVARIANTS
    TypeOK
    AnnotationsTrue
    RunningIsLive
    AcceptedIsSettled
    RecordMatchesRow

PROPERTIES
    ReportsInOrder
    VerdictStands

CHECK_DEADLOCK FALSE
