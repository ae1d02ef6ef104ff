CONSTANTS
    MaxRequests = 2
    Kinds = {"build","set-image","config","remove","delete"}
    Slots = {"server","static"}
    MaxAttempts = 2
    MaxActiveBuilds = 1

SPECIFICATION FairSpec

INVARIANTS
    TypeOK
    OnlyNewerCancels
    CancelledIsReplaced
    RowsSettled

PROPERTIES
    NewestWins
    AllEnd

CHECK_DEADLOCK FALSE
