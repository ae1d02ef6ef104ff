CONSTANTS
    MaxRequests = 2
    Kinds = {"build"}
    Slots = {"server"}
    MaxAttempts = 2
    MaxActiveBuilds = 1

SPECIFICATION Spec

INVARIANTS
    RedeployReplaces

CHECK_DEADLOCK FALSE
