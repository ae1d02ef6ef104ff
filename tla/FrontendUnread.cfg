CONSTANTS
    Decls = {"p", "q"}
    MaxOthers = 0
    Null = Null

SPECIFICATION Spec

INVARIANTS
    ServerPreserved

CHECK_DEADLOCK FALSE
