CONSTANTS
    CoreFields <- MCCoreFields
    Value <- MCValue
    Empty <- MCEmpty
    NoFile = NoFile
    Requests = {1, 2}
    NoRequest = 0
    MaxAttempts = 2
    Domains = {0, 1}

SPECIFICATION AppSpec

INVARIANTS
    TypeOK
    DomainStays

PROPERTIES
    CommitsAtomic

CHECK_DEADLOCK FALSE
