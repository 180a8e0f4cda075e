SPECIFICATION Spec
CONSTANTS
    MaxVersion = 3
INVARIANTS
    TypeOK
    ReturnedIsVerified
    SeverityKept
CHECK_DEADLOCK FALSE
