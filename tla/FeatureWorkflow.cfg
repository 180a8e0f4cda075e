SPECIFICATION FairSpec
CONSTANTS
    NumFiles = 3
    RetryLimits <- MCRetryLimits
    MaxVersion = 2
INVARIANTS
    TypeOK
    PromotionGates
    NoSilentFailure
    ResultLedger
    RetryBound
PROPERTIES
    ImplementsContract
CHECK_DEADLOCK FALSE
