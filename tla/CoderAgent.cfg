SPECIFICATION FairSpec
CONSTANTS
    NumFiles = 3
    MaxRetries = 3
    MaxVersion = 2
INVARIANTS
    TypeOK
    InferenceAccounting
    ReturnedEndsWithOneAttempt
PROPERTIES
    AgentEnds
CHECK_DEADLOCK FALSE
