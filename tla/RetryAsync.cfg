SPECIFICATION FairSpec
CONSTANTS
    c1 = c1
    c2 = c2
    c3 = c3
    Callers = {c1, c2, c3}
    MaxAttempts <- MCMaxAttempts
    BaseDelay = 1
    MaxDelay = 1
    ExponentialBase = 2
    Threshold = 3
    ResetTimeout = 2
    MaxInvocations = 2
INVARIANTS
    TypeOK
    RetryAccounting
    RetriesBounded
PROPERTIES
    EveryInvocationEnds
