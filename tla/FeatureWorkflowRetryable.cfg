SPECIFICATION Spec
CONSTANTS
    NumFiles = 1
    RetryLimits <- MCRetryLimits
    MaxVersion = 1
INVARIANT
    RetryableIsRetried
CHECK_DEADLOCK FALSE
