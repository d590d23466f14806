\* A client configured with MaxRetries = -1, which no code refuses.
SPECIFICATION Spec
CONSTANTS
    MaxRetries <- MCNegative
    BaseDelay = 1
    MaxDuration = 7
    Statuses <- MCStatuses
    RetryAfters <- MCRetryAfters
INVARIANTS
    SuccessMeansPerformed
CHECK_DEADLOCK FALSE
