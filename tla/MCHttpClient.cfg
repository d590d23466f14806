\* Three attempts, every status class, Retry-After longer than the back-off.
SPECIFICATION Spec
CONSTANTS
    MaxRetries = 2
    BaseDelay = 1
    MaxDuration = 7
    Statuses <- MCStatuses
    RetryAfters <- MCRetryAfters
INVARIANTS
    TypeOK
    SuccessIsReal
    BudgetSpentBeforeGivingUp
    RepeatsAreUnavoidable
    ErrorIsAboutLastAttempt
    RetriesArePaced
PROPERTIES
    CallReturns
    ImplementsHttpCall
\* The call ends: a returned call has no further step.
CHECK_DEADLOCK FALSE
