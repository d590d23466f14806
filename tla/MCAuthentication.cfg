\* Two copies of each POST; a timeout of six poll intervals.
SPECIFICATION Spec
CONSTANTS
    MaxCopies = 2
    PollInterval = 1
    PollTimeout = 6
    MaxClock = 10
    Texts <- MCTexts
    Keys = {k1, k2}
INVARIANTS
    TypeOK
    TokensAreReal
    RedeemsAfterSuccess
    TimesOutLate
    SignaturesVerify
PROPERTIES
    AuthenticateReturns
    ImplementsStatusPolling
\* The call ends: a returned call has no further step.
CHECK_DEADLOCK FALSE
