\* Two documents, five requests; blocks of three bytes and keys of two.
SPECIFICATION Spec
CONSTANTS
    Invoices = {v1, v2}
    MaxCopies = 2
    MaxRequests = 5
    BlockSize = 3
    KeySize = 2
    Texts <- MCTexts
    Blocks <- MCBlocks
    Secrets <- MCSecrets
    KeyPairs = {p1, p2}
INVARIANTS
    TypeOK
    SessionWasOpened
    AcknowledgedIsHeld
    VerdictIsTrue
    TerminatedIsClosed
    AbandonedOnlyAfterTrouble
    PaddingIsInverted
    MessagesAreReadable
SYMMETRY Documents
\* The requests are bounded.
CHECK_DEADLOCK FALSE
