\* The basic program, and the batch program with its three invoices.
SPECIFICATION Spec
CONSTANT N = 3
INVARIANTS
    TypeOK
    NoSendOnClosed
    EveryResultCounted
    CountsAreHonest
    LeavesNoOpenSession
    ReceiptIsForAccepted
PROPERTIES
    ProgramEnds
