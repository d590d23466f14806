\* Invoices of one or two lines, with or without a buyer, and changes after.
SPECIFICATION Spec
CONSTANTS
    Sellers <- MCSellers
    Buyers <- MCBuyers
    Addresses = {a1, a2}
    Numbers = {"FV1"}
    Dates <- MCDates
    Payments <- MCPayments
    Currencies = {"EUR"}
    Lines <- MCLines
    ParsedRates <- MCParsedRates
    Cells = {c1, c2, c3}
    Absent = Absent
    MaxItems = 2
    MaxCalls = 8
SYMMETRY Symmetry
INVARIANTS
    TypeOK
    SummaryReconciles
    VATIsOfTheBase
PROPERTIES
    BuiltIsFrozen
\* The calls are bounded.
CHECK_DEADLOCK FALSE
