\* Offsets counted in pages, as the filter's documentation says.
SPECIFICATION Spec
CONSTANTS
    Records = {1, 2, 3, 4, 5, 6}
    PageSize = 2
    Cap = 6
    OffsetUnit = "page"
INVARIANTS
    NothingMissed
CHECK_DEADLOCK FALSE
