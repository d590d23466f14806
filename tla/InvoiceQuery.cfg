\* Pages of two under a limit of three records, offsets counted in records.
SPECIFICATION Spec
CONSTANTS
    Records = {1, 2, 3, 4, 5, 6}
    PageSize = 2
    Cap = 3
    OffsetUnit = "record"
INVARIANTS
    NothingMissed
    PagesAreDisjoint
\* The iteration ends.
CHECK_DEADLOCK FALSE
