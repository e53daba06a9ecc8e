SPECIFICATION Spec
CONSTANTS
    Pages = {1, 2}
    Filters = {f1, f2}
    MaxQueries = 4
    MaxOps = 1
    MaxFaults = 1
INVARIANTS ShowsSelection
PROPERTIES SpinnerEnds
CHECK_DEADLOCK FALSE
