SPECIFICATION Spec
CONSTANTS
    Pollers = {p1, p2}
    Platforms = {"video"}
    Estimates = {1, 2}
    Quota = 2
    Actuals = {0, 1, 3}
    Sources = {"wallet", "subscription"}
    Legacies = {FALSE, TRUE}
    RealtimeFetch = FALSE
    ChannelErrors = FALSE
    MaxFetches = 0
    MaxFaults = 1
INVARIANTS BilledOnce TaskNeverOverRefunded TaskExact
PROPERTIES FinalIsFinal TaskEnds FailureRefunded
