SPECIFICATION Spec
CONSTANTS
    Pollers = {p1}
    Platforms = {"video"}
    Estimates = {2}
    Quota = 2
    Actuals = {0, 1, 3}
    Sources = {"wallet", "subscription"}
    Legacies = {FALSE}
    RealtimeFetch = TRUE
    ChannelErrors = FALSE
    MaxFetches = 2
    MaxFaults = 0
INVARIANTS TaskNeverOverRefunded
