SPECIFICATION Spec
CONSTANTS
    Pollers = {p1}
    Platforms = {"video", "suno"}
    Estimates = {1, 2}
    Quota = 2
    Actuals = {0, 1, 3}
    Sources = {"wallet", "subscription"}
    Legacies = {FALSE, TRUE}
    RealtimeFetch = TRUE
    ChannelErrors = TRUE
    MaxFetches = 2
    MaxFaults = 0
INVARIANTS SunoExact ChargesAgree
