SPECIFICATION Spec
CONSTANTS
    Requests = {r1, r2}
    Preferences = {"subscription_first"}
    Kinds = {"text"}
    Estimates = {2}
    Costs = {3}
    InitQuota = 5
    InitRemain = 5
    AmountTotal = 0
    TokensLimit = 3
    TrustQuota = 4
    UnlimitedToken = FALSE
    TokenLinked = FALSE
    Periods = 1
    Fee = 0
    MaxAttempts = 3
    MaxFaults = 0
INVARIANTS UpdatedByDelta
