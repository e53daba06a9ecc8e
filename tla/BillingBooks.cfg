SPECIFICATION Spec
CONSTANTS
    Requests = {r1, r2}
    Preferences = {"subscription_first"}
    Kinds = {"text", "playground", "task"}
    Estimates = {0, 2}
    Costs = {0, 3}
    InitQuota = 5
    InitRemain = 5
    AmountTotal = 3
    TokensLimit = 3
    TrustQuota = 4
    UnlimitedToken = FALSE
    TokenLinked = FALSE
    Periods = 2
    Fee = 0
    MaxAttempts = 3
    MaxFaults = 0
SYMMETRY Symmetry
INVARIANTS TokenExact BooksBalance CountersBalance
PROPERTIES ImplementsHold
