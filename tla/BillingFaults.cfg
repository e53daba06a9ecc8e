SPECIFICATION Spec
CONSTANTS
    Requests = {r1, r2}
    Preferences = {"subscription_first", "wallet_first"}
    Kinds = {"text", "audio", "playground"}
    Estimates = {2}
    Costs = {1, 3}
    InitQuota = 4
    InitRemain = 4
    AmountTotal = 3
    TokensLimit = 3
    TrustQuota = 0
    UnlimitedToken = FALSE
    TokenLinked = TRUE
    Periods = 1
    Fee = 1
    MaxAttempts = 3
    MaxFaults = 2
SYMMETRY Symmetry
INVARIANTS TypeOK WalletExact TokenExact NoResidue NeverOverRefunded WithinTotal
    SubscriptionExact CountersBalance
