SPECIFICATION Spec
CONSTANTS
    Holds = {0, 2}
    Amounts = {1}
    Sources = {"wallet", "subscription"}
    Priced = {FALSE, TRUE}
    MaxMessages = 2
    MaxFaults = 1
INVARIANTS EveryResponsePaid ChargedAtMostTwice TokenFollowsFunding
PROPERTIES SessionStops
