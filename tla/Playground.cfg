SPECIFICATION Spec
CONSTANTS
    MaxRequests = 2
    MaxSaves = 2
    MaxClicks = 4
INVARIANTS AnswersAreOwn GeneratingIsLast CompletedIsSaved
PROPERTIES FinishedIsFrozen ReloadRepairs
CHECK_DEADLOCK FALSE
