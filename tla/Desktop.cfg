SPECIFICATION Spec
CONSTANTS
    MaxRetries = 3
    MaxQuits = 2
INVARIANTS NoServerLeft NeverInvisible
PROPERTIES QuitEnds StartupSettles
CHECK_DEADLOCK FALSE
