\* Two warm-ups alive at once.
SPECIFICATION Spec
CONSTANTS
    Levels = {1, 2}
    MaxWarmups = 2
    MaxAttempts = 2
INVARIANT WarmedWhileKept
CHECK_DEADLOCK FALSE
