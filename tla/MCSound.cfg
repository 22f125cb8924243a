\* Two warm-ups alive at once.
SPECIFICATION FairSpec
CONSTANTS
    Levels = {1, 2}
    MaxWarmups = 2
    MaxAttempts = 2
INVARIANTS TypeOK OwnedIsRunning
PROPERTY LevelIsTold
CHECK_DEADLOCK FALSE
