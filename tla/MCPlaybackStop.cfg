\* A stop that overlaps the start of a stream.
SPECIFICATION Spec
CONSTANTS
    Commands = {c1, c2}
    MaxPairs = 2
    Items = 2
    MaxGeneration = 3
    MaxHistory = 2
INVARIANT StopEndsPlayback
CHECK_DEADLOCK FALSE
