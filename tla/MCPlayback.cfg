\* Two overlapping commands and the watchers of two pairs: a queue and two
\* skips, retries or plays after its start.
SPECIFICATION Spec
CONSTANTS
    Commands = {c1, c2}
    MaxPairs = 2
    Items = 2
    MaxGeneration = 3
    MaxHistory = 2
SYMMETRY MCSymmetry
INVARIANTS TypeOK OneStream NewestPlayWins NoStrandedQueue
PROPERTY EndMovesItsOwnItem
CHECK_DEADLOCK FALSE
