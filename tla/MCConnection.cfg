\* The engine's attempt against an operator's connection and against a removal; each operation alone too.
SPECIFICATION Spec
CONSTANTS
    Callers = {c1, c2}
    Overlaps = {{"connect", "auto"}, {"auto", "remove"}}
    MaxAdapters = 1
    MaxRecords = 4
SYMMETRY MCSymmetry
INVARIANTS TypeOK OneConnection ConnectedIsTrue SpeakerIsKept RemovedIsForgotten
CHECK_DEADLOCK FALSE
