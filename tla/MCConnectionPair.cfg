\* A pairing alone.
SPECIFICATION Spec
CONSTANTS
    Callers = {c1, c2}
    Overlaps = {}
    MaxAdapters = 1
    MaxRecords = 4
SYMMETRY MCSymmetry
INVARIANT PairedIsKept
CHECK_DEADLOCK FALSE
