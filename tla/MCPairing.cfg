\* Two overlapping pairings of two speakers on two adapters, one plugged in or out.
SPECIFICATION Spec
CONSTANTS
    Callers = {c1, c2}
    Addresses = {a1, a2}
    Pins = {p1, p2}
    MaxAdapters = 2
    MaxPlugs = 1
SYMMETRY MCSymmetry
INVARIANTS TypeOK ConsentOnly QuietIsNotPairable
CHECK_DEADLOCK FALSE
