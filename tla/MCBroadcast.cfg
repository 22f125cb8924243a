\* Two overlapping broadcasts; four clients, so that two may be skipped when two others go.
SPECIFICATION Spec
CONSTANTS
    Clients = {c1, c2, c3, c4}
    MaxEvents = 2
SYMMETRY MCSymmetry
INVARIANTS TypeOK OnceEach HeirsAreServed
CHECK_DEADLOCK FALSE
