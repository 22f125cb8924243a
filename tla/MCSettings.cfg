\* Two speakers, restarts at every step, a deployment that sets its token anew.
SPECIFICATION Spec
CONSTANTS
    Speakers = {s1, s2}
    Configured = {t1, t2}
    MaxTokens = 2
SYMMETRY MCSymmetry
INVARIANTS TypeOK TrustedIsArmed OffIsQuiet
PROPERTIES UnreadableIsKept TokenIsKept ImplementsStore
CHECK_DEADLOCK FALSE
