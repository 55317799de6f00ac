CONSTANTS
    Attempts = {a1}
    ClientChannels = {c1, c2}
    ServerChannels = {s1, s2}
    NoChannel = NoChannel
    Duplicates = FALSE
    Late = {}
    Overlap = FALSE
SPECIFICATION Spec
SYMMETRY Symmetry
INVARIANT NoPanic
CHECK_DEADLOCK FALSE
