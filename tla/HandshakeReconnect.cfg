CONSTANTS
    Attempts = {a1, a2}
    ClientChannels = {c1}
    ServerChannels = {s1, s2}
    NoChannel = NoChannel
    Duplicates = FALSE
    Late = {}
    Overlap = FALSE
SPECIFICATION Spec
SYMMETRY Symmetry
PROPERTY ReconnectedStays
CHECK_DEADLOCK FALSE
