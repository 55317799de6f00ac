CONSTANTS
    Conns = {c1, c2}
    Lengths = {2}
    ReadLens = {1}
    ChanLen = 1
    AppCloses = {c1}
    MaxMessages = 2
    None = None
SPECIFICATION FairSpec
INVARIANTS
    ReadsWhole
    ReadErrorIsTrue
PROPERTIES
    ImplementsConnection
    ReadUnblocked
    WriteReturns
CHECK_DEADLOCK FALSE
