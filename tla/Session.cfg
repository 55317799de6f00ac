CONSTANTS
    Attempts = {a1, a2}
    ClientChannels = {c1, c2}
    ServerChannels = {s1, s2}
    NoChannel = NoChannel
    Duplicates = FALSE
    Late = {"answer", "done"}
    Overlap = FALSE
    DataLens = {64, 65}
    MaxData = 1
SPECIFICATION FairSession
INVARIANTS
    KeysAgree
    NoOrphan
    MappedIsLive
    OpenedIfSameCall
PROPERTIES
    ImplementsAgreement
    ConnectReturns
\* Every call of Connect has returned, or the process has ended.
CHECK_DEADLOCK FALSE
