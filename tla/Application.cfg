CONSTANTS
    Addrs = {a1, a2}
    Chains = {1, 2}
    NumLevels = 2
    Programs <- MCPrograms
SPECIFICATION FairSpec
INVARIANTS
    LevelKept
    RunningIsTrue
    ClosedAll
PROPERTIES
    CloseEnds
    OfferTaken
\* The process has ended, or everything was closed.
CHECK_DEADLOCK FALSE
