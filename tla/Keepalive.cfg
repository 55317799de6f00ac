CONSTANTS
    Check = 2
    PingAfter = 16
    DeadAfter = 24
    Jitter = 1
    Latency = 1
    MaxLost = 1
SPECIFICATION FairSpec
INVARIANTS
    TypeOK
    IdleLives
    HalfOpenEnds
PROPERTY
    TimerStops
