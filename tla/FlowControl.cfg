\* One unit of time is about 50 ms; the delays are scaled down.
CONSTANTS
    Writers = {w1, w2}
    Packets = {p1, p2}
    MinRTT = 1
    StartRTT = 2
    MaxRTT = 4
    RetransmitEvery = 2
    MaxRetransmitAttempts = 1
    DelayCheckEvery = 0
    MinSendDelay = 1
    BigDelay = 3
    BigStep = 2
    StartDelays = {1, 4}
    MaxDelay = 4
    TripMin = 1
    TripMax = 2
    Jitter = 1
SPECIFICATION FairSpec
INVARIANTS
    ResentInTime
    MidleIsTrue
    NoSpurious
    DelayFloor
PROPERTY
    DelayRecovers
\* The channel was given up.
CHECK_DEADLOCK FALSE
