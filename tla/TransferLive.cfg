CONSTANTS
    PacketIDLimit = 4
    Writers = {w1}
    MaxMessages = 2
    Window = 2
    Lifetime = 2
    ChanLen = 1
    MaxRetransmitAttempts = 1
SPECIFICATION FairSpec
PROPERTY
    EventuallyDelivered
\* The channel rests when every packet was written and acked.
CHECK_DEADLOCK FALSE
