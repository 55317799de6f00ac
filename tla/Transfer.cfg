CONSTANTS
    PacketIDLimit = 4
    Writers = {w1, w2}
    MaxMessages = 5
    Window = 2
    Lifetime = 2
    ChanLen = 1
    MaxRetransmitAttempts = 1
SPECIFICATION Spec
INVARIANTS
    InOrder
    NoLoss
    ReceiveQueueAhead
    IndexMatchesQueue
PROPERTY
    ImplementsFifo
\* The channel rests when every packet was written and acked.
CHECK_DEADLOCK FALSE
