CONSTANTS
    Writers = {w1, w2}
    Lengths = {0, 1, 3, 4}
    MaxDataLen = 2
    MaxPayloads = 3
SPECIFICATION FairSpec
INVARIANTS
    TypeOK
    StreamConserved
    WholeWhenExclusive
PROPERTIES
    ImplementsFifo
    EventuallyDelivered
\* The application stops writing.
CHECK_DEADLOCK FALSE
