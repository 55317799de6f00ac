CONSTANT Packets = {p1, p2}
SPECIFICATION FairSpec
INVARIANTS
    ReportedOnce
    DeliveredIsTrue
    AckReported
PROPERTY
    EventuallyReported
\* All packets are written and reported.
CHECK_DEADLOCK FALSE
