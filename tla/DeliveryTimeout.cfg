CONSTANT Packets = {p1}
SPECIFICATION FairSpec
PROPERTY
    NoTimeoutAfterDelivery
CHECK_DEADLOCK FALSE
