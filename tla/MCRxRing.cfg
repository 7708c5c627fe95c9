CONSTANTS
    RX_BUF_CAP = 3
    MaxSegment = 4
    MaxWant = 2
    MaxStream = 8
SPECIFICATION RingSpec
INVARIANT RingHoldsUndelivered
INVARIANT DeliveredIsPrefix
PROPERTY LossOnlyWhenFull
PROPERTY RefinesFifo
