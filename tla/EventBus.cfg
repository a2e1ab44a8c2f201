SPECIFICATION FairBusSpec
CONSTANTS
    Streams <- MCStreams
    Capacity = 2
    MaxEvents = 4
CHECK_DEADLOCK FALSE
INVARIANTS NoSilentLoss
PROPERTIES Delivered Released
