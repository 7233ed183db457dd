SPECIFICATION FairWiring
CONSTANTS
    Kinds = {"sp_packet", "sp_xdr", "dp_xdr"}
    MaxWorkers = 3
    MaxQueues = 6
    Wrap = 4
INVARIANTS
    InBounds
    OnePerSide
    ChosenReaderReads
PROPERTY
    EveryQueueServed
