SPECIFICATION FairWiring
CONSTANTS
    Kinds = {"sp_user"}
    MaxWorkers = 3
    MaxQueues = 6
    Wrap = 4
INVARIANT
    InBounds
