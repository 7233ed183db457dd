SPECIFICATION FairSpec
CONSTANTS
    NumWorkers = 4
    Obedient = {2, 3}
    SigParsers = {2}
    MaxStarts = 2
    MaxSignals = 2
INVARIANT
    NameMeansRunning
\* An instance ends, or its name stays behind and no other can start.
CHECK_DEADLOCK FALSE
