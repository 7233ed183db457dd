SPECIFICATION FairSpec
CONSTANTS
    Len = 3
    Room = 4
    MaxRecords = 6
    MaxBreaks = 3
PROPERTY
    FramedThroughout
\* The queue runs out of records.
CHECK_DEADLOCK FALSE
