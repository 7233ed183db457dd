SPECIFICATION FairSpec
CONSTANTS
    Size = 3
    Items = {a, b}
    NoItem = NoItem
    Torn = Torn
    Fenced = TRUE
    MaxPush = 7
    MaxFail = 1
INVARIANTS
    NoOverrun
    PublishedComplete
PROPERTIES
    InPlaceStable
    FifoSpec
    AcceptedIsDelivered
\* Producers stop at MaxPush and processes may end: the queue may come to rest.
CHECK_DEADLOCK FALSE
