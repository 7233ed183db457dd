SPECIFICATION FairSpec
CONSTANTS
    a = a
    b = b
    Users <- MCUsers
    Packets <- MCPackets
    MaxSegSize = 2
    QueueSize = 2
    DpiSize = 1
    MaxPuts = 5
INVARIANTS
    Whole
    NoneHeldBack
    UserInTime
PROPERTY
    InfoArrives
