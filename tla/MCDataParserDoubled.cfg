SPECIFICATION Spec
CONSTANTS
    a = a
    b = b
    Users <- MCUsers
    Packets <- DoubledPackets
    MaxSegSize = 2
    QueueSize = 2
    DpiSize = 1
    MaxPuts = 3
INVARIANT
    AllReassembled
