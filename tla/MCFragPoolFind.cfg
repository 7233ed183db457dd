SPECIFICATION FairSpec
CONSTANTS
    p1 = p1
    p2 = p2
    p3 = p3
    k1 = k1
    k2 = k2
    b1 = b1
    b2 = b2
    b3 = b3
    Parsers <- MCOneParser
    Expirer = p1
    NodeNum = 3
    Keys <- MCKeys
    Buffers <- MCBuffers
    MaxPackets = 5
    None = None
PROPERTY FindReturns
CHECK_DEADLOCK FALSE
