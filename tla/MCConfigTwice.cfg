CONSTANTS
    Files <- MCFiles
    PortMax = 2
    DevMax = 3
    RuleMax = 3
    Word = 16
    CpuCounts = {4, 9, 30}
    Names <- MCNames
    NoIp = NoIp
    gbe1 = gbe1
    gbe2 = gbe2
    gbe3 = gbe3
    gbe4 = gbe4
    gbe5 = gbe5
    gbe6 = gbe6

SPECIFICATION ConfigSpec
INVARIANT
    ArraysHold
CHECK_DEADLOCK FALSE
