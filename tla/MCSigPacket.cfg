CONSTANTS
    LinkNum = 2
    NodeNum = 3
    Packets <- MCPackets
    Chains = {1}
    Configs <- MCConfigs
    RingSize = 2
    MaxPackets = 3
    MaxTurns = 2
    Nothing = Nothing

SPECIFICATION Spec

INVARIANTS
    Disposed
    InStep
    TableTells

PROPERTY PacketsProcessed

CHECK_DEADLOCK FALSE
