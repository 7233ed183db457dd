CONSTANTS
    Packets <- MCPackets
    StrayBytes <- MCStrayBytes
    Wrap <- MCWrap
    NoPacket = NoPacket

SPECIFICATION Spec

INVARIANTS
    TypeOK
    InMessage
    ResultTells
    DecodedAsSent
    CapabilityDecoded

PROPERTY DecodingEnds
