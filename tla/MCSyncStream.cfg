SPECIFICATION StreamSpec
CONSTANTS
    PacketSize <- MCPacketSize
    BufferPackets = 8
    SearchPackets = 6
    ValidationDepth = 3
    CcModulus = 4
    HeaderPid <- MCHeaderPid
    Rest = {"rest"}
    NoSync = NoSync
    BadHeader = BadHeader
    Wires <- MCWires
    ChunkSizes <- MCChunkSizes
INVARIANTS
    TypeOK
    BufferBetweenCalls
    BufferIsSuffix
    IntactStreamIsDelivered
PROPERTIES
    InStepWhileSynchronized
CHECK_DEADLOCK FALSE
