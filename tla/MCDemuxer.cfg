SPECIFICATION DemuxerSpec
CONSTANTS
    PacketSize <- MCPacketSize
    BufferPackets = 8
    SearchPackets = 6
    ValidationDepth = 3
    CcModulus = 16
    HeaderPid <- MCHeaderPid
    Rest <- MCRest
    NoSync = NoSync
    BadHeader = BadHeader
    Wires <- MCWires
    ChunkSizes <- MCChunkSizes
    PacketBytes = 25
    SystemPid <- MCSystemPid
    Tables <- MCTables
    MaxPackets = 20
    IdModulus = 1000
INVARIANTS
    PacketsReachStorage
    SentIsHeld
CHECK_DEADLOCK FALSE
