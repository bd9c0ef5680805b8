\* What a comment and a test promise of the synchronizer: the state found
\* breaks both.
SPECIFICATION StreamSpec
CONSTANTS
    PacketSize <- MCPacketSize
    BufferPackets = 8
    SearchPackets = 6
    ValidationDepth = 3
    CcModulus = 4
    HeaderPid <- MCHeaderPid
    Rest = {"rest"}
    NoSync = NoSync
    BadHeader = BadHeader
    Wires <- DocWires
    ChunkSizes = {1, 9}
INVARIANTS
    SomePromiseIsKept
CHECK_DEADLOCK FALSE
