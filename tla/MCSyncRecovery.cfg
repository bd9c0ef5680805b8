SPECIFICATION RecoverySpec
CONSTANTS
    PacketSize = 3
    BufferPackets = 6
    SearchPackets = 4
    ValidationDepth = 3
    CcModulus = 4
    HeaderPid <- MCHeaderPid
    Rest = {"rest"}
    NoSync = NoSync
    BadHeader = BadHeader
    MaxDisturbances = 2
    Noise <- MCNoise
    Filler = BadHeader
PROPERTIES
    SynchronizesForGood
