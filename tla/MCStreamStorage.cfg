\* Three packets and any number of calls.
SPECIFICATION Spec
CONSTANTS
    Pid <- MCPid
    SystemPid <- MCSystemPid
    Packets <- MCPackets
    Tables <- MCTables
    MaxPackets = 3
    IdModulus = 1000
INVARIANTS
    TypeOK
    PacketsInOrder
    HeldIsOwed
    OneUnitPerIteration
    SegmentsTilePayload
    DiscontinuityIsAnnouncedJump
    UniqueIdsUnlessReset
    TableFilters
PROPERTIES
    PayloadsStayValid
    ClosedByOwnUnitStart
    ImplementsPacketStore
CHECK_DEADLOCK FALSE
