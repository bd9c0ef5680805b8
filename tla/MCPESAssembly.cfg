SPECIFICATION Spec
CONSTANTS
    Pid = {p1, p2}
    Unit <- MCUnit
    Size <- MCSize
    HeaderOf <- MCHeaderOf
    GarbageHeaders <- MCGarbageHeaders
    StartCodeSize = 1
    FixedSize = 2
    FlagsSize = 3
    TimestampSize = 1
    PayloadSize = 3
    TsModulus = 8
    MaxPackets = 5
    MaxDisturbances = 1
SYMMETRY PidSymmetry
INVARIANTS
    TypeOK
    IntactUnitIsHeld
    TakenIsUnit
    TimestampsAreOwn
