SPECIFICATION Spec
CONSTANTS
    Section <- MCSection
    Size <- MCSize
    Stuffing = Stuffing
    GarbageLengths <- MCGarbageLengths
    Pid <- MCPid
    PatPid = 0
    Pats <- MCPats
    Pmts <- MCPmts
    Programs <- MCPrograms
    Program <- MCProgram
    Sendable <- MCSendable
    PayloadSize = 5
    MaxPackets = 6
    MaxDisturbances = 2
INVARIANTS
    TypeOK
    IntactSectionIsParsed
    OnlyReceivedSections
    NothingCompleteWaits
CHECK_DEADLOCK FALSE
