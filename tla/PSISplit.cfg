SPECIFICATION Spec
CONSTANTS
    Section <- MCSection
    Size <- MCSize
    Stuffing = Stuffing
    GarbageLengths <- MCGarbageLengths
    Pid <- MCPid
    PatPid = 0
    Pats <- MCPats
    Pmts <- MCPmts
    Programs <- MCPrograms
    Program <- MCProgram
    Sendable <- MCSendable
    PayloadSize = 5
    MaxPackets = 3
    MaxDisturbances = 0
INVARIANT SplitSectionIsParsed
CHECK_DEADLOCK FALSE
