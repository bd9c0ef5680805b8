\* What documents and tests promise of the storage: the state found breaks
\* each of the promises.
SPECIFICATION Spec
CONSTANTS
    Pid <- MCPid
    SystemPid <- MCSystemPid
    Packets <- PlainPackets
    Tables <- MCTables
    MaxPackets = 3
    IdModulus = 1000
INVARIANTS
    SomePromiseIsKept
CHECK_DEADLOCK FALSE
