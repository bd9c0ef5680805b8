SPECIFICATION Spec
CONSTANTS
    Pid = {p1, p2}
    Wrap = 20
    MaxSamples = 4
    AverageSamples = 3
    Expected = 2
    Threshold = 5
    Moves <- MCMoves
    Starts = {17}
    MaxAdded = 5
SYMMETRY PidSymmetry
INVARIANTS
    TypeOK
    WindowIsRecent
    DiscontinuityIsJump
    JitterIsLargest
    AverageIsOfClock
    InterpolationFollowsClock
