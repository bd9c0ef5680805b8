\* Interpolated PCRs are valid: not when the clock wraps around meanwhile.
SPECIFICATION Spec
CONSTANTS
    Pid = {p1, p2}
    Wrap = 20
    MaxSamples = 4
    AverageSamples = 3
    Expected = 2
    Threshold = 5
    Moves <- SteadyMoves
    Starts = {17}
    MaxAdded = 5
INVARIANTS
    InterpolatedIsValid
