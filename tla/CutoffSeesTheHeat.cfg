\* A pass may take 600 ms, as one does that waits for the host.
CONSTANTS
    PassMax = 60
    Frames <- HotFrames
    Averages = {1}
    Sum = 1
    Lag4 = 1
    Lag16 = 2
    Lag32 = 3
SPECIFICATION SpecEither
INVARIANT CutoffSeesTheHeat
