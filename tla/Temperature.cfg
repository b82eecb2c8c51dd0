\* Nine interrupts: every pass polls within 100 ms.  In the history two
\* entries and lags of 3, 5, 6 stand for four and 8, 32 and 64.
CONSTANTS
    PassMax = 9
    Frames <- MCFrames
    Averages = {0, 1, 3}
    Sum = 2
    Lag4 = 3
    Lag16 = 5
    Lag32 = 6
SPECIFICATION SpecEither
INVARIANTS TypeOK FaultNeverCool AverageInRange NoHalfSecondLost
INVARIANT HistoryIsTrue
