\* Period 10 stands for 100: ratios are tenths instead of hundredths.
CONSTANTS
    Period = 10
    Half = 5
    ReadEvery = 2
    TickMod = 3
    Ratios <- MCRatios
SPECIFICATION FairSpec
INVARIANTS Waveform PinSettled
PROPERTIES ImplementsDrive KeepsSwitching
