CONSTANTS
    Period = 10
    Half = 5
    ReadEvery = 5
    TickMod = 2
    Ratios = {0, 2, 10}
SPECIFICATION SpecOnTime
INVARIANT RatioDelivered
