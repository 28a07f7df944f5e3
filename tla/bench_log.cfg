SPECIFICATION BenchSpec
CONSTANTS
    SmallBytes <- Sizes
    DeepQueue = 2
    LongMs = 2
    MaxTime = 3
    MaxFrames = 4
    MaxInputs = 3
    MaxPings = 3
    Stamps = 2
    LogSize = 3
    MinTransit = 0
    MaxTransit = 1
    MaxAge = 2
    LongGap = 1
    Hashes = {h1, h2}
    HostRate = 500000
    Shift <- Behind
INVARIANTS LossesAreReal PairsAreTrue   ClockWithinRoundTrip 
CONSTRAINTS PingsAlone FewMessages
SYMMETRY Pictures
CHECK_DEADLOCK FALSE
