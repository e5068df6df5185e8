SPECIFICATION SpectrumSpec
CONSTANTS
    kStep = 2
    kPeriod = 4
    kDisplayDelay = 4
    kStale = 6
    kRetry = 7
    kMostDue = 4
    PollTime = 5
    Pause = 2
    Periods <- MCPeriods
    MaxLate = 1
    Flat = Flat
    kFrames = 2
INVARIANTS
    BarsFollowSound
    StopsWithinRetry
