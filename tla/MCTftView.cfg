SPECIFICATION TftSpec
CONSTANTS
    Covers = {t1, t2, t3}
    NoCover = none
    CachedCovers = 2
    MaxFetched = 1
    Stations = {s1}
    Nothing = nothing
    LongTexts = {t3, s1}
    Positions <- MCPositions
    Duration = 1
    MaxTime = 2
    Height = 1
    BarFall = 1
    PeakFall = 1
    PeakHold = 1
INVARIANTS FramesWhileMoving ClockRunsTrue CoverUnderWay
PROPERTIES FramesStop CoverComes
