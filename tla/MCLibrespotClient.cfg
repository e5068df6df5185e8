SPECIFICATION LibSpec
CONSTANTS
    ModeNames = {"shuffle"}
    Tracks = {t1, t2}
    NoTrack = NoTrack
    Positions = {0, 1}
    MaxActs = 2
    MaxFaults = 1
CHECK_DEADLOCK FALSE
INVARIANTS
    CatchesUp
PROPERTIES
    ComesIntoStep
