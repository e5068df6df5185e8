SPECIFICATION EjectTimerSpec
CONSTANTS
    NumStations = 1
    Remembered <- MCRemembered
    Tracks = {}
    NoTrack = NoTrack
    Positions <- MCPositions
    Titles = {}
    NoTitle = NoTitle
    MaxTimers = 2
    MaxTime = 4
    LongPress = 2
PROPERTIES
    ShutsDownWhileHeld
CHECK_DEADLOCK FALSE
