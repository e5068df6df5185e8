SPECIFICATION Spec
CONSTANTS
    NumStations = 3
    Remembered <- MCRemembered
    Tracks = {track1}
    NoTrack = NoTrack
    Positions <- MCPositions
    Titles = {title1}
    NoTitle = NoTitle
INVARIANTS
    TypeOK
    ListNeedsStation
    RadioAgrees
    ResumeOnlyWhileAway
    PanelCurrent
    OneAnnouncedPoweroff
PROPERTIES
    SourceChangesOnCue
    ShutsDownWhileHeld
    ShutdownIsFinal
